----------------------------- MODULE MarketProofs -----------------------------
(***************************************************************************)
(* Theorems about the parts that keep market data: SlidingWindow, for a    *)
(* buffer of any capacity; OrderBook, for books of any depth and level;    *)
(* CandleStore, for any frames, chunks and lengths of a candle; and        *)
(* CandleSeries, for any capacity, any frame and any length of a candle.   *)
(***************************************************************************)
EXTENDS SlidingWindow, OrderBook, CandleStore, CandleSeries, SequenceTheorems,
        FiniteSetTheorems, WellFoundedInduction, TLAPS

-----------------------------------------------------------------------------
(* The readers need the type of the indices and the slots that are filled. *)
WindowIInv == WindowTypeOK /\ WindowFilled

(* A sum below twice the divisor: the remainder needs no division. *)
LEMMA ModOnce ==
    ASSUME NEW n \in Nat, NEW c \in Nat \ {0}, n < 2 * c
    PROVE  n % c = IF n < c THEN n ELSE n - c
<1>1. CASE n < c
  <2>1. n = c * (n \div c) + (n % c) /\ n % c \in 0 .. c - 1 /\ n \div c \in Int
    BY SMT
  <2> QED
    BY <1>1, <2>1, SMT
<1>2. CASE ~(n < c)
  BY <1>2, SMT
<1> QED
  BY <1>1, <1>2

(* The slot of an item, without the remainder. *)
LEMMA SlotIs ==
    ASSUME NEW h \in Slots, NEW i \in 0 .. Capacity
    PROVE  /\ (h + i) % Capacity \in Slots
           /\ (h + i) % Capacity = IF h + i < Capacity THEN h + i ELSE h + i - Capacity
<1>1. Capacity \in Nat \ {0} /\ h \in 0 .. Capacity - 1
  BY WindowAssumption DEF Slots
<1>2. PICK n \in Nat : n = h + i /\ n < 2 * Capacity
  BY <1>1
<1>3. n % Capacity = IF n < Capacity THEN n ELSE n - Capacity
  BY <1>1, <1>2, ModOnce
<1> QED
  BY <1>1, <1>2, <1>3 DEF Slots

(* From any head every slot is reached. *)
LEMMA SlotsOnto ==
    ASSUME NEW h \in Slots, NEW s \in Slots
    PROVE  \E i \in 0 .. Capacity - 1 : s = (h + i) % Capacity
<1>1. h \in 0 .. Capacity - 1 /\ s \in 0 .. Capacity - 1 /\ Capacity \in Nat \ {0}
  BY WindowAssumption DEF Slots
<1>2. PICK i \in 0 .. Capacity - 1 : i = IF s >= h THEN s - h ELSE s + Capacity - h
  <2>1. CASE s >= h
    BY <1>1, <2>1
  <2>2. CASE ~(s >= h)
    <3>1. s + Capacity - h \in 0 .. Capacity - 1
      BY <1>1, <2>2
    <3> QED
      BY <2>2, <3>1
  <2> QED
    BY <2>1, <2>2
<1>3. s = IF h + i < Capacity THEN h + i ELSE h + i - Capacity
  BY <1>1, <1>2
<1>4. i \in 0 .. Capacity
  BY <1>1, <1>2
<1>5. s = (h + i) % Capacity
  BY <1>3, <1>4, SlotIs
<1> QED
  BY <1>5

(* No two items share a slot. *)
LEMMA SlotsApart ==
    ASSUME NEW h \in Slots, NEW i \in 0 .. Capacity - 1, NEW j \in 0 .. Capacity - 1, i # j
    PROVE  (h + i) % Capacity # (h + j) % Capacity
<1>1. Capacity \in Nat \ {0} /\ h \in 0 .. Capacity - 1 /\ i \in 0 .. Capacity /\ j \in 0 .. Capacity
  BY WindowAssumption DEF Slots
<1> DEFINE At(k) == IF h + k < Capacity THEN h + k ELSE h + k - Capacity
<1>2. (h + i) % Capacity = At(i) /\ (h + j) % Capacity = At(j)
  BY <1>1, SlotIs
<1>3. At(i) # At(j)
  BY <1>1
<1> QED
  BY <1>2, <1>3

(* An empty buffer has the invariant. *)
LEMMA InitWindow == WindowInit => WindowIInv
BY WindowAssumption DEF WindowInit, WindowIInv, WindowTypeOK, WindowFilled, Slots, SlotOf

(* A push keeps the type ... *)
LEMMA PushType ==
    ASSUME WindowTypeOK, NEW x \in Items, WindowPush(x)
    PROVE  WindowTypeOK'
<1>1. head \in Slots /\ size \in 0 .. Capacity /\ Capacity \in Nat \ {0} /\ 1 \in 0 .. Capacity
  BY WindowAssumption DEF WindowTypeOK
<1>2. SlotOf(size) \in Slots /\ (head + 1) % Capacity \in Slots
  BY <1>1, SlotIs DEF SlotOf
<1>3. buffer' \in [Slots -> Items \cup {NoItem}]
  BY <1>2 DEF WindowTypeOK, WindowPush
<1>4. CASE size < Capacity
  BY <1>1, <1>3, <1>4 DEF WindowTypeOK, WindowPush
<1>5. CASE ~(size < Capacity)
  BY <1>1, <1>2, <1>3, <1>5 DEF WindowTypeOK, WindowPush
<1> QED
  BY <1>4, <1>5

(* ... and fills the slot that follows the newest item. *)
LEMMA PushFilled ==
    ASSUME WindowIInv, NEW x \in Items, WindowPush(x)
    PROVE  WindowFilled'
<1>1. WindowTypeOK /\ WindowTypeOK'
  BY PushType DEF WindowIInv
<1>2. \A s \in Slots : buffer'[s] = IF s = SlotOf(size) THEN x ELSE buffer[s]
  BY <1>1 DEF WindowPush, WindowTypeOK
<1>3. x # NoItem
  BY WindowAssumption
<1>4. CASE size < Capacity
  <2>1. size' = size + 1 /\ head' = head /\ size \in Nat
    BY <1>1, <1>4, WindowAssumption DEF WindowPush, WindowTypeOK
  <2>2. \A i : SlotOf(i)' = SlotOf(i)
    BY <2>1 DEF SlotOf
  <2>3. ASSUME NEW s \in Slots
        PROVE  buffer'[s] # NoItem <=> \E i \in 0 .. size' - 1 : s = SlotOf(i)
    <3>1. 0 .. size' - 1 = (0 .. size - 1) \cup {size}
      BY <2>1
    <3> QED
      BY <1>2, <1>3, <3>1 DEF WindowIInv, WindowFilled
  <2> QED
    BY <2>2, <2>3 DEF WindowFilled
<1>5. CASE ~(size < Capacity)
  <2>1. size = Capacity /\ size' = Capacity
    BY <1>1, <1>5, WindowAssumption DEF WindowPush, WindowTypeOK
  <2>2. ASSUME NEW s \in Slots
        PROVE  /\ \E i \in 0 .. size' - 1 : s = SlotOf(i)'
               /\ \E i \in 0 .. size - 1 : s = SlotOf(i)
    BY <1>1, <2>1, SlotsOnto DEF SlotOf, WindowTypeOK
  <2>3. ASSUME NEW s \in Slots PROVE buffer'[s] # NoItem
    BY <1>2, <1>3, <2>2 DEF WindowIInv, WindowFilled
  <2> QED
    BY <2>2, <2>3 DEF WindowFilled
<1> QED
  BY <1>4, <1>5

(* A pop empties the slot of the newest item, which is no other item's. *)
LEMMA PopWindow ==
    ASSUME WindowIInv, WindowPop
    PROVE  WindowIInv'
<1>1. /\ WindowTypeOK /\ size \in Nat \ {0} /\ size <= Capacity
      /\ size' = size - 1 /\ head' = head /\ Capacity \in Nat \ {0}
  BY WindowAssumption DEF WindowIInv, WindowTypeOK, WindowPop
<1>2. size - 1 \in 0 .. Capacity - 1 /\ size - 1 \in 0 .. Capacity
  BY <1>1
<1>3. SlotOf(size - 1) \in Slots
  BY <1>1, <1>2, SlotIs DEF SlotOf, WindowTypeOK
<1>4. WindowTypeOK'
  BY <1>1, <1>2, <1>3 DEF WindowTypeOK, WindowPop
<1>5. \A s \in Slots : buffer'[s] = IF s = SlotOf(size - 1) THEN NoItem ELSE buffer[s]
  BY <1>1 DEF WindowPop, WindowTypeOK
<1>6. \A i : SlotOf(i)' = SlotOf(i)
  BY <1>1 DEF SlotOf
<1>7. ASSUME NEW i \in 0 .. size' - 1 PROVE SlotOf(i) # SlotOf(size - 1)
  <2>1. i \in 0 .. Capacity - 1 /\ i # size - 1
    BY <1>1
  <2> QED
    BY <1>1, <1>2, <2>1, SlotsApart DEF SlotOf, WindowTypeOK
<1>8. 0 .. size - 1 = (0 .. size' - 1) \cup {size - 1}
  BY <1>1
<1>9. ASSUME NEW s \in Slots
      PROVE  buffer'[s] # NoItem <=> \E i \in 0 .. size' - 1 : s = SlotOf(i)
  BY <1>5, <1>7, <1>8 DEF WindowIInv, WindowFilled
<1> QED
  BY <1>4, <1>6, <1>9 DEF WindowIInv, WindowFilled

(* Every step keeps the invariant. *)
LEMMA StepWindow == WindowIInv /\ [WindowNext]_windowVars => WindowIInv'
<1> SUFFICES ASSUME WindowIInv, [WindowNext]_windowVars PROVE WindowIInv'
  OBVIOUS
<1>1. ASSUME NEW x \in Items, WindowPush(x) PROVE WindowIInv'
  BY <1>1, PushType, PushFilled DEF WindowIInv
<1>2. CASE WindowPop
  BY <1>2, PopWindow
<1>3. CASE UNCHANGED windowVars
  BY <1>3 DEF windowVars, WindowIInv, WindowTypeOK, WindowFilled, SlotOf
<1> QED
  BY <1>1, <1>2, <1>3 DEF WindowNext

(* The indices of the buffer stay in their ranges. *)
THEOREM WindowTyped == WindowSpec => []WindowTypeOK
<1>1. WindowIInv => WindowTypeOK
  BY DEF WindowIInv
<1> QED
  BY <1>1, InitWindow, StepWindow, PTL DEF WindowSpec

(* What the iterators read with unwrap_unchecked is always there. *)
THEOREM WindowIsFilled == WindowSpec => []WindowFilled
<1>1. WindowIInv => WindowFilled
  BY DEF WindowIInv
<1> QED
  BY <1>1, InitWindow, StepWindow, PTL DEF WindowSpec

-----------------------------------------------------------------------------
(* What is read in order is a sequence of as many items as there are. *)
IterFacts ==
    /\ WindowIter \in Seq(Items)
    /\ Len(WindowIter) = size
    /\ \A i \in 1 .. size : WindowIter[i] = buffer[SlotOf(i - 1)]

LEMMA IterType == WindowIInv => IterFacts
<1> SUFFICES ASSUME WindowIInv PROVE IterFacts
  OBVIOUS
<1>1. size \in Nat /\ size <= Capacity /\ Capacity \in Nat \ {0} /\ head \in Slots
  BY WindowAssumption DEF WindowIInv, WindowTypeOK
<1>2. ASSUME NEW i \in 1 .. size PROVE buffer[SlotOf(i - 1)] \in Items
  <2>1. i - 1 \in 0 .. size - 1 /\ i - 1 \in 0 .. Capacity
    BY <1>1
  <2>2. SlotOf(i - 1) \in Slots
    BY <1>1, <2>1, SlotIs DEF SlotOf
  <2> QED
    BY <2>1, <2>2 DEF WindowIInv, WindowTypeOK, WindowFilled
<1>3. WindowIter \in [1 .. size -> Items]
  BY <1>2 DEF WindowIter
<1> QED
  BY <1>1, <1>3 DEF WindowIter, IterFacts

(* A push is a push on the log. *)
LEMMA PushLog ==
    ASSUME WindowIInv, NEW x \in Items, WindowPush(x)
    PROVE  Log!LogPush(x)
<1>1. WindowTypeOK /\ WindowIInv'
  BY PushType, PushFilled DEF WindowIInv
<1>2. /\ WindowIter \in Seq(Items) /\ Len(WindowIter) = size
      /\ \A i \in 1 .. size : WindowIter[i] = buffer[SlotOf(i - 1)]
  BY IterType DEF IterFacts
<1>3. /\ WindowIter' \in Seq(Items) /\ Len(WindowIter') = size'
      /\ \A i \in 1 .. size' : WindowIter'[i] = buffer'[SlotOf(i - 1)']
  <2>1. IterFacts'
    BY <1>1, IterType, PTL
  <2> QED
    BY <2>1 DEF IterFacts
<1>4. \A s \in Slots : buffer'[s] = IF s = SlotOf(size) THEN x ELSE buffer[s]
  BY <1>1 DEF WindowPush, WindowTypeOK
<1>5. size \in 0 .. Capacity /\ Capacity \in Nat \ {0} /\ head \in Slots
  BY <1>1, WindowAssumption DEF WindowTypeOK
<1>6. CASE size < Capacity
  <2>1. size' = size + 1 /\ head' = head
    BY <1>6 DEF WindowPush
  <2>2. ASSUME NEW i \in 1 .. size + 1
        PROVE  WindowIter'[i] = Append(WindowIter, x)[i]
    <3>1. i - 1 \in 0 .. Capacity - 1 /\ size \in 0 .. Capacity - 1 /\ i - 1 \in 0 .. Capacity
      BY <1>5, <1>6
    <3>2. SlotOf(i - 1) \in Slots /\ (i # size + 1 => SlotOf(i - 1) # SlotOf(size))
      BY <1>5, <3>1, SlotIs, SlotsApart DEF SlotOf
    <3>3. WindowIter'[i] = IF i = size + 1 THEN x ELSE buffer[SlotOf(i - 1)]
      BY <1>3, <1>4, <1>5, <2>1, <3>2 DEF SlotOf
    <3> QED
      BY <1>2, <1>5, <3>3
  <2>3. WindowIter' = Append(WindowIter, x)
    BY <1>2, <1>3, <1>5, <2>1, <2>2
  <2> QED
    BY <1>2, <1>6, <2>3 DEF Log!LogPush, Log!Keep
<1>7. CASE ~(size < Capacity)
  <2>1. size = Capacity /\ size' = size /\ head' = (head + 1) % Capacity
    BY <1>5, <1>7 DEF WindowPush
  <2>2. Tail(WindowIter) \in Seq(Items) /\ Len(Tail(WindowIter)) = size - 1
        /\ \A i \in 1 .. size - 1 : Tail(WindowIter)[i] = WindowIter[i + 1]
    BY <1>2, <1>5, <2>1
  <2>3. ASSUME NEW i \in 1 .. size
        PROVE  WindowIter'[i] = Append(Tail(WindowIter), x)[i]
    <3>1. i - 1 \in 0 .. Capacity - 1 /\ i \in 0 .. Capacity /\ i - 1 \in 0 .. Capacity
          /\ 1 \in 0 .. Capacity /\ size \in 0 .. Capacity
      BY <1>5, <2>1
    <3>2. SlotOf(i - 1)' = (head + i) % Capacity /\ (head + i) % Capacity \in Slots
      <4>1. head' = IF head + 1 < Capacity THEN head + 1 ELSE head + 1 - Capacity
        BY <1>5, <2>1, <3>1, SlotIs
      <4>2. head' \in Slots
        BY <1>1 DEF WindowIInv, WindowTypeOK
      <4>3. (head' + (i - 1)) % Capacity
            = IF head' + (i - 1) < Capacity THEN head' + (i - 1) ELSE head' + (i - 1) - Capacity
        BY <3>1, <4>2, SlotIs
      <4>4. (head + i) % Capacity = IF head + i < Capacity THEN head + i ELSE head + i - Capacity
        BY <1>5, <3>1, SlotIs
      <4>5. (head' + (i - 1)) % Capacity = (head + i) % Capacity
        BY <1>5, <3>1, <4>1, <4>3, <4>4 DEF Slots
      <4>6. (head + i) % Capacity \in Slots
        BY <1>5, <3>1, SlotIs
      <4> QED
        BY <4>5, <4>6 DEF SlotOf
    <3>3. SlotOf(size) = (head + 0) % Capacity /\ (i = size => (head + i) % Capacity = SlotOf(size))
      <4>1. (head + size) % Capacity
            = IF head + size < Capacity THEN head + size ELSE head + size - Capacity
        BY <1>5, <3>1, SlotIs
      <4>2. 0 \in 0 .. Capacity
        BY <1>5
      <4>3. (head + 0) % Capacity = IF head + 0 < Capacity THEN head + 0 ELSE head + 0 - Capacity
        BY <1>5, <4>2, SlotIs
      <4>4. (head + size) % Capacity = (head + 0) % Capacity
        BY <1>5, <2>1, <4>1, <4>3 DEF Slots
      <4> QED
        BY <4>4 DEF SlotOf
    <3>4. i # size => (head + i) % Capacity # SlotOf(size)
      <4>1. i # size => i \in 0 .. Capacity - 1 /\ 0 \in 0 .. Capacity - 1 /\ i # 0
        BY <1>5, <2>1
      <4> QED
        BY <1>5, <3>3, <4>1, SlotsApart
    <3>5. WindowIter'[i] = IF i = size THEN x ELSE buffer[(head + i) % Capacity]
      BY <1>3, <1>4, <2>1, <3>2, <3>3, <3>4
    <3>6. i # size => i + 1 \in 1 .. size /\ i \in 1 .. size - 1 /\ (i + 1) - 1 = i
      BY <1>5, <2>1
    <3>7. i # size => WindowIter[i + 1] = buffer[(head + i) % Capacity]
      BY <1>2, <3>6 DEF SlotOf
    <3>8. i # size => Append(Tail(WindowIter), x)[i] = WindowIter[i + 1]
      BY <2>2, <3>6
    <3>9. i = size => Append(Tail(WindowIter), x)[i] = x
      BY <1>5, <2>1, <2>2
    <3> QED
      BY <3>5, <3>7, <3>8, <3>9
  <2>4. WindowIter' = Append(Tail(WindowIter), x)
    BY <1>3, <1>5, <2>1, <2>2, <2>3
  <2> QED
    BY <1>2, <1>5, <1>7, <2>4 DEF Log!LogPush, Log!Keep
<1> QED
  BY <1>6, <1>7

(* A pop is a pop from the log. *)
LEMMA PopLog ==
    ASSUME WindowIInv, WindowPop
    PROVE  Log!LogPop
<1>1. WindowIInv' /\ WindowTypeOK
  BY PopWindow DEF WindowIInv
<1>2. /\ WindowIter \in Seq(Items) /\ Len(WindowIter) = size
      /\ \A i \in 1 .. size : WindowIter[i] = buffer[SlotOf(i - 1)]
  BY IterType DEF IterFacts
<1>3. /\ WindowIter' \in Seq(Items) /\ Len(WindowIter') = size'
      /\ \A i \in 1 .. size' : WindowIter'[i] = buffer'[SlotOf(i - 1)']
  <2>1. IterFacts'
    BY <1>1, IterType, PTL
  <2> QED
    BY <2>1 DEF IterFacts
<1>4. size \in Nat \ {0} /\ size <= Capacity /\ Capacity \in Nat \ {0} /\ head \in Slots
      /\ size' = size - 1 /\ head' = head
  BY <1>1, WindowAssumption DEF WindowTypeOK, WindowPop
<1>5. ASSUME NEW i \in 1 .. size - 1 PROVE WindowIter'[i] = WindowIter[i]
  <2>1. i - 1 \in 0 .. Capacity - 1 /\ size - 1 \in 0 .. Capacity - 1 /\ i - 1 # size - 1
        /\ i - 1 \in 0 .. Capacity
    BY <1>4
  <2>2. SlotOf(i - 1) \in Slots /\ SlotOf(i - 1) # SlotOf(size - 1)
    BY <1>4, <2>1, SlotIs, SlotsApart DEF SlotOf
  <2>3. buffer'[SlotOf(i - 1)] = buffer[SlotOf(i - 1)]
    BY <1>1, <2>2 DEF WindowPop, WindowTypeOK
  <2> QED
    BY <1>2, <1>3, <1>4, <2>3 DEF SlotOf
<1>6. WindowIter' = SubSeq(WindowIter, 1, size - 1)
  BY <1>2, <1>3, <1>4, <1>5
<1> QED
  BY <1>2, <1>4, <1>6 DEF Log!LogPop

(* The ring buffer, whatever is pushed and popped, is the log of the last
   Capacity items: each of its steps is a step of the log.                 *)
THEOREM WindowImplementsLog == WindowSpec => WindowIsLog
<1>1. WindowInit => Log!LogInit
  BY DEF WindowInit, Log!LogInit, WindowIter
<1>2. WindowIInv /\ [WindowNext]_windowVars => [Log!LogNext]_WindowIter
  <2> SUFFICES ASSUME WindowIInv, [WindowNext]_windowVars
               PROVE  [Log!LogNext]_WindowIter
    OBVIOUS
  <2>1. ASSUME NEW x \in Items, WindowPush(x) PROVE Log!LogNext
    BY <2>1, PushLog DEF Log!LogNext
  <2>2. CASE WindowPop
    BY <2>2, PopLog DEF Log!LogNext
  <2>3. CASE UNCHANGED windowVars
    BY <2>3 DEF windowVars, WindowIter, SlotOf
  <2> QED
    BY <2>1, <2>2, <2>3 DEF WindowNext
<1> QED
  BY <1>1, <1>2, InitWindow, StepWindow, PTL DEF WindowSpec, WindowIsLog, Log!LogSpec

-----------------------------------------------------------------------------
(* The code adds the capacity so that no difference is negative. *)
LEMMA ModPlus ==
    ASSUME NEW n \in Nat, NEW c \in Nat \ {0}, n < 2 * c
    PROVE  (n + c) % c = n % c
<1>1. CASE n < c
  <2>1. n + c \in Nat /\ n + c < 2 * c
    BY <1>1
  <2>2. (n + c) % c = (n + c) - c /\ n % c = n
    BY <1>1, <2>1, ModOnce
  <2> QED
    BY <2>2
<1>2. CASE ~(n < c)
  <2>1. n % c = n - c
    BY <1>2, ModOnce
  <2>2. (n + c) % c = (n + c) - 2 * c
    BY <1>2, SMT
  <2> QED
    BY <2>1, <2>2
<1> QED
  BY <1>1, <1>2

(* The item number i from the newest is number size - 1 - i from the oldest. *)
LEMMA BackwardSlot ==
    ASSUME WindowTypeOK, NEW i \in 0 .. size - 1
    PROVE  (head + size - 1 - i + Capacity) % Capacity = SlotOf(size - 1 - i)
<1>1. Capacity \in Nat \ {0} /\ head \in 0 .. Capacity - 1 /\ size \in 0 .. Capacity
  BY WindowAssumption DEF WindowTypeOK, Slots
<1>2. PICK n \in Nat : n = head + (size - 1 - i) /\ n < 2 * Capacity
  BY <1>1
<1>3. (n + Capacity) % Capacity = n % Capacity
  BY <1>1, <1>2, ModPlus
<1>4. head + size - 1 - i + Capacity = n + Capacity
  BY <1>1, <1>2
<1> QED
  BY <1>2, <1>3, <1>4 DEF SlotOf

(* get, get_rev, head, prev, tail and the iterators in both directions read
   the same items: Series, which reads backward, and the callers that read
   forward see one history.                                                *)
THEOREM ReadersOfWindowAgree == WindowSpec => []WindowReadsAgree
<1>1. WindowIInv => WindowReadsAgree
  <2> SUFFICES ASSUME WindowIInv PROVE WindowReadsAgree
    OBVIOUS
  <2>1. size \in 0 .. Capacity /\ Capacity \in Nat \ {0} /\ WindowTypeOK
    BY WindowAssumption DEF WindowIInv, WindowTypeOK
  <2>2. \A i \in 1 .. size : WindowIter[i] = buffer[SlotOf(i - 1)]
    BY DEF WindowIter
  <2>3. \A i \in 1 .. size : WindowIterRev[i] = buffer[SlotOf(size - i)]
    <3> TAKE i \in 1 .. size
    <3>1. i - 1 \in 0 .. size - 1 /\ size - 1 - (i - 1) = size - i
      BY <2>1
    <3>2. (head + size - 1 - (i - 1) + Capacity) % Capacity = SlotOf(size - i)
      BY <2>1, <3>1, BackwardSlot
    <3> QED
      BY <3>2 DEF WindowIterRev
  <2>4. \A i \in 0 .. Capacity : WindowGet(i) = IF i < size THEN WindowIter[i + 1] ELSE NoItem
    <3> TAKE i \in 0 .. Capacity
    <3>1. CASE i < size
      <4>1. i + 1 \in 1 .. size /\ (i + 1) - 1 = i /\ ~(i >= size)
        BY <2>1, <3>1
      <4> QED
        BY <2>2, <3>1, <4>1 DEF WindowGet
    <3>2. CASE ~(i < size)
      BY <2>1, <3>2 DEF WindowGet
    <3> QED
      BY <3>1, <3>2
  <2>5. \A i \in 0 .. Capacity :
            WindowGetRev(i) = IF i < size THEN WindowIterRev[i + 1] ELSE NoItem
    <3> TAKE i \in 0 .. Capacity
    <3>1. CASE i < size
      <4>1. i \in 0 .. size - 1 /\ i + 1 \in 1 .. size /\ size - (i + 1) = size - 1 - i /\ ~(i >= size)
        BY <2>1, <3>1
      <4>2. WindowGetRev(i) = buffer[SlotOf(size - 1 - i)]
        BY <2>1, <4>1, BackwardSlot DEF WindowGetRev
      <4>3. WindowIterRev[i + 1] = buffer[SlotOf(size - 1 - i)]
        BY <2>3, <4>1
      <4> QED
        BY <3>1, <4>2, <4>3
    <3>2. CASE ~(i < size)
      BY <2>1, <3>2 DEF WindowGetRev
    <3> QED
      BY <3>1, <3>2
  <2>6. \A i \in 1 .. size : WindowIterRev[i] = WindowIter[size + 1 - i]
    <3> TAKE i \in 1 .. size
    <3>1. size + 1 - i \in 1 .. size /\ (size + 1 - i) - 1 = size - i
      BY <2>1
    <3> QED
      BY <2>2, <2>3, <3>1
  <2>7. size > 0 => WindowHead = WindowIter[size] /\ WindowTail = WindowIter[1]
    <3> SUFFICES ASSUME size > 0
                 PROVE  WindowHead = WindowIter[size] /\ WindowTail = WindowIter[1]
      OBVIOUS
    <3>1. 1 \in 1 .. size /\ size \in 1 .. size /\ size # 0
      BY <2>1
    <3>2. SlotOf(0) = head
      BY <2>1, ModOnce DEF SlotOf, WindowTypeOK, Slots
    <3>3. WindowIter[1] = buffer[SlotOf(0)]
      BY <2>2, <3>1
    <3> QED
      BY <2>2, <3>1, <3>2, <3>3 DEF WindowHead, WindowTail
  <2>8. size > 1 => WindowPrev = WindowIter[size - 1]
    <3> SUFFICES ASSUME size > 1 PROVE WindowPrev = WindowIter[size - 1]
      OBVIOUS
    <3>1. size - 1 \in 1 .. size /\ (size - 1) - 1 = size - 2 /\ ~(size < 2)
      BY <2>1
    <3> QED
      BY <2>2, <3>1 DEF WindowPrev
  <2> QED
    BY <2>4, <2>5, <2>6, <2>7, <2>8 DEF WindowReadsAgree
<1> QED
  BY <1>1, InitWindow, StepWindow, PTL DEF WindowSpec

-----------------------------------------------------------------------------
(* A set of numbers has a least one. *)
LEMMA LeastNumber ==
    ASSUME NEW S, S \subseteq Nat, S # {}
    PROVE  \E m \in S : \A k \in S : m <= k
<1> DEFINE R == OpToRel(<, Nat)
<1>1. IsWellFoundedOn(R, Nat)
  BY NatLessThanWellFounded, Zenon
<1>2. \A x, y \in Nat : x < y => <<x, y>> \in R
  BY Zenon DEF OpToRel
<1> HIDE DEF R
<1>3. \A Q, U : IsWellFoundedOn(Q, U) => \A T : T \subseteq U /\ T # {} => \E x \in T : \A y \in T : ~ (<<y, x>> \in Q)
  BY WFMin, Zenon
<1>4. \E x \in S : \A y \in S : ~ (<<y, x>> \in R)
  BY <1>1, <1>3
<1>5. PICK m \in S : \A k \in S : ~ (<<k, m>> \in R)
  BY <1>4
<1>6. ASSUME NEW k \in S PROVE m <= k
  <2>1. ~ (k < m)
    BY <1>2, <1>5
  <2>2. QED BY <2>1
<1> QED
  BY <1>6

(* Induction over the numbers, as a fact about sets. *)
LEMMA SetInduction ==
    ASSUME NEW S, 0 \in S, \A n \in Nat : n \in S => n + 1 \in S
    PROVE  Nat \subseteq S
<1> SUFFICES ASSUME Nat \ S # {} PROVE FALSE
  OBVIOUS
<1>1. PICK m \in Nat \ S : \A k \in Nat \ S : m <= k
  BY LeastNumber
<1>2. m - 1 \in S
  BY <1>1
<1> QED
  BY <1>1, <1>2

-----------------------------------------------------------------------------
(* The order book.  A side of a full snapshot, as the book keeps it, the best
   level first.                                                            *)
SideOf(levels) == [i \in 1 .. BookSize |-> Level(levels[i])]

Levels == [price : Nat \ {0}, quantity : Nat]

BidSide(side) ==
    /\ side \in [1 .. BookSize -> Levels]
    /\ \A i, j \in 1 .. BookSize : i < j => side[i].price > side[j].price
AskSide(side) ==
    /\ side \in [1 .. BookSize -> Levels]
    /\ \A i, j \in 1 .. BookSize : i < j => side[i].price < side[j].price

(* The first of the largest of the first n levels. *)
IsLargest(side, n, i) ==
    \A j \in 1 .. n : side[j].quantity < side[i].quantity \/ (side[j].quantity = side[i].quantity /\ i <= j)

(* There is one. *)
LEMMA LargestIsThere ==
    ASSUME NEW side \in [1 .. BookSize -> Levels], NEW n \in 1 .. BookSize
    PROVE  \E i \in 1 .. n : IsLargest(side, n, i)
<1> DEFINE S == {m \in Nat : m + 1 \in 1 .. BookSize => \E i \in 1 .. m + 1 : IsLargest(side, m + 1, i)}
<1>1. BookSize \in Nat \ {0}
  BY BookAssumption
<1>2. 0 \in S
  <2>1. IsLargest(side, 1, 1)
    BY DEF IsLargest
  <2> QED
    BY <2>1
<1>3. ASSUME NEW m \in Nat, m \in S PROVE m + 1 \in S
  <2> SUFFICES ASSUME m + 2 \in 1 .. BookSize PROVE \E i \in 1 .. m + 2 : IsLargest(side, m + 2, i)
    BY SMT
  <2>1. m + 1 \in 1 .. BookSize
    BY <1>1
  <2>2. PICK i \in 1 .. m + 1 : IsLargest(side, m + 1, i)
    BY <1>3, <2>1
  <2>3. side[i].quantity \in Nat /\ side[m + 2].quantity \in Nat /\ \A j \in 1 .. m + 1 : side[j].quantity \in Nat
    BY <1>1, <2>1 DEF Levels
  <2>4. 1 .. m + 2 = (1 .. m + 1) \cup {m + 2}
    OBVIOUS
  <2>5. CASE side[m + 2].quantity <= side[i].quantity
    <3>1. IsLargest(side, m + 2, i)
      BY <2>2, <2>3, <2>4, <2>5 DEF IsLargest
    <3>2. i \in 1 .. m + 2
      BY <2>4
    <3> QED
      BY <3>1, <3>2
  <2>6. CASE ~(side[m + 2].quantity <= side[i].quantity)
    <3>1. side[i].quantity < side[m + 2].quantity
      BY <2>3, <2>6
    <3>2. \A j \in 1 .. m + 1 : side[j].quantity < side[m + 2].quantity
      BY <2>2, <2>3, <3>1 DEF IsLargest
    <3>3. IsLargest(side, m + 2, m + 2)
      BY <2>4, <3>2 DEF IsLargest
    <3>4. m + 2 \in 1 .. m + 2
      BY SMT
    <3> QED
      BY <3>3, <3>4
  <2> QED
    BY <2>5, <2>6
<1> HIDE DEF S
<1>4. n - 1 \in S /\ n = n - 1 + 1
  <2>1. Nat \subseteq S
    BY <1>2, <1>3, SetInduction
  <2> QED
    BY <2>1, <1>1
<1>5. PICK m \in Nat : m \in S /\ n = m + 1
  BY <1>1, <1>4
<1>6. \E i \in 1 .. m + 1 : IsLargest(side, m + 1, i)
  BY <1>5 DEF S
<1> QED
  BY <1>5, <1>6

(* So the largest level of a side is one of its levels. *)
LEMMA LargestIsALevel ==
    ASSUME NEW side \in [1 .. BookSize -> Levels]
    PROVE  MaxQuantity(side, BookSize + 1) \in 1 .. BookSize
<1>1. BookSize \in Nat \ {0} /\ BookSize \in 1 .. BookSize
  BY BookAssumption
<1>2. Before(BookSize + 1) = 1 .. BookSize
  BY <1>1 DEF Before
<1>3. \E i \in 1 .. BookSize : IsLargest(side, BookSize, i)
  BY <1>1, LargestIsThere
<1> QED
  BY <1>2, <1>3 DEF MaxQuantity, IsLargest

LEMMA WallsAreLevels ==
    ASSUME NEW side \in [1 .. BookSize -> Levels], NEW percent
    PROVE  Walls(side, percent) \subseteq 1 .. BookSize
BY LargestIsALevel DEF Walls, Peaks

(* A bid that is suggested at a level, and an ask. *)
LEMMA BidBelowBest ==
    ASSUME NEW b, BidSide(b.bids), NEW p \in 1 .. BookSize
    PROVE  PriceOf(BookTrade(b.bids[p], FrontrunBid(b, p))) <= b.bids[1].price
<1>1. /\ BookSize \in Nat \ {0} /\ 1 \in 1 .. BookSize
      /\ \A i \in 1 .. BookSize : b.bids[i].price \in Nat \ {0}
  BY BookAssumption DEF BidSide, Levels
<1>2. b.bids[p].price <= b.bids[1].price
  BY <1>1 DEF BidSide
<1>3. p > 1 => p - 1 \in 1 .. BookSize /\ b.bids[p - 1].price <= b.bids[1].price
  <2> SUFFICES ASSUME p > 1 PROVE p - 1 \in 1 .. BookSize /\ b.bids[p - 1].price <= b.bids[1].price
    OBVIOUS
  <2>1. p - 1 \in 1 .. BookSize
    BY <1>1
  <2> QED
    BY <1>1, <2>1 DEF BidSide
<1>4. FrontrunBid(b, p) = NoPrice \/ FrontrunBid(b, p) <= b.bids[1].price
  BY <1>1, <1>3 DEF FrontrunBid
<1> QED
  BY <1>2, <1>4 DEF PriceOf, BookTrade

LEMMA AskAboveBest ==
    ASSUME NEW b, AskSide(b.asks), NEW p \in 1 .. BookSize
    PROVE  PriceOf(BookTrade(b.asks[p], UndercutAsk(b, p))) >= b.asks[1].price
<1>1. /\ BookSize \in Nat \ {0} /\ 1 \in 1 .. BookSize
      /\ \A i \in 1 .. BookSize : b.asks[i].price \in Nat \ {0}
  BY BookAssumption DEF AskSide, Levels
<1>2. b.asks[p].price >= b.asks[1].price
  BY <1>1 DEF AskSide
<1>3. p > 1 => p - 1 \in 1 .. BookSize /\ b.asks[p - 1].price >= b.asks[1].price
  <2> SUFFICES ASSUME p > 1 PROVE p - 1 \in 1 .. BookSize /\ b.asks[p - 1].price >= b.asks[1].price
    OBVIOUS
  <2>1. p - 1 \in 1 .. BookSize
    BY <1>1
  <2> QED
    BY <1>1, <2>1 DEF AskSide
<1>4. UndercutAsk(b, p) = NoPrice \/ UndercutAsk(b, p) >= b.asks[1].price
  BY <1>1, <1>3 DEF UndercutAsk
<1> QED
  BY <1>2, <1>4 DEF PriceOf, BookTrade

(* What is put behind a level is behind the best. *)
LEMMA BehindBest ==
    ASSUME NEW b, BidSide(b.bids), AskSide(b.asks), NEW p \in 1 .. BookSize
    PROVE  /\ UndercutBid(b, p) < b.bids[1].price
           /\ FrontrunAsk(b, p) = NoPrice \/ FrontrunAsk(b, p) > b.asks[1].price
<1>1. /\ BookSize \in Nat \ {0} /\ 1 \in 1 .. BookSize
      /\ \A i \in 1 .. BookSize : b.bids[i].price \in Nat \ {0} /\ b.asks[i].price \in Nat \ {0}
  BY BookAssumption DEF BidSide, AskSide, Levels
<1>2. p > 1 => b.bids[p].price < b.bids[1].price /\ b.asks[p].price > b.asks[1].price
  BY <1>1 DEF BidSide, AskSide
<1> QED
  BY <1>1, <1>2 DEF UndercutBid, FrontrunAsk, NoPrice

-----------------------------------------------------------------------------
(* A book that shows this snapshot, and its summary is about it. *)
Shows(b, id, shown) ==
    /\ b.id = id
    /\ b.bids = SideOf(shown.bids) /\ b.asks = SideOf(shown.asks)
    /\ b.bid.best = b.bids[1] /\ b.ask.best = b.asks[1]
    /\ b.bid.largest = MaxQuantity(b.bids, BookSize + 1)
    /\ b.ask.smallest = MinQuantity(b.asks, BookSize + 1)

BookIInv ==
    /\ snapshots \in Seq(Books)
    /\ asked \in 0 .. Len(snapshots)
    /\ book.id \in 0 .. Len(snapshots)
    /\ asked <= book.id
    /\ \A id \in taken : id \in Nat /\ id <= book.id
    /\ book = NoBook => asked = 0 /\ taken = {}
    /\ Streaming => Shows(book, book.id, snapshots[book.id])

(* The sides of a snapshot are in order and apart. *)
LEMMA SidesInOrder ==
    ASSUME NEW shown \in Books
    PROVE  /\ BidSide(SideOf(shown.bids)) /\ AskSide(SideOf(shown.asks))
           /\ SideOf(shown.bids)[1].price < SideOf(shown.asks)[1].price
<1>1. /\ BookSize \in Nat \ {0} /\ 1 \in 1 .. BookSize
      /\ shown.bids \in [1 .. BookSize -> (Nat \ {0}) \X Nat]
      /\ shown.asks \in [1 .. BookSize -> (Nat \ {0}) \X Nat]
      /\ \A i, j \in 1 .. BookSize :
            i < j => shown.bids[i][1] > shown.bids[j][1] /\ shown.asks[i][1] < shown.asks[j][1]
      /\ shown.bids[1][1] < shown.asks[1][1]
  BY BookAssumption
<1>2. \A i \in 1 .. BookSize : /\ SideOf(shown.bids)[i] \in Levels /\ SideOf(shown.asks)[i] \in Levels
                             /\ SideOf(shown.bids)[i].price = shown.bids[i][1]
                             /\ SideOf(shown.asks)[i].price = shown.asks[i][1]
  BY <1>1 DEF SideOf, Level, Levels
<1>3. SideOf(shown.bids) \in [1 .. BookSize -> Levels] /\ SideOf(shown.asks) \in [1 .. BookSize -> Levels]
  BY <1>2 DEF SideOf
<1> QED
  BY <1>1, <1>2, <1>3 DEF BidSide, AskSide

(* An update with a full snapshot that is newer shows the snapshot. *)
LEMMA UpdateShows ==
    ASSUME NEW b, NEW id, NEW shown \in Books, ~(b.id >= id)
    PROVE  Shows(Update(b, id, shown.bids, shown.asks), id, shown)
<1>1. /\ BookSize \in Nat \ {0} /\ 1 \in 1 .. BookSize
      /\ shown.bids \in [1 .. BookSize -> (Nat \ {0}) \X Nat]
      /\ shown.asks \in [1 .. BookSize -> (Nat \ {0}) \X Nat]
  BY BookAssumption
<1>2. Len(shown.bids) = BookSize /\ Len(shown.asks) = BookSize
  BY <1>1
<1>3. Overlay(b.bids, shown.bids) = SideOf(shown.bids) /\ Overlay(b.asks, shown.asks) = SideOf(shown.asks)
  BY <1>2 DEF Overlay, SideOf
<1>4. /\ LargestOf(shown.bids) = MaxQuantity(SideOf(shown.bids), BookSize + 1)
      /\ SmallestOf(shown.asks) = MinQuantity(SideOf(shown.asks), BookSize + 1)
  BY <1>1, <1>2 DEF LargestOf, SmallestOf, SideOf
<1>5. Update(b, id, shown.bids, shown.asks) =
        [id |-> id, bids |-> SideOf(shown.bids), asks |-> SideOf(shown.asks),
         bid |-> SideSummary(SideOf(shown.bids), shown.bids),
         ask |-> SideSummary(SideOf(shown.asks), shown.asks)]
  BY <1>3 DEF Update
<1> QED
  BY <1>4, <1>5 DEF Shows, SideSummary

LEMMA InitBook == BookInit => BookIInv
BY DEF BookInit, BookIInv, NoBook, Streaming

LEMMA NextBookInv ==
    ASSUME BookIInv, [BookNext]_bookVars
    PROVE  BookIInv'
<1>1. /\ snapshots \in Seq(Books) /\ Len(snapshots) \in Nat /\ DOMAIN snapshots = 1 .. Len(snapshots)
      /\ asked \in 0 .. Len(snapshots) /\ book.id \in 0 .. Len(snapshots) /\ asked <= book.id
  BY DEF BookIInv
<1>2. ASSUME NEW shown \in Books, SendSnapshot(shown) PROVE BookIInv'
  <2>1. /\ snapshots' \in Seq(Books) /\ Len(snapshots') = Len(snapshots) + 1
        /\ \A i \in 1 .. Len(snapshots) : snapshots'[i] = snapshots[i]
        /\ UNCHANGED <<book, asked, taken>>
    BY <1>1, <1>2 DEF SendSnapshot
  <2>2. Streaming' => Streaming /\ snapshots'[book.id] = snapshots[book.id]
    BY <1>1, <2>1 DEF Streaming
  <2>3. Streaming' => Shows(book, book.id, snapshots[book.id])
    BY <2>2 DEF BookIInv
  <2>4. Streaming' => Shows(book, book.id, snapshots[book.id])'
    BY <2>1, <2>2, <2>3 DEF Shows
  <2>5. book'.id \in 0 .. Len(snapshots') /\ asked' \in 0 .. Len(snapshots') /\ asked' <= book'.id
    BY <1>1, <2>1
  <2> QED
    BY <2>1, <2>4, <2>5 DEF BookIInv
<1>3. ASSUME NEW n \in 1 .. BookSize, NEW m \in 1 .. BookSize, AskForDepth(n, m) PROVE BookIInv'
  <2>1. Len(snapshots) \in Nat \ {0}
    BY <1>1, <1>3 DEF AskForDepth
  <2> DEFINE empty == [id |-> 0, bids |-> EmptySide, asks |-> EmptySide]
             bids == SubSeq(Last(snapshots).bids, 1, n)
             asks == SubSeq(Last(snapshots).asks, 1, m)
  <2>2. book' = Update(empty, Len(snapshots), bids, asks)
    BY <1>3 DEF AskForDepth, NewBook
  <2>3. Update(empty, Len(snapshots), bids, asks).id = Len(snapshots)
    BY <2>1 DEF Update
  <2>4. book'.id = Len(snapshots) /\ book' # NoBook
    BY <2>1, <2>2, <2>3 DEF NoBook
  <2>5. asked' = Len(snapshots) /\ taken' = {Len(snapshots)} /\ snapshots' = snapshots
    BY <1>3 DEF AskForDepth
  <2>6. ~Streaming'
    BY <2>1, <2>4, <2>5 DEF Streaming
  <2> QED
    BY <1>1, <2>1, <2>4, <2>5, <2>6 DEF BookIInv
<1>4. ASSUME NEW id \in DOMAIN snapshots, TakeSnapshot(id) PROVE BookIInv'
  <2>1. /\ id \in 1 .. Len(snapshots) /\ snapshots[id] \in Books
        /\ snapshots' = snapshots /\ asked' = asked /\ taken' = taken \cup {id} /\ book # NoBook
        /\ book' = Update(book, id, snapshots[id].bids, snapshots[id].asks)
    BY <1>1, <1>4 DEF TakeSnapshot
  <2>2. CASE book.id >= id
    <3>1. book' = book
      BY <2>1, <2>2 DEF Update
    <3>2. Streaming' => Shows(book, book.id, snapshots[book.id])'
      BY <2>1, <3>1 DEF BookIInv, Streaming, Shows
    <3> QED
      BY <1>1, <2>1, <2>2, <3>1, <3>2 DEF BookIInv
  <2>3. CASE ~(book.id >= id)
    <3>1. Shows(book', id, snapshots[id])
      BY <2>1, <2>3, UpdateShows
    <3>2. book'.id = id
      BY <3>1 DEF Shows
    <3>3. id > book.id
      BY <1>1, <2>1, <2>3
    <3>4. book' # NoBook
      BY <3>2, <2>1 DEF NoBook
    <3>5. Shows(book, book.id, snapshots[book.id])'
      BY <3>1, <3>2, <2>1
    <3>6. \A i \in taken' : i \in Nat /\ i <= book'.id
      BY <1>1, <2>1, <3>2, <3>3 DEF BookIInv
    <3> QED
      BY <1>1, <2>1, <3>2, <3>3, <3>4, <3>5, <3>6 DEF BookIInv
  <2> QED
    BY <2>2, <2>3
<1>5. ASSUME UNCHANGED bookVars PROVE BookIInv'
  <2>1. UNCHANGED <<book, snapshots, asked, taken>>
    BY <1>5 DEF bookVars
  <2> QED
    BY <2>1 DEF BookIInv, Streaming, Shows
<1> QED
  BY <1>2, <1>3, <1>4, <1>5 DEF BookNext

LEMMA NewestFromInv == BookIInv => BookIsNewest
<1> SUFFICES ASSUME BookIInv PROVE BookIsNewest
  OBVIOUS
<1>1. ASSUME Streaming
      PROVE  /\ book.bids = Overlay(EmptySide, snapshots[book.id].bids)
             /\ book.asks = Overlay(EmptySide, snapshots[book.id].asks)
             /\ book.bid.largest = MaxQuantity(book.bids, BookSize + 1)
             /\ book.ask.smallest = MinQuantity(book.asks, BookSize + 1)
  <2>1. Shows(book, book.id, snapshots[book.id])
    BY <1>1 DEF BookIInv
  <2>2. snapshots[book.id] \in Books
    BY <1>1 DEF BookIInv, Streaming
  <2>3. /\ snapshots[book.id].bids \in [1 .. BookSize -> (Nat \ {0}) \X Nat]
        /\ snapshots[book.id].asks \in [1 .. BookSize -> (Nat \ {0}) \X Nat]
        /\ BookSize \in Nat
    BY <2>2, BookAssumption
  <2>4. Len(snapshots[book.id].bids) = BookSize /\ Len(snapshots[book.id].asks) = BookSize
    BY <2>3
  <2>5. /\ Overlay(EmptySide, snapshots[book.id].bids) = SideOf(snapshots[book.id].bids)
        /\ Overlay(EmptySide, snapshots[book.id].asks) = SideOf(snapshots[book.id].asks)
    BY <2>4 DEF Overlay, SideOf
  <2> QED
    BY <2>1, <2>5 DEF Shows
<1> QED
  BY <1>1 DEF BookIsNewest, BookIInv

LEMMA NoneCrosses == BookIInv => NeverCrosses
<1> SUFFICES ASSUME BookIInv, Streaming, NEW percent \in {50, 100}, NEW amount \in {1, 4, 20}
    PROVE
        /\ \A t \in EntrySuggestions(book, percent) \cup BestFitForBid(book, amount, 150) :
            PriceOf(t) <= book.bid.best.price
        /\ \A t \in ExitSuggestions(book, percent) \cup BestFitForAsk(book, amount, 150) :
            PriceOf(t) >= book.ask.best.price
        /\ \A s \in SuggestRoundtrip(book, amount, 150) : PriceOf(s.entry) < PriceOf(s.exit)
        /\ \A p \in 1 .. BookSize :
            /\ UndercutBid(book, p) < book.bid.best.price
            /\ FrontrunAsk(book, p) = NoPrice \/ FrontrunAsk(book, p) > book.ask.best.price
  BY DEF NeverCrosses
<1>1. snapshots[book.id] \in Books /\ Shows(book, book.id, snapshots[book.id])
  BY DEF BookIInv, Streaming
<1>2. /\ BidSide(book.bids) /\ AskSide(book.asks) /\ book.bids[1].price < book.asks[1].price
      /\ book.bid.best = book.bids[1] /\ book.ask.best = book.asks[1]
  BY <1>1, SidesInOrder DEF Shows
<1>3. book.bids \in [1 .. BookSize -> Levels] /\ book.asks \in [1 .. BookSize -> Levels]
  BY <1>2 DEF BidSide, AskSide
<1>4. \A t \in EntrySuggestions(book, percent) \cup BestFitForBid(book, amount, 150) :
        PriceOf(t) <= book.bids[1].price
  <2>1. \A t \in EntrySuggestions(book, percent) \cup BestFitForBid(book, amount, 150) :
            \E p \in 1 .. BookSize : t = BookTrade(book.bids[p], FrontrunBid(book, p))
    BY <1>3, WallsAreLevels DEF EntrySuggestions, BestFitForBid, FirstOf
  <2> QED
    BY <1>2, <2>1, BidBelowBest
<1>5. \A t \in ExitSuggestions(book, percent) \cup BestFitForAsk(book, amount, 150) :
        PriceOf(t) >= book.asks[1].price
  <2>1. \A t \in ExitSuggestions(book, percent) \cup BestFitForAsk(book, amount, 150) :
            \E p \in 1 .. BookSize : t = BookTrade(book.asks[p], UndercutAsk(book, p))
    BY <1>3, WallsAreLevels DEF ExitSuggestions, BestFitForAsk, FirstOf
  <2> QED
    BY <1>2, <2>1, AskAboveBest
<1>6. ASSUME NEW s \in SuggestRoundtrip(book, amount, 150) PROVE PriceOf(s.entry) < PriceOf(s.exit)
  <2> DEFINE wall == MaxQuantity(book.asks, BookSize + 1)
  <2>1. s.entry \in BestFitForBid(book, amount, 150) /\ s.exit = BookTrade(book.asks[wall], UndercutAsk(book, wall))
    BY DEF SuggestRoundtrip
  <2>2. wall \in 1 .. BookSize
    BY <1>3, LargestIsALevel
  <2> HIDE DEF wall
  <2>3. PriceOf(s.exit) >= book.asks[1].price
    BY <1>2, <2>1, <2>2, AskAboveBest
  <2>4. PriceOf(s.entry) <= book.bids[1].price
    BY <1>4, <2>1
  <2>5. ASSUME NEW p \in 1 .. BookSize
        PROVE  /\ PriceOf(BookTrade(book.bids[p], FrontrunBid(book, p))) \in Int
               /\ PriceOf(BookTrade(book.asks[p], UndercutAsk(book, p))) \in Int
    <3>1. book.bids[p] \in Levels /\ book.asks[p] \in Levels
      BY <1>3
    <3>2. book.bids[p].price \in Int /\ book.asks[p].price \in Int
      BY <3>1 DEF Levels
    <3>3. FrontrunBid(book, p) \in Int /\ UndercutAsk(book, p) \in Int
      BY <3>2 DEF FrontrunBid, UndercutAsk, NoPrice
    <3> QED
      BY <3>2, <3>3 DEF PriceOf, BookTrade
  <2>6. PriceOf(s.entry) \in Int /\ PriceOf(s.exit) \in Int
    BY <2>1, <2>2, <2>5 DEF BestFitForBid, FirstOf
  <2>7. book.bids[1].price \in Int /\ book.asks[1].price \in Int
    <3>1. 1 \in 1 .. BookSize
      BY BookAssumption
    <3>2. book.bids[1] \in Levels /\ book.asks[1] \in Levels
      BY <1>3, <3>1
    <3> QED
      BY <3>2 DEF Levels
  <2> QED
    BY <1>2, <2>3, <2>4, <2>6, <2>7
<1>7. \A p \in 1 .. BookSize :
        /\ UndercutBid(book, p) < book.bids[1].price
        /\ FrontrunAsk(book, p) = NoPrice \/ FrontrunAsk(book, p) > book.asks[1].price
  BY <1>2, BehindBest
<1> QED
  BY <1>2, <1>4, <1>5, <1>6, <1>7

(* Late snapshots do no harm: for books of any depth and any snapshots in any
   order the book shows the newest it was given.                           *)
THEOREM BookShowsNewest == BookSpec => []BookIsNewest
<1>1. BookIInv /\ [BookNext]_bookVars => BookIInv'
  BY NextBookInv
<1> QED
  BY <1>1, InitBook, NewestFromInv, PTL DEF BookSpec

(* Whatever the exchange shows, as long as its two sides are in order and
   apart, nothing that is suggested crosses the spread.                    *)
THEOREM SuggestionsRest == BookSpec => []NeverCrosses
<1>1. BookIInv /\ [BookNext]_bookVars => BookIInv'
  BY NextBookInv
<1> QED
  BY <1>1, InitBook, NoneCrosses, PTL DEF BookSpec

-----------------------------------------------------------------------------
(* The stored candles.  A fetcher that is between the begin and the end of a
   job is the only one that writes to the frame of the job.  Below, t, s and c
   stand for the table, the shared frames and the clock.                     *)
RowSets == UNION {[D -> [ticks : Int, final : BOOLEAN]] : D \in SUBSET Nat}
Jobs == [kind : {"known", "initial", "updates", "range"}, frame : FrameSet, start : Int, end : Int]
Fetchers == [pc : {"idle", "next", "request", "mark", "store", "done", "failed", "roll"},
             jobs : Seq(Jobs), start : Int, end : Int, batch : RowSets, full : BOOLEAN]
Fetching == FrameSet \cup {Loader}

InThePast(rows, c) == \A n \in DOMAIN rows : OpenOf(n) <= c

(* Rows without a gap, all whole but the newest. *)
Gapless(rows) == \A a, b \in DOMAIN rows : \A n \in Nat : a <= n /\ n <= b => n \in DOMAIN rows
WholeBelow(rows) == \A a, b \in DOMAIN rows : a < b => rows[a] = WholeRow
InOrder(rows) == Gapless(rows) /\ WholeBelow(rows)
IsNewest(rows, n) == n \in DOMAIN rows /\ \A m \in DOMAIN rows : m <= n
IsOldest(rows, n) == n \in DOMAIN rows /\ \A m \in DOMAIN rows : n <= m

(* A batch goes on where the rows end: with the newest of them, or after it
   when it is whole.                                                       *)
Continues(rows, n) ==
    \/ DOMAIN rows = {}
    \/ IsNewest(rows, n)
    \/ IsNewest(rows, n - 1) /\ \A m \in DOMAIN rows : rows[m] = WholeRow

Active(x) == x.pc \in {"request", "mark", "store"}
Target(x) == Head(x.jobs).frame

(* Where a fetcher is in its job, which writes to these rows. *)
AtItsJob(x, rows) ==
    /\ x.pc = "request" => \A n \in Nat : IsNewest(rows, n) => x.start = OpenOf(n)
    /\ x.pc \in {"mark", "store"} =>
        /\ InOrder(x.batch)
        /\ \A n \in Nat : IsNewest(x.batch, n) => x.start = OpenOf(n)
        /\ \A n \in Nat : IsOldest(x.batch, n) => Continues(rows, n)

(* What is so of the list of its jobs: a frame that is downloaded for the
   first time comes before it is updated, and is empty until then; and only
   frames with a gap are repaired.                                         *)
EmptyBefore(x, t, s) ==
    \A i \in DOMAIN x.jobs :
        x.jobs[i].kind = "initial" /\ x.jobs[i].frame \notin s /\ (i > 1 \/ x.pc = "next")
            => DOMAIN t[x.jobs[i].frame] = {}
JobsInOrder(x, t, s) ==
    /\ Active(x) => x.jobs # <<>> /\ Head(x.jobs).kind # "known"
    /\ \A i, j \in DOMAIN x.jobs :
        i < j /\ x.jobs[j].kind = "initial" => x.jobs[i].frame # x.jobs[j].frame
    /\ \A i \in DOMAIN x.jobs : x.jobs[i].kind = "range" => x.jobs[i].frame \in s
    /\ EmptyBefore(x, t, s)

AtWork(x, t, s, c) ==
    /\ InThePast(x.batch, c)
    /\ x.pc \in {"mark", "store"} => DOMAIN x.batch # {}
    /\ JobsInOrder(x, t, s)
    /\ Active(x) /\ Target(x) \notin s => AtItsJob(x, t[Target(x)])

Alone(x, y, s) == Downloads(x.jobs) \cap Downloads(y.jobs) \subseteq s

StoreTypes ==
    /\ clock \in Nat
    /\ table \in [FrameSet -> RowSets]
    /\ fetcher \in [Fetching -> Fetchers]
    /\ shared \subseteq FrameSet

StoreInv ==
    /\ StoreTypes
    /\ \A f \in FrameSet : InThePast(table[f], clock)
    /\ \A f \in FrameSet \ shared : InOrder(table[f])
    /\ \A p \in Fetching : AtWork(fetcher[p], table, shared, clock)
    /\ \A p, q \in Fetching : p # q => Alone(fetcher[p], fetcher[q], shared)
    /\ stage \in {"down", "rollback"} => \A p \in Fetching : fetcher[p].jobs = <<>>

-----------------------------------------------------------------------------
(* The largest and the smallest of a set of numbers. *)
LEMMA LargestOfSet ==
    ASSUME NEW D, D \subseteq Nat, D # {}, NEW bound \in Nat, \A n \in D : n <= bound
    PROVE  Max(D) \in D /\ \A n \in D : n <= Max(D)
<1> DEFINE above == {k \in Nat : \A n \in D : n <= k}
<1>1. PICK top \in above : \A k \in above : top <= k
  <2>1. bound \in above
    OBVIOUS
  <2>2. above \subseteq Nat
    OBVIOUS
  <2> HIDE DEF above
  <2> QED
    BY <2>1, <2>2, LeastNumber
<1>2. top \in D
  <2> SUFFICES ASSUME top \notin D PROVE FALSE
    OBVIOUS
  <2>1. \A n \in D : n < top
    BY <1>1
  <2>2. top - 1 \in Nat
    <3>1. PICK n \in D : n \in Nat /\ n < top
      BY <2>1
    <3> QED
      BY <3>1
  <2>3. top - 1 \in above
    BY <2>1, <2>2
  <2> QED
    BY <2>2, <2>3, <1>1
<1>3. top \in D /\ \A n \in D : top >= n
  BY <1>1, <1>2
<1> HIDE DEF above
<1> QED
  BY <1>3 DEF Max

LEMMA SmallestOfSet ==
    ASSUME NEW D, D \subseteq Nat, D # {}
    PROVE  Min(D) \in D /\ \A n \in D : Min(D) <= n
<1>1. \E m \in D : \A k \in D : m <= k
  BY LeastNumber
<1> QED
  BY <1>1 DEF Min

(* Candles open one after the other. *)
LEMMA OpensInOrder ==
    ASSUME NEW m \in Nat, NEW n \in Nat
    PROVE  /\ OpenOf(m) \in Nat /\ m <= OpenOf(m)
           /\ m < n => OpenOf(m) + CandleTicks <= OpenOf(n)
           /\ OpenOf(m) <= OpenOf(n) => m <= n
           /\ OpenOf(m + 1) = OpenOf(m) + CandleTicks
<1>1. PICK c \in Nat \ {0} : c = CandleTicks
  BY StoreAssumption
<1>2. m * c \in Nat /\ m <= m * c
  <2>1. PICK d \in Nat : c = d + 1
    BY <1>1
  <2>2. m * c = m * d + m /\ m * d \in Nat
    BY <2>1
  <2> QED
    BY <2>2
<1>3. ASSUME NEW i \in Nat, NEW j \in Nat, i < j PROVE i * c + c <= j * c
  <2>1. PICK k \in Nat : j = i + 1 + k
    <3>1. j - i - 1 \in Nat /\ j = i + 1 + (j - i - 1)
      BY <1>3
    <3> QED
      BY <3>1
  <2>2. j * c = i * c + c + k * c /\ k * c \in Nat /\ i * c \in Nat
    BY <2>1
  <2> QED
    BY <2>2
<1>4. ASSUME m * c <= n * c PROVE m <= n
  <2> SUFFICES ASSUME n < m PROVE FALSE
    OBVIOUS
  <2>1. n * c + c <= m * c
    BY <1>3
  <2>2. n * c \in Nat
    BY SMT
  <2> QED
    BY <1>2, <1>4, <2>1, <2>2
<1>5. (m + 1) * c = m * c + c
  BY SMT
<1> QED
  BY <1>1, <1>2, <1>3, <1>4, <1>5 DEF OpenOf

(* The newest and the oldest row, where there is one. *)
LEMMA RowsEnds ==
    ASSUME clock \in Nat, NEW rows \in RowSets, InThePast(rows, clock), DOMAIN rows # {}
    PROVE  IsNewest(rows, NewestRow(rows)) /\ IsOldest(rows, OldestRow(rows))
<1>1. DOMAIN rows \subseteq Nat
  BY DEF RowSets
<1>2. \A n \in DOMAIN rows : n <= clock
  <2> SUFFICES ASSUME NEW n \in DOMAIN rows PROVE n <= clock
    OBVIOUS
  <2>1. n <= OpenOf(n) /\ OpenOf(n) \in Nat /\ n \in Nat
    BY <1>1, OpensInOrder
  <2> QED
    BY <2>1 DEF InThePast
<1>3. Max(DOMAIN rows) \in DOMAIN rows /\ \A n \in DOMAIN rows : n <= Max(DOMAIN rows)
  BY <1>1, <1>2, LargestOfSet
<1>4. Min(DOMAIN rows) \in DOMAIN rows /\ \A n \in DOMAIN rows : Min(DOMAIN rows) <= n
  BY <1>1, SmallestOfSet
<1> QED
  BY <1>3, <1>4 DEF IsNewest, IsOldest, NewestRow, OldestRow

LEMMA OneNewest ==
    ASSUME NEW rows \in RowSets, NEW m, NEW n, IsNewest(rows, m), IsNewest(rows, n)
    PROVE  m = n
<1>1. DOMAIN rows \subseteq Nat
  BY DEF RowSets
<1> QED
  BY <1>1 DEF IsNewest

(* What the exchange answers has no gap, and all of it is whole but the last;
   if the last candle asked for is not in it, it is a chunk.                *)
LEMMA KlinesAre ==
    ASSUME clock \in Nat, NEW start \in Int, NEW end \in Int, NEW b, b = KlinesBetween(start, end)
    PROVE  /\ b \in RowSets /\ InThePast(b, clock) /\ Gapless(b) /\ WholeBelow(b)
           /\ \A n \in DOMAIN b : start <= OpenOf(n) /\ OpenOf(n) <= end
           /\ \A n \in Nat : start <= OpenOf(n) /\ OpenOf(n) <= end /\ OpenOf(n) <= clock =>
                /\ DOMAIN b # {}
                /\ \A m \in Nat : IsOldest(b, m) => m <= n
                /\ \A m \in Nat : IsNewest(b, m) /\ m < n => IsFull(b)
<1> DEFINE open == {n \in 0 .. clock : start <= OpenOf(n) /\ OpenOf(n) <= end /\ OpenOf(n) <= clock}
           D == {m \in open : m < Min(open) + ChunkSize}
<1>1. b = [n \in D |-> RowNow(n)]
  BY DEF KlinesBetween
<1>2. open \subseteq Nat /\ D \subseteq open /\ DOMAIN b = D
  BY <1>1
<1>3. \A n \in Nat : n \in open <=> start <= OpenOf(n) /\ OpenOf(n) <= end /\ OpenOf(n) <= clock
  BY OpensInOrder
<1>4. CandleTicks \in Nat \ {0} /\ ChunkSize \in Nat \ {0, 1}
  BY StoreAssumption
<1>5. open # {} => Min(open) \in open /\ \A n \in open : Min(open) <= n
  BY <1>2, SmallestOfSet
<1> HIDE DEF open
<1>6. b \in RowSets
  <2>1. ASSUME NEW n \in D PROVE RowNow(n) \in [ticks : Int, final : BOOLEAN]
    <3>1. OpenOf(n) \in Nat
      BY <1>2, OpensInOrder
    <3> QED
      BY <1>4, <3>1 DEF RowNow
  <2> HIDE DEF D
  <2>2. b \in [D -> [ticks : Int, final : BOOLEAN]]
    BY <1>1, <2>1
  <2>3. D \in SUBSET Nat
    BY <1>2
  <2> QED
    BY <2>2, <2>3 DEF RowSets
<1>7. InThePast(b, clock) /\ \A n \in DOMAIN b : start <= OpenOf(n) /\ OpenOf(n) <= end
  BY <1>2, <1>3 DEF InThePast
<1>8. Gapless(b)
  <2> SUFFICES ASSUME NEW i \in D, NEW j \in D, NEW n \in Nat, i <= n, n <= j PROVE n \in D
    BY <1>2 DEF Gapless
  <2>1. OpenOf(i) <= OpenOf(n) /\ OpenOf(n) <= OpenOf(j)
    <3>1. i \in Nat /\ j \in Nat
      BY <1>2
    <3>2. /\ i < n => OpenOf(i) + CandleTicks <= OpenOf(n)
          /\ n < j => OpenOf(n) + CandleTicks <= OpenOf(j)
          /\ OpenOf(i) \in Nat /\ OpenOf(j) \in Nat /\ OpenOf(n) \in Nat
      BY <3>1, OpensInOrder
    <3> QED
      BY <1>4, <3>1, <3>2
  <2>2. n \in open
    <3>1. OpenOf(i) \in Nat /\ OpenOf(j) \in Nat /\ OpenOf(n) \in Nat
      BY <1>2, OpensInOrder
    <3>2. start <= OpenOf(i) /\ OpenOf(j) <= end /\ OpenOf(j) <= clock
      BY <1>2, <1>3
    <3> QED
      BY <1>3, <2>1, <3>1, <3>2
  <2>3. j < Min(open) + ChunkSize /\ Min(open) \in Nat
    BY <1>2, <1>5
  <2> QED
    BY <1>2, <1>4, <2>2, <2>3
<1>9. WholeBelow(b)
  <2> SUFFICES ASSUME NEW i \in D, NEW j \in D, i < j PROVE RowNow(i) = WholeRow
    BY <1>1, <1>2 DEF WholeBelow
  <2>1. OpenOf(i) + CandleTicks <= OpenOf(j) /\ OpenOf(i) \in Nat /\ OpenOf(j) \in Nat
    BY <1>2, OpensInOrder
  <2>2. OpenOf(j) <= clock
    BY <1>2, <1>3
  <2>3. ~(clock - OpenOf(i) + 1 < CandleTicks)
    BY <1>4, <2>1, <2>2
  <2> QED
    BY <2>3 DEF RowNow, WholeRow
<1>10. ASSUME NEW n \in Nat, start <= OpenOf(n), OpenOf(n) <= end, OpenOf(n) <= clock
       PROVE  /\ DOMAIN b # {}
              /\ \A m \in Nat : IsOldest(b, m) => m <= n
              /\ \A m \in Nat : IsNewest(b, m) /\ m < n => IsFull(b)
  <2>1. n \in open
    BY <1>3, <1>10
  <2>2. Min(open) \in D /\ Min(open) \in Nat
    <3>1. Min(open) \in open /\ Min(open) \in Nat
      BY <1>2, <1>5, <2>1
    <3>2. Min(open) < Min(open) + ChunkSize
      BY <1>4, <3>1
    <3> QED
      BY <3>1, <3>2
  <2>3. \A k \in D : Min(open) <= k
    BY <1>2, <1>5, <2>1
  <2>4. ASSUME NEW m \in Nat, IsOldest(b, m) PROVE m <= n
    <3>1. m <= Min(open)
      BY <1>2, <2>2, <2>4 DEF IsOldest
    <3> QED
      BY <1>5, <2>1, <2>2, <3>1
  <2>5. ASSUME NEW m \in Nat, IsNewest(b, m), m < n PROVE IsFull(b)
    <3>1. n \notin D
      BY <1>2, <2>5 DEF IsNewest
    <3>2. n >= Min(open) + ChunkSize
      BY <1>4, <2>1, <2>2, <3>1
    <3>3. Min(open) + ChunkSize - 1 \in open
      <4>1. Min(open) + ChunkSize - 1 \in Nat /\ Min(open) + ChunkSize - 1 < n
            /\ Min(open) <= Min(open) + ChunkSize - 1
        BY <1>4, <2>2, <3>2
      <4> DEFINE k == Min(open) + ChunkSize - 1
      <4>2. k \in Nat /\ k < n /\ Min(open) <= k
        BY <4>1
      <4> HIDE DEF k
      <4>3. /\ OpenOf(k) + CandleTicks <= OpenOf(n) /\ OpenOf(k) \in Nat /\ OpenOf(n) \in Nat
            /\ Min(open) < k => OpenOf(Min(open)) + CandleTicks <= OpenOf(k)
            /\ OpenOf(Min(open)) \in Nat
        BY <2>2, <4>2, OpensInOrder
      <4>4. start <= OpenOf(Min(open))
        BY <1>3, <1>5, <2>1, <2>2
      <4>5. start <= OpenOf(k) /\ OpenOf(k) <= end /\ OpenOf(k) <= clock
        <5>1. OpenOf(Min(open)) <= OpenOf(k)
          BY <1>4, <2>2, <4>2, <4>3
        <5> QED
          BY <1>4, <1>10, <4>3, <4>4, <5>1
      <4>6. k \in open
        BY <1>3, <4>2, <4>5
      <4> QED
        BY <4>6 DEF k
    <3>4. Min(open) + ChunkSize - 1 \in D
      BY <1>4, <2>2, <3>3
    <3>5. OldestRow(b) = Min(open)
      <4>1. IsOldest(b, OldestRow(b))
        BY <1>2, <1>6, <1>7, <2>2, RowsEnds
      <4>2. OldestRow(b) \in D /\ OldestRow(b) <= Min(open)
        BY <1>2, <2>2, <4>1 DEF IsOldest
      <4>3. OldestRow(b) \in Nat /\ Min(open) <= OldestRow(b)
        BY <1>2, <2>3, <4>2
      <4> QED
        BY <2>2, <4>2, <4>3
    <3> QED
      BY <1>2, <3>4, <3>5 DEF IsFull
  <2> QED
    BY <2>2, <2>4, <2>5, <1>2
<1> QED
  BY <1>6, <1>7, <1>8, <1>9, <1>10

-----------------------------------------------------------------------------
(* The list of the jobs without the first. *)
LEMMA TailJobs ==
    ASSUME NEW J \in Seq(Jobs), J # <<>>
    PROVE  /\ Len(J) \in Nat \ {0} /\ DOMAIN J = 1 .. Len(J) /\ Head(J) = J[1] /\ J[1] \in Jobs
           /\ Tail(J) \in Seq(Jobs) /\ Len(Tail(J)) = Len(J) - 1 /\ DOMAIN Tail(J) = 1 .. Len(J) - 1
           /\ \A i \in DOMAIN Tail(J) : i \in Nat /\ i + 1 \in DOMAIN J /\ Tail(J)[i] = J[i + 1]
           /\ Downloads(Tail(J)) \subseteq Downloads(J)
<1>1. Len(J) \in Nat \ {0} /\ DOMAIN J = 1 .. Len(J) /\ Head(J) = J[1] /\ J[1] \in Jobs
  OBVIOUS
<1>2. /\ Tail(J) \in Seq(Jobs) /\ Len(Tail(J)) = Len(J) - 1 /\ DOMAIN Tail(J) = 1 .. Len(J) - 1
      /\ \A i \in DOMAIN Tail(J) : i \in Nat /\ i + 1 \in DOMAIN J /\ Tail(J)[i] = J[i + 1]
  BY <1>1
<1>3. Downloads(Tail(J)) \subseteq Downloads(J)
  BY <1>2 DEF Downloads
<1> QED
  BY <1>1, <1>2, <1>3

LEMMA FirstIsDownloaded ==
    ASSUME NEW x \in Fetchers, NEW t, NEW s, JobsInOrder(x, t, s), Active(x)
    PROVE  /\ x.jobs \in Seq(Jobs) /\ x.jobs # <<>> /\ Target(x) = x.jobs[1].frame
           /\ x.jobs[1] \in Jobs /\ Target(x) \in FrameSet /\ Target(x) \in Downloads(x.jobs)
<1>1. x.jobs \in Seq(Jobs) /\ x.jobs # <<>> /\ Head(x.jobs).kind # "known"
  BY DEF JobsInOrder, Fetchers
<1>2. Len(x.jobs) \in Nat \ {0} /\ DOMAIN x.jobs = 1 .. Len(x.jobs) /\ Head(x.jobs) = x.jobs[1] /\ x.jobs[1] \in Jobs
  BY <1>1, TailJobs
<1>3. 1 \in DOMAIN x.jobs /\ x.jobs[1].kind # "known" /\ Target(x) = x.jobs[1].frame
  BY <1>1, <1>2 DEF Target
<1>4. Target(x) \in FrameSet
  BY <1>2, <1>3 DEF Jobs
<1> QED
  BY <1>1, <1>2, <1>3, <1>4 DEF Downloads

(* Going on with the first job, and going on to the next one. *)
LEMMA SameJobs ==
    ASSUME NEW x \in Fetchers, NEW new \in Fetchers, NEW t, NEW u, NEW s, JobsInOrder(x, t, s),
           new.jobs = x.jobs, new.pc # "next", Active(new) => x.jobs # <<>> /\ Head(x.jobs).kind # "known",
           \A f \in FrameSet : u[f] = t[f] \/ (x.jobs # <<>> /\ f = x.jobs[1].frame)
    PROVE  JobsInOrder(new, u, s)
<1>1. x.jobs \in Seq(Jobs) /\ DOMAIN x.jobs = 1 .. Len(x.jobs) /\ Len(x.jobs) \in Nat
  BY DEF Fetchers
<1>2. ASSUME NEW i \in DOMAIN x.jobs, x.jobs[i].kind = "initial", x.jobs[i].frame \notin s, i > 1
      PROVE  DOMAIN u[x.jobs[i].frame] = {}
  <2>1. DOMAIN t[x.jobs[i].frame] = {}
    BY <1>2 DEF JobsInOrder, EmptyBefore
  <2>2. x.jobs[i].frame # x.jobs[1].frame
    BY <1>1, <1>2 DEF JobsInOrder
  <2>3. x.jobs[i].frame \in FrameSet
    <3>1. x.jobs[i] \in Jobs
      BY <1>1
    <3> QED
      BY <3>1 DEF Jobs
  <2> QED
    BY <2>1, <2>2, <2>3
<1>3. EmptyBefore(new, u, s)
  BY <1>1, <1>2 DEF EmptyBefore
<1> QED
  BY <1>3 DEF JobsInOrder

LEMMA NextJobs ==
    ASSUME NEW x \in Fetchers, NEW new \in Fetchers, NEW t, NEW u, NEW s, JobsInOrder(x, t, s),
           x.jobs # <<>>, new.jobs = Tail(x.jobs), ~Active(new),
           \A f \in FrameSet : u[f] = t[f] \/ f = x.jobs[1].frame
    PROVE  JobsInOrder(new, u, s)
<1> DEFINE J == x.jobs
<1>1. /\ J \in Seq(Jobs) /\ 1 \in DOMAIN J /\ DOMAIN J = 1 .. Len(J) /\ Len(J) \in Nat
      /\ \A i \in DOMAIN Tail(J) : i \in Nat \ {0} /\ i + 1 \in DOMAIN J /\ Tail(J)[i] = J[i + 1]
  <2>1. J \in Seq(Jobs)
    BY DEF Fetchers
  <2> QED
    BY <2>1, TailJobs
<1>2. ASSUME NEW i \in DOMAIN Tail(J), Tail(J)[i].kind = "initial", Tail(J)[i].frame \notin s
      PROVE  DOMAIN u[Tail(J)[i].frame] = {}
  <2>1. PICK j \in DOMAIN J : j = i + 1 /\ j > 1 /\ Tail(J)[i] = J[j]
    BY <1>1
  <2>2. DOMAIN t[J[j].frame] = {}
    BY <1>2, <2>1 DEF JobsInOrder, EmptyBefore
  <2>3. J[j].frame # J[1].frame
    BY <1>1, <1>2, <2>1 DEF JobsInOrder
  <2>4. J[j].frame \in FrameSet
    <3>1. J[j] \in Jobs
      BY <1>1
    <3> QED
      BY <3>1 DEF Jobs
  <2> QED
    BY <2>1, <2>2, <2>3, <2>4
<1>3. EmptyBefore(new, u, s)
  BY <1>2 DEF EmptyBefore
<1>4. ASSUME NEW i \in DOMAIN Tail(J), NEW j \in DOMAIN Tail(J), i < j, Tail(J)[j].kind = "initial"
      PROVE  Tail(J)[i].frame # Tail(J)[j].frame
  <2>1. i + 1 \in DOMAIN J /\ j + 1 \in DOMAIN J /\ i + 1 < j + 1 /\ Tail(J)[i] = J[i + 1] /\ Tail(J)[j] = J[j + 1]
    BY <1>1, <1>4
  <2> QED
    BY <1>4, <2>1 DEF JobsInOrder
<1>5. \A i \in DOMAIN Tail(J) : Tail(J)[i].kind = "range" => Tail(J)[i].frame \in s
  BY <1>1 DEF JobsInOrder
<1> HIDE DEF J
<1>6. new.jobs = Tail(J)
  BY DEF J
<1> QED
  BY <1>3, <1>4, <1>5, <1>6 DEF JobsInOrder

(* What another fetcher writes to no frame of this one's does not disturb it. *)
LEMMA OtherFetcher ==
    ASSUME NEW x \in Fetchers, NEW t, NEW u, NEW s, NEW c, AtWork(x, t, s, c),
           \A f \in Downloads(x.jobs) : f \in FrameSet /\ f \notin s => u[f] = t[f]
    PROVE  AtWork(x, u, s, c)
<1>1. x.jobs \in Seq(Jobs) /\ DOMAIN x.jobs = 1 .. Len(x.jobs) /\ JobsInOrder(x, t, s)
  BY DEF Fetchers, AtWork
<1>2. ASSUME NEW i \in DOMAIN x.jobs, x.jobs[i].kind = "initial", x.jobs[i].frame \notin s,
             i > 1 \/ x.pc = "next"
      PROVE  DOMAIN u[x.jobs[i].frame] = {}
  <2>1. DOMAIN t[x.jobs[i].frame] = {}
    BY <1>1, <1>2 DEF JobsInOrder, EmptyBefore
  <2>2. x.jobs[i].frame \in Downloads(x.jobs) /\ x.jobs[i].frame \in FrameSet
    <3>1. x.jobs[i] \in Jobs
      BY <1>1
    <3> QED
      BY <1>2, <3>1 DEF Downloads, Jobs
  <2> QED
    BY <1>2, <2>1, <2>2
<1>3. JobsInOrder(x, u, s)
  BY <1>1, <1>2 DEF JobsInOrder, EmptyBefore
<1>4. ASSUME Active(x), Target(x) \notin s PROVE AtItsJob(x, u[Target(x)])
  <2>1. Target(x) \in FrameSet /\ Target(x) \in Downloads(x.jobs)
    BY <1>1, <1>4, FirstIsDownloaded
  <2>2. u[Target(x)] = t[Target(x)]
    BY <1>4, <2>1
  <2> QED
    BY <1>4, <2>2 DEF AtWork
<1> QED
  BY <1>3, <1>4 DEF AtWork

(* A step of one fetcher, which writes to no other frame than its own, keeps
   the invariant if it keeps its own part of it.                           *)
LEMMA OneFetcher ==
    ASSUME StoreInv, NEW p \in Fetching, NEW new \in Fetchers, fetcher' = [fetcher EXCEPT ![p] = new],
           shared' = shared, clock' = clock, stage' = stage,
           table' \in [FrameSet -> RowSets], \A f \in FrameSet : InThePast(table'[f], clock),
           \A f \in FrameSet \ shared : table'[f] = table[f] \/ f \in Downloads(fetcher[p].jobs),
           \A f \in FrameSet \ shared : InOrder(table'[f]),
           fetcher[p].jobs = <<>> => new.jobs = <<>>,
           Downloads(new.jobs) \subseteq Downloads(fetcher[p].jobs),
           AtWork(new, table', shared, clock)
    PROVE  StoreInv'
<1>1. /\ fetcher \in [Fetching -> Fetchers] /\ fetcher' \in [Fetching -> Fetchers]
      /\ fetcher'[p] = new /\ \A q \in Fetching : q # p => fetcher'[q] = fetcher[q]
  BY DEF StoreInv, StoreTypes
<1>2. StoreTypes'
  BY <1>1 DEF StoreInv, StoreTypes
<1>3. ASSUME NEW q \in Fetching, q # p PROVE AtWork(fetcher'[q], table', shared', clock')
  <2>1. fetcher'[q] = fetcher[q] /\ fetcher[q] \in Fetchers /\ AtWork(fetcher[q], table, shared, clock)
    BY <1>1, <1>3 DEF StoreInv
  <2>2. \A f \in Downloads(fetcher[q].jobs) : f \in FrameSet /\ f \notin shared => table'[f] = table[f]
    BY <1>3 DEF StoreInv, Alone
  <2>3. AtWork(fetcher[q], table', shared, clock)
    BY <2>1, <2>2, OtherFetcher
  <2> QED
    BY <2>1, <2>3
<1>4. \A q \in Fetching : AtWork(fetcher'[q], table', shared', clock')
  BY <1>1, <1>3
<1>5. ASSUME NEW q \in Fetching, NEW r \in Fetching, q # r PROVE Alone(fetcher'[q], fetcher'[r], shared')
  <2>1. Downloads(fetcher'[q].jobs) \subseteq Downloads(fetcher[q].jobs)
        /\ Downloads(fetcher'[r].jobs) \subseteq Downloads(fetcher[r].jobs)
    BY <1>1
  <2>2. Alone(fetcher[q], fetcher[r], shared)
    BY <1>5 DEF StoreInv
  <2> QED
    BY <2>1, <2>2 DEF Alone
<1>6. stage' \in {"down", "rollback"} => \A q \in Fetching : fetcher'[q].jobs = <<>>
  BY <1>1 DEF StoreInv
<1>7. \A f \in FrameSet \ shared' : InOrder(table'[f])
  OBVIOUS
<1>8. \A f \in FrameSet : InThePast(table'[f], clock')
  OBVIOUS
<1> QED
  BY <1>2, <1>4, <1>5, <1>6, <1>7, <1>8 DEF StoreInv

LEMMA FetcherIs ==
    ASSUME StoreInv, NEW p \in Fetching
    PROVE  /\ fetcher[p] \in Fetchers /\ fetcher[p].jobs \in Seq(Jobs) /\ fetcher[p].batch \in RowSets
           /\ fetcher[p].start \in Int /\ fetcher[p].end \in Int
           /\ AtWork(fetcher[p], table, shared, clock) /\ JobsInOrder(fetcher[p], table, shared)
           /\ InThePast(fetcher[p].batch, clock)
           /\ clock \in Nat /\ \A f \in FrameSet : table[f] \in RowSets /\ InThePast(table[f], clock)
<1>1. /\ fetcher[p] \in Fetchers /\ AtWork(fetcher[p], table, shared, clock)
      /\ clock \in Nat /\ \A f \in FrameSet : table[f] \in RowSets /\ InThePast(table[f], clock)
  BY DEF StoreInv, StoreTypes
<1>2. JobsInOrder(fetcher[p], table, shared) /\ InThePast(fetcher[p].batch, clock)
  BY <1>1 DEF AtWork
<1>3. /\ fetcher[p].jobs \in Seq(Jobs) /\ fetcher[p].batch \in RowSets
      /\ fetcher[p].start \in Int /\ fetcher[p].end \in Int
  BY <1>1 DEF Fetchers
<1> QED
  BY <1>1, <1>2, <1>3

(* The same for a step that writes nothing. *)
LEMMA FetcherOnly ==
    ASSUME StoreInv, NEW p \in Fetching, NEW new \in Fetchers, SetFetcher(p, new),
           UNCHANGED <<clock, table, stage, shared>>,
           fetcher[p].jobs = <<>> => new.jobs = <<>>,
           Downloads(new.jobs) \subseteq Downloads(fetcher[p].jobs),
           AtWork(new, table, shared, clock)
    PROVE  StoreInv'
<1>1. fetcher' = [fetcher EXCEPT ![p] = new]
  BY DEF SetFetcher
<1>2. table' \in [FrameSet -> RowSets] /\ \A f \in FrameSet : InThePast(table'[f], clock)
  BY DEF StoreInv, StoreTypes
<1>3. \A f \in FrameSet \ shared : InOrder(table'[f])
  BY DEF StoreInv
<1>4. AtWork(new, table', shared, clock)
  OBVIOUS
<1> QED
  BY <1>1, <1>2, <1>3, <1>4, OneFetcher

LEMMA NoJobsDownload == Downloads(<<>>) = {}
  BY DEF Downloads

LEMMA IdleIs ==
    /\ IdleFetcher \in Fetchers /\ IdleFetcher.pc = "idle" /\ IdleFetcher.jobs = <<>>
    /\ NoRows \in RowSets /\ DOMAIN NoRows = {} /\ IdleFetcher.batch = NoRows
<1>1. NoRows \in [{} -> [ticks : Int, final : BOOLEAN]]
  BY DEF NoRows
<1>2. NoRows \in RowSets /\ DOMAIN NoRows = {}
  BY <1>1 DEF RowSets, NoRows
<1> QED
  BY <1>2 DEF IdleFetcher, Fetchers

(* A fetcher without jobs. *)
LEMMA JoblessIsAtWork ==
    ASSUME NEW x, x.jobs = <<>>, ~Active(x), NEW t, NEW s, NEW c, InThePast(x.batch, c)
    PROVE  AtWork(x, t, s, c)
  BY DEF AtWork, JobsInOrder, EmptyBefore, Active

LEMMA BeginJobStep ==
    ASSUME StoreInv, NEW p \in Fetching, BeginJob(p)
    PROVE  StoreInv'
<1> DEFINE x == fetcher[p]
           job == Head(x.jobs)
           asks == [x EXCEPT !.pc = "request"]
<1>1. /\ x \in Fetchers /\ x.jobs \in Seq(Jobs) /\ AtWork(x, table, shared, clock) /\ JobsInOrder(x, table, shared)
      /\ InThePast(x.batch, clock) /\ clock \in Nat
      /\ \A f \in FrameSet : table[f] \in RowSets /\ InThePast(table[f], clock)
  BY FetcherIs
<1>2. x.pc = "next" /\ x.jobs # <<>> /\ UNCHANGED <<clock, table, stage, shared>>
  BY DEF BeginJob
<1>3. /\ Len(x.jobs) \in Nat \ {0} /\ DOMAIN x.jobs = 1 .. Len(x.jobs) /\ job = x.jobs[1] /\ job \in Jobs
      /\ Tail(x.jobs) \in Seq(Jobs) /\ Downloads(Tail(x.jobs)) \subseteq Downloads(x.jobs)
  BY <1>1, <1>2, TailJobs
<1>4. job.frame \in FrameSet /\ job.start \in Int /\ job.end \in Int
  BY <1>3 DEF Jobs
<1>5. \/ job.kind = "known" /\ SetFetcher(p, [x EXCEPT !.jobs = Tail(@)])
      \/ job.kind = "initial" /\ SetFetcher(p, [asks EXCEPT !.start = clock - InitialCandles * CandleTicks, !.end = MaxClock])
      \/ job.kind = "updates" /\ DOMAIN table[job.frame] = {} /\ SetFetcher(p, [x EXCEPT !.pc = "failed", !.jobs = <<>>])
      \/ job.kind = "updates" /\ DOMAIN table[job.frame] # {} /\ SetFetcher(p,
            [asks EXCEPT !.start = OpenOf(NewestRow(table[job.frame])), !.end = clock + 2 * CandleTicks])
      \/ job.kind = "range" /\ SetFetcher(p, [asks EXCEPT !.start = job.start, !.end = job.end])
  BY DEF BeginJob
<1>6. Target(x) = job.frame
  BY DEF Target
<1> HIDE DEF x, job
(* The request of a job starts at the newest row, where the frame has any. *)
<1>7. ASSUME NEW start \in Int, NEW end \in Int, SetFetcher(p, [asks EXCEPT !.start = start, !.end = end]),
             job.kind # "known",
             job.frame \notin shared => \A n \in Nat : IsNewest(table[job.frame], n) => start = OpenOf(n)
      PROVE  StoreInv'
  <2>1. PICK new : new = [asks EXCEPT !.start = start, !.end = end]
    OBVIOUS
  <2>2. new \in Fetchers /\ new.pc = "request" /\ new.jobs = x.jobs /\ new.start = start /\ new.batch = x.batch
    BY <1>1, <2>1 DEF Fetchers
  <2>3. Active(new) /\ Target(new) = job.frame
    BY <2>2, <1>6 DEF Active, Target
  <2>4. JobsInOrder(new, table, shared)
    BY <1>1, <1>2, <1>7, <2>2, SameJobs DEF job
  <2>5. AtItsJob(new, table[job.frame]) \/ job.frame \in shared
    BY <1>7, <2>2 DEF AtItsJob
  <2>6. AtWork(new, table, shared, clock)
    BY <1>1, <2>2, <2>3, <2>4, <2>5 DEF AtWork
  <2>7. SetFetcher(p, new) /\ (fetcher[p].jobs = <<>> => new.jobs = <<>>)
        /\ Downloads(new.jobs) \subseteq Downloads(fetcher[p].jobs)
    BY <1>7, <2>1, <2>2 DEF x
  <2> QED
    BY <1>2, <2>2, <2>6, <2>7, FetcherOnly
<1>8. CASE job.kind = "known" /\ SetFetcher(p, [x EXCEPT !.jobs = Tail(@)])
  <2>1. PICK new : new = [x EXCEPT !.jobs = Tail(@)]
    OBVIOUS
  <2>2. new \in Fetchers /\ new.pc = "next" /\ new.jobs = Tail(x.jobs) /\ new.batch = x.batch
    BY <1>1, <1>2, <1>3, <2>1 DEF Fetchers
  <2>3. ~Active(new)
    BY <2>2 DEF Active
  <2>4. JobsInOrder(new, table, shared)
    BY <1>1, <1>2, <2>2, <2>3, NextJobs
  <2>5. AtWork(new, table, shared, clock)
    BY <1>1, <2>2, <2>3, <2>4 DEF AtWork
  <2>6. SetFetcher(p, new) /\ (fetcher[p].jobs = <<>> => new.jobs = <<>>)
        /\ Downloads(new.jobs) \subseteq Downloads(fetcher[p].jobs)
    BY <1>2, <1>3, <1>8, <2>1, <2>2 DEF x
  <2> QED
    BY <1>2, <2>2, <2>5, <2>6, FetcherOnly
<1>9. CASE SetFetcher(p, [x EXCEPT !.pc = "failed", !.jobs = <<>>])
  <2>1. PICK new : new = [x EXCEPT !.pc = "failed", !.jobs = <<>>]
    OBVIOUS
  <2>2. new \in Fetchers /\ new.pc = "failed" /\ new.jobs = <<>> /\ new.batch = x.batch
    <3>1. <<>> \in Seq(Jobs)
      OBVIOUS
    <3> QED
      BY <1>1, <2>1, <3>1 DEF Fetchers
  <2>3. ~Active(new)
    BY <2>2 DEF Active
  <2>4. AtWork(new, table, shared, clock)
    BY <1>1, <2>2, <2>3, JoblessIsAtWork
  <2>5. SetFetcher(p, new) /\ Downloads(new.jobs) \subseteq Downloads(fetcher[p].jobs)
    BY <1>9, <2>1, <2>2, NoJobsDownload
  <2> QED
    BY <1>2, <2>2, <2>4, <2>5, FetcherOnly
<1>10. CASE job.kind = "initial"
            /\ SetFetcher(p, [asks EXCEPT !.start = clock - InitialCandles * CandleTicks, !.end = MaxClock])
  <2>1. clock - InitialCandles * CandleTicks \in Int /\ MaxClock \in Int
    BY <1>1, StoreAssumption
  <2>2. ASSUME job.frame \notin shared PROVE DOMAIN table[job.frame] = {}
    <3>1. EmptyBefore(x, table, shared) /\ 1 \in DOMAIN x.jobs
      BY <1>1, <1>3 DEF JobsInOrder
    <3> QED
      BY <1>2, <1>3, <1>10, <2>2, <3>1 DEF EmptyBefore
  <2>3. job.frame \notin shared => \A n \in Nat :
            IsNewest(table[job.frame], n) => clock - InitialCandles * CandleTicks = OpenOf(n)
    BY <2>2 DEF IsNewest
  <2> QED
    BY <1>7, <1>10, <2>1, <2>3
<1>11. CASE job.kind = "updates" /\ DOMAIN table[job.frame] # {} /\ SetFetcher(p,
                [asks EXCEPT !.start = OpenOf(NewestRow(table[job.frame])), !.end = clock + 2 * CandleTicks])
  <2> DEFINE rows == table[job.frame]
  <2>1. IsNewest(rows, NewestRow(rows)) /\ rows \in RowSets
    BY <1>1, <1>4, <1>11, RowsEnds
  <2>2. NewestRow(rows) \in Nat
    BY <2>1 DEF IsNewest, RowSets
  <2>3. OpenOf(NewestRow(rows)) \in Int /\ clock + 2 * CandleTicks \in Int
    BY <1>1, <2>2, StoreAssumption DEF OpenOf
  <2>4. \A n \in Nat : IsNewest(rows, n) => OpenOf(NewestRow(rows)) = OpenOf(n)
    BY <2>1, OneNewest
  <2> QED
    BY <1>7, <1>11, <2>3, <2>4
<1>12. CASE job.kind = "range" /\ SetFetcher(p, [asks EXCEPT !.start = job.start, !.end = job.end])
  <2>1. job.frame \in shared
    BY <1>1, <1>3, <1>12 DEF JobsInOrder
  <2> QED
    BY <1>4, <1>7, <1>12, <2>1
<1> QED
  BY <1>5, <1>8, <1>9, <1>10, <1>11, <1>12

LEMMA AnswerRequestStep ==
    ASSUME StoreInv, NEW p \in Fetching, AnswerRequest(p)
    PROVE  StoreInv'
<1> DEFINE x == fetcher[p]
           b == KlinesBetween(x.start, x.end)
           rows == table[Target(x)]
<1>1. /\ x \in Fetchers /\ x.jobs \in Seq(Jobs) /\ AtWork(x, table, shared, clock) /\ JobsInOrder(x, table, shared)
      /\ InThePast(x.batch, clock) /\ clock \in Nat /\ x.start \in Int /\ x.end \in Int
      /\ \A f \in FrameSet : table[f] \in RowSets /\ InThePast(table[f], clock)
  BY FetcherIs
<1>2. x.pc = "request" /\ Active(x) /\ UNCHANGED <<clock, table, stage, shared>>
  BY DEF AnswerRequest, Active
<1>3. /\ x.jobs # <<>> /\ Target(x) \in FrameSet /\ Target(x) = x.jobs[1].frame
  BY <1>1, <1>2, FirstIsDownloaded
<1>4. Head(x.jobs).kind # "known"
  BY <1>1, <1>2 DEF JobsInOrder
<1>5. \/ DOMAIN b = {} /\ SetFetcher(p, [x EXCEPT !.pc = "next", !.jobs = Tail(@)])
      \/ DOMAIN b # {} /\ SetFetcher(p,
            [x EXCEPT !.pc = "mark", !.batch = b, !.start = NextStart(b), !.full = IsFull(b)])
  BY DEF AnswerRequest
<1>6. /\ b \in RowSets /\ InThePast(b, clock) /\ Gapless(b) /\ WholeBelow(b)
      /\ \A n \in DOMAIN b : x.start <= OpenOf(n) /\ OpenOf(n) <= x.end
      /\ \A n \in Nat : x.start <= OpenOf(n) /\ OpenOf(n) <= x.end /\ OpenOf(n) <= clock =>
            /\ DOMAIN b # {}
            /\ \A m \in Nat : IsOldest(b, m) => m <= n
            /\ \A m \in Nat : IsNewest(b, m) /\ m < n => IsFull(b)
  <2>1. clock \in Nat /\ x.start \in Int /\ x.end \in Int /\ b = KlinesBetween(x.start, x.end)
    BY <1>1
  <2> HIDE DEF x, b, rows
  <2> QED
    BY <2>1, KlinesAre
<1>7. Target(x) \notin shared => \A n \in Nat : IsNewest(rows, n) => x.start = OpenOf(n)
  BY <1>1, <1>2 DEF AtWork, AtItsJob
<1>8. rows \in RowSets /\ InThePast(rows, clock)
  BY <1>1, <1>3
<1>9. IsFull(b) \in BOOLEAN
  BY DEF IsFull
<1> HIDE DEF x, b, rows
<1>10. CASE DOMAIN b = {} /\ SetFetcher(p, [x EXCEPT !.pc = "next", !.jobs = Tail(@)])
  <2>1. PICK new : new = [x EXCEPT !.pc = "next", !.jobs = Tail(@)]
    OBVIOUS
  <2>2. Tail(x.jobs) \in Seq(Jobs) /\ Downloads(Tail(x.jobs)) \subseteq Downloads(x.jobs)
    BY <1>1, <1>3, TailJobs
  <2>3. new \in Fetchers /\ new.pc = "next" /\ new.jobs = Tail(x.jobs) /\ new.batch = x.batch
    BY <1>1, <2>1, <2>2 DEF Fetchers
  <2>4. ~Active(new)
    BY <2>3 DEF Active
  <2>5. JobsInOrder(new, table, shared)
    BY <1>1, <1>3, <2>3, <2>4, NextJobs
  <2>6. AtWork(new, table, shared, clock)
    BY <1>1, <2>3, <2>4, <2>5 DEF AtWork
  <2>7. SetFetcher(p, new) /\ (fetcher[p].jobs = <<>> => new.jobs = <<>>)
        /\ Downloads(new.jobs) \subseteq Downloads(fetcher[p].jobs)
    BY <1>3, <1>10, <2>1, <2>2, <2>3 DEF x
  <2> QED
    BY <1>2, <2>3, <2>6, <2>7, FetcherOnly
<1>11. CASE DOMAIN b # {} /\ SetFetcher(p,
                [x EXCEPT !.pc = "mark", !.batch = b, !.start = NextStart(b), !.full = IsFull(b)])
  <2>1. PICK new : new = [x EXCEPT !.pc = "mark", !.batch = b, !.start = NextStart(b), !.full = IsFull(b)]
    OBVIOUS
  <2>2. IsNewest(b, NewestRow(b))
    BY <1>1, <1>6, <1>11, RowsEnds
  <2>3. NewestRow(b) \in Nat
    BY <1>6, <2>2 DEF IsNewest, RowSets
  <2>4. NextStart(b) \in Int /\ NextStart(b) = OpenOf(NewestRow(b))
    BY <2>3, StoreAssumption DEF NextStart, OpenOf
  <2>5. new \in Fetchers /\ new.pc = "mark" /\ new.jobs = x.jobs /\ new.batch = b /\ new.start = NextStart(b)
    BY <1>1, <1>6, <1>9, <2>1, <2>4 DEF Fetchers
  <2>6. Active(new) /\ Target(new) = Target(x)
    BY <2>5 DEF Active, Target
  <2>7. JobsInOrder(new, table, shared)
    BY <1>1, <1>3, <1>4, <2>5, SameJobs
  <2>8. \A n \in Nat : IsNewest(b, n) => new.start = OpenOf(n)
    BY <1>6, <2>2, <2>4, <2>5, OneNewest
  <2>9. ASSUME NEW n \in Nat, IsOldest(b, n), Target(x) \notin shared PROVE Continues(rows, n)
    <3>1. CASE DOMAIN rows = {}
      BY <3>1 DEF Continues
    <3>2. CASE DOMAIN rows # {}
      <4>1. IsNewest(rows, NewestRow(rows))
        BY <1>1, <1>8, <3>2, RowsEnds
      <4> DEFINE m == NewestRow(rows)
      <4>2. m \in Nat /\ OpenOf(m) <= clock
        BY <1>8, <4>1 DEF IsNewest, RowSets, InThePast
      <4>3. x.start = OpenOf(m)
        BY <1>7, <2>9, <4>1, <4>2
      <4>4. x.start <= OpenOf(n) /\ OpenOf(n) <= x.end
        BY <1>6, <2>9 DEF IsOldest
      <4> HIDE DEF m
      <4>5. m <= n /\ OpenOf(m) \in Nat /\ OpenOf(n) \in Nat
        BY <4>2, <4>3, <4>4, OpensInOrder
      <4>6. OpenOf(m) <= x.end
        BY <1>1, <4>3, <4>4, <4>5
      <4>7. x.start <= OpenOf(m)
        BY <4>3, <4>5
      <4>8. n <= m
        BY <1>6, <2>9, <4>2, <4>6, <4>7
      <4>9. n = m
        BY <4>2, <4>5, <4>8
      <4> QED
        BY <4>1, <4>9 DEF Continues, m
    <3> QED
      BY <3>1, <3>2
  <2>10. Target(x) \notin shared => AtItsJob(new, rows)
    BY <1>6, <1>11, <2>5, <2>8, <2>9 DEF AtItsJob, InOrder
  <2>11. AtWork(new, table, shared, clock)
    BY <1>6, <1>11, <2>5, <2>6, <2>7, <2>10 DEF AtWork, rows
  <2>12. SetFetcher(p, new) /\ (fetcher[p].jobs = <<>> => new.jobs = <<>>)
         /\ Downloads(new.jobs) \subseteq Downloads(fetcher[p].jobs)
    BY <1>11, <2>1, <2>5 DEF x
  <2> QED
    BY <1>2, <2>5, <2>11, <2>12, FetcherOnly
<1> QED
  BY <1>5, <1>10, <1>11

(* A fetcher gives up, or has done all its jobs. *)
LEMMA FetcherStops ==
    ASSUME StoreInv, NEW p \in Fetching, NEW pc \in {"failed", "done"},
           SetFetcher(p, [IdleFetcher EXCEPT !.pc = pc]), UNCHANGED <<clock, table, stage, shared>>
    PROVE  StoreInv'
<1>1. PICK new : new = [IdleFetcher EXCEPT !.pc = pc]
  OBVIOUS
<1>2. new \in Fetchers /\ new.pc = pc /\ new.jobs = <<>> /\ DOMAIN new.batch = {}
  BY <1>1, IdleIs DEF Fetchers
<1>3. ~Active(new) /\ InThePast(new.batch, clock)
  BY <1>2 DEF Active, InThePast
<1>4. AtWork(new, table, shared, clock)
  BY <1>2, <1>3, JoblessIsAtWork
<1>5. SetFetcher(p, new) /\ Downloads(new.jobs) \subseteq Downloads(fetcher[p].jobs)
  BY <1>1, <1>2, NoJobsDownload
<1> QED
  BY <1>2, <1>4, <1>5, FetcherOnly

LEMMA MarkNewestStep ==
    ASSUME StoreInv, NEW p \in Fetching, MarkNewest(p)
    PROVE  StoreInv'
<1> DEFINE x == fetcher[p]
           b == x.batch
           k == NewestRow(b)
           open == clock - OpenOf(k) >= CandleTicks
<1>1. /\ x \in Fetchers /\ x.jobs \in Seq(Jobs) /\ AtWork(x, table, shared, clock) /\ JobsInOrder(x, table, shared)
      /\ InThePast(b, clock) /\ clock \in Nat /\ b \in RowSets
  BY FetcherIs
<1>0. DOMAIN b # {}
  BY <1>1 DEF AtWork, MarkNewest
<1>2. x.pc = "mark" /\ Active(x) /\ UNCHANGED <<clock, table, stage, shared>>
      /\ SetFetcher(p, [x EXCEPT !.pc = "store", !.batch[k].final = open])
  BY DEF MarkNewest, Active
<1>3. x.jobs # <<>> /\ Head(x.jobs).kind # "known"
  BY <1>1, <1>2 DEF JobsInOrder
<1>4. PICK new : new = [x EXCEPT !.pc = "store", !.batch[k].final = open]
  OBVIOUS
<1>5. open \in BOOLEAN
  OBVIOUS
<1>6. PICK D \in SUBSET Nat : b \in [D -> [ticks : Int, final : BOOLEAN]]
  BY <1>1 DEF RowSets
<1> DEFINE c == [b EXCEPT ![k].final = open]
<1>7. c \in [D -> [ticks : Int, final : BOOLEAN]] /\ \A n \in D : n # k => c[n] = b[n]
  BY <1>5, <1>6
<1>8. c \in RowSets /\ DOMAIN c = DOMAIN b /\ DOMAIN b = D
  BY <1>6, <1>7 DEF RowSets
<1>9. new \in Fetchers /\ new.pc = "store" /\ new.jobs = x.jobs /\ new.batch = c /\ new.start = x.start
  BY <1>1, <1>4, <1>8 DEF Fetchers
<1> HIDE DEF c, open
<1>10. InThePast(new.batch, clock)
  BY <1>1, <1>8, <1>9 DEF InThePast
<1>11. JobsInOrder(new, table, shared)
  BY <1>1, <1>3, <1>9, SameJobs
<1>12. Active(new) /\ Target(new) = Target(x)
  BY <1>9 DEF Active, Target
<1>13. ASSUME Target(x) \notin shared PROVE AtItsJob(new, table[Target(x)])
  <2>1. AtItsJob(x, table[Target(x)])
    BY <1>1, <1>2, <1>13 DEF AtWork
  <2>2. /\ Gapless(b) /\ WholeBelow(b)
        /\ \A n \in Nat : IsNewest(b, n) => x.start = OpenOf(n)
        /\ \A n \in Nat : IsOldest(b, n) => Continues(table[Target(x)], n)
    BY <1>2, <2>1 DEF AtItsJob, InOrder
  <2>3. IsNewest(b, k)
    BY <1>1, <1>0, RowsEnds
  <2>4. Gapless(c)
    BY <1>8, <2>2 DEF Gapless
  <2>5. WholeBelow(c)
    <3> SUFFICES ASSUME NEW m \in D, NEW n \in D, m < n PROVE c[m] = WholeRow
      BY <1>8 DEF WholeBelow
    <3>1. m # k
      BY <1>8, <2>3 DEF IsNewest
    <3>2. b[m] = WholeRow
      BY <1>8, <2>2 DEF WholeBelow
    <3> QED
      BY <1>7, <3>1, <3>2
  <2>6. \A n : (IsNewest(c, n) <=> IsNewest(b, n)) /\ (IsOldest(c, n) <=> IsOldest(b, n))
    BY <1>8 DEF IsNewest, IsOldest
  <2> QED
    BY <1>8, <1>9, <2>2, <2>4, <2>5, <2>6 DEF AtItsJob, InOrder
<1>14. AtWork(new, table, shared, clock)
  BY <1>0, <1>8, <1>9, <1>10, <1>11, <1>12, <1>13 DEF AtWork
<1>15. SetFetcher(p, new) /\ (fetcher[p].jobs = <<>> => new.jobs = <<>>)
       /\ Downloads(new.jobs) \subseteq Downloads(fetcher[p].jobs)
  BY <1>2, <1>4, <1>9
<1> QED
  BY <1>2, <1>9, <1>14, <1>15, FetcherOnly

(* An upsert of the row a batch goes on with. *)
LEMMA RowStored ==
    ASSUME NEW rows \in RowSets, InOrder(rows), NEW n \in Nat, Continues(rows, n),
           NEW row \in [ticks : Int, final : BOOLEAN],
           NEW up, up = [m \in DOMAIN rows \cup {n} |-> IF m = n THEN row ELSE rows[m]]
    PROVE  /\ InOrder(up) /\ IsNewest(up, n)
           /\ row = WholeRow => \A m \in DOMAIN up : up[m] = WholeRow
<1>1. DOMAIN rows \subseteq Nat
  BY DEF RowSets
<1>2. DOMAIN up = DOMAIN rows \cup {n} /\ up[n] = row /\ \A m \in DOMAIN rows : m # n => up[m] = rows[m]
  OBVIOUS
<1>3. \A m \in DOMAIN rows : m <= n
  BY <1>1 DEF Continues, IsNewest
<1>4. IsNewest(up, n)
  BY <1>2, <1>3 DEF IsNewest
<1>5. Gapless(up)
  <2> SUFFICES ASSUME NEW a \in DOMAIN up, NEW b \in DOMAIN up, NEW k \in Nat, a <= k, k <= b, k # n
               PROVE  k \in DOMAIN rows
    BY <1>2 DEF Gapless
  <2>1. k < n
    BY <1>1, <1>2, <1>3
  <2>2. a \in DOMAIN rows
    BY <1>2, <2>1
  <2>3. PICK top \in DOMAIN rows : top = n \/ top = n - 1
    BY <2>2 DEF Continues, IsNewest
  <2>4. k <= top
    BY <2>1, <2>3
  <2> QED
    BY <2>2, <2>3, <2>4 DEF InOrder, Gapless
<1>6. ASSUME NEW m \in DOMAIN rows, m # n PROVE rows[m] = WholeRow
  <2>1. CASE IsNewest(rows, n)
    <3>1. n \in DOMAIN rows /\ m < n
      BY <1>1, <1>3, <1>6, <2>1 DEF IsNewest
    <3> QED
      BY <3>1 DEF InOrder, WholeBelow
  <2>2. CASE IsNewest(rows, n - 1) /\ \A k \in DOMAIN rows : rows[k] = WholeRow
    BY <2>2
  <2> QED
    BY <2>1, <2>2 DEF Continues
<1>7. WholeBelow(up)
  <2> SUFFICES ASSUME NEW a \in DOMAIN up, NEW b \in DOMAIN up, a < b PROVE up[a] = WholeRow
    BY DEF WholeBelow
  <2>1. a # n
    BY <1>1, <1>2, <1>3
  <2> QED
    BY <1>2, <1>6, <2>1
<1>8. row = WholeRow => \A m \in DOMAIN up : up[m] = WholeRow
  BY <1>2, <1>6
<1> QED
  BY <1>4, <1>5, <1>7, <1>8 DEF InOrder

(* What is left of a batch without its oldest row. *)
LEMMA RestOfBatch ==
    ASSUME NEW b \in RowSets, NEW n, IsOldest(b, n),
           NEW rest, rest = KeepRows(b, {m \in DOMAIN b : m > n})
    PROVE  /\ rest \in RowSets /\ DOMAIN rest = {m \in DOMAIN b : m > n}
           /\ InOrder(b) => InOrder(rest)
           /\ InOrder(b) /\ DOMAIN rest # {} =>
                /\ b[n] = WholeRow /\ \A k : IsOldest(rest, k) => k = n + 1
                /\ \A k : IsNewest(rest, k) => IsNewest(b, k)
           /\ DOMAIN rest = {} => IsNewest(b, n)
<1>1. PICK D \in SUBSET Nat : b \in [D -> [ticks : Int, final : BOOLEAN]]
  BY DEF RowSets
<1>2. DOMAIN b = D /\ n \in D /\ \A m \in D : n <= m
  BY <1>1 DEF IsOldest
<1> DEFINE E == {m \in D : m > n}
<1>3. rest = [m \in E |-> b[m]]
  <2>1. D \cap E = E
    OBVIOUS
  <2> QED
    BY <1>2, <2>1 DEF KeepRows
<1>4. DOMAIN rest = E /\ E \subseteq D /\ E \subseteq Nat /\ \A m \in E : rest[m] = b[m]
  BY <1>3
<1>5. rest \in RowSets
  <2>1. rest \in [E -> [ticks : Int, final : BOOLEAN]]
    BY <1>1, <1>3
  <2> QED
    BY <2>1, <1>4 DEF RowSets
<1>6. ASSUME InOrder(b) PROVE InOrder(rest)
  <2>1. Gapless(rest)
    BY <1>2, <1>4, <1>6 DEF InOrder, Gapless
  <2>2. WholeBelow(rest)
    BY <1>2, <1>4, <1>6 DEF InOrder, WholeBelow
  <2> QED
    BY <2>1, <2>2 DEF InOrder
<1>7. ASSUME InOrder(b), NEW k \in E
      PROVE  b[n] = WholeRow /\ n + 1 \in E
  <2>1. b[n] = WholeRow
    BY <1>2, <1>4, <1>7 DEF InOrder, WholeBelow
  <2>2. n \in Nat /\ k \in Nat /\ n + 1 \in Nat /\ n <= n + 1 /\ n + 1 <= k /\ n + 1 > n
    BY <1>2
  <2>3. n + 1 \in D
    BY <1>2, <1>7, <2>2 DEF InOrder, Gapless
  <2> QED
    BY <2>1, <2>2, <2>3
<1>8. ASSUME InOrder(b), DOMAIN rest # {}, NEW k, IsOldest(rest, k) PROVE k = n + 1
  <2>1. k \in E /\ k <= n + 1
    BY <1>4, <1>7, <1>8 DEF IsOldest
  <2> QED
    BY <1>2, <2>1
<1>9. ASSUME NEW k, IsNewest(rest, k) PROVE IsNewest(b, k)
  <2>1. k \in E /\ \A m \in E : m <= k
    BY <1>4, <1>9 DEF IsNewest
  <2>2. ASSUME NEW m \in D PROVE m <= k
    <3>1. m > n \/ m = n
      BY <1>2
    <3>2. m = n => m <= k
      BY <1>2, <2>1
    <3> QED
      BY <2>1, <3>1, <3>2
  <2> QED
    BY <1>2, <2>1, <2>2 DEF IsNewest
<1>10. ASSUME DOMAIN rest = {} PROVE IsNewest(b, n)
  <2>1. \A m \in D : m <= n
    BY <1>2, <1>4, <1>10
  <2> QED
    BY <1>2, <2>1 DEF IsNewest
<1>11. ASSUME InOrder(b), DOMAIN rest # {} PROVE b[n] = WholeRow
  BY <1>4, <1>7, <1>11
<1> HIDE DEF E
<1>12. DOMAIN rest = {m \in DOMAIN b : m > n}
  BY <1>2, <1>4 DEF E
<1> QED
  BY <1>5, <1>6, <1>8, <1>9, <1>10, <1>11, <1>12

LEMMA StoreRowStep ==
    ASSUME StoreInv, NEW p \in Fetching, StoreRow(p)
    PROVE  StoreInv'
<1> DEFINE x == fetcher[p]
           b == x.batch
           n == OldestRow(b)
           rest == KeepRows(b, {m \in DOMAIN b : m > n})
           f == Target(x)
           rows == table[f]
           up == [m \in DOMAIN rows \cup {n} |-> IF m = n THEN b[n] ELSE rows[m]]
<1>1. /\ x \in Fetchers /\ x.jobs \in Seq(Jobs) /\ AtWork(x, table, shared, clock) /\ JobsInOrder(x, table, shared)
      /\ InThePast(b, clock) /\ clock \in Nat /\ b \in RowSets
      /\ \A g \in FrameSet : table[g] \in RowSets /\ InThePast(table[g], clock)
  BY FetcherIs
<1>2. x.pc = "store" /\ Active(x) /\ UNCHANGED <<clock, stage, shared>> /\ table' = Upsert(f, n, b[n])
  BY DEF StoreRow, Active, Target
<1>3. DOMAIN b # {}
  BY <1>1, <1>2 DEF AtWork
<1>4. x.jobs # <<>> /\ f \in FrameSet /\ f = x.jobs[1].frame /\ f \in Downloads(x.jobs)
  BY <1>1, <1>2, FirstIsDownloaded
<1>5. Head(x.jobs).kind # "known"
  BY <1>1, <1>2 DEF JobsInOrder
<1>6. IsOldest(b, n)
  BY <1>1, <1>3, RowsEnds
<1>7. n \in Nat /\ OpenOf(n) <= clock /\ b[n] \in [ticks : Int, final : BOOLEAN]
  <2>1. PICK D \in SUBSET Nat : b \in [D -> [ticks : Int, final : BOOLEAN]]
    BY <1>1 DEF RowSets
  <2>2. n \in D
    BY <1>6, <2>1 DEF IsOldest
  <2> QED
    BY <1>1, <2>1, <2>2 DEF InThePast
<1>8. /\ rest \in RowSets /\ DOMAIN rest = {m \in DOMAIN b : m > n}
      /\ InOrder(b) => InOrder(rest)
      /\ InOrder(b) /\ DOMAIN rest # {} =>
            /\ b[n] = WholeRow /\ \A k : IsOldest(rest, k) => k = n + 1
            /\ \A k : IsNewest(rest, k) => IsNewest(b, k)
      /\ DOMAIN rest = {} => IsNewest(b, n)
  BY <1>1, <1>6, RestOfBatch
<1>9. \/ DOMAIN rest # {} /\ SetFetcher(p, [x EXCEPT !.batch = rest])
      \/ DOMAIN rest = {} /\ SetFetcher(p, [x EXCEPT !.pc = "request", !.batch = rest])
      \/ DOMAIN rest = {} /\ SetFetcher(p, [x EXCEPT !.pc = "next", !.jobs = Tail(@), !.batch = rest])
  BY DEF StoreRow
<1>10. rows \in RowSets /\ InThePast(rows, clock) /\ (f \notin shared => InOrder(rows))
  BY <1>1, <1>4 DEF StoreInv
<1>11. f \notin shared =>
        /\ InOrder(b) /\ Continues(rows, n)
        /\ \A k \in Nat : IsNewest(b, k) => x.start = OpenOf(k)
  BY <1>1, <1>2, <1>6, <1>7 DEF AtWork, AtItsJob
<1>12. table' = [table EXCEPT ![f] = up]
  BY <1>2 DEF Upsert
<1>13. table \in [FrameSet -> RowSets]
  BY DEF StoreInv, StoreTypes
<1> HIDE DEF x, b, n, rest, f, rows
<1>14. up \in RowSets /\ InThePast(up, clock)
  <2>1. PICK D \in SUBSET Nat : rows \in [D -> [ticks : Int, final : BOOLEAN]]
    BY <1>10 DEF RowSets
  <2>2. up \in [D \cup {n} -> [ticks : Int, final : BOOLEAN]] /\ D \cup {n} \in SUBSET Nat
    BY <1>7, <2>1
  <2>3. up \in RowSets
    BY <2>2 DEF RowSets
  <2>4. InThePast(up, clock)
    BY <1>7, <1>10 DEF InThePast
  <2> QED
    BY <2>3, <2>4
<1>15. f \notin shared =>
        /\ InOrder(up) /\ IsNewest(up, n)
        /\ b[n] = WholeRow => \A m \in DOMAIN up : up[m] = WholeRow
  BY <1>7, <1>10, <1>11, RowStored
<1> HIDE DEF up
<1>16. /\ table' \in [FrameSet -> RowSets] /\ table'[f] = up
       /\ \A g \in FrameSet : g # f => table'[g] = table[g]
  BY <1>4, <1>12, <1>13, <1>14
<1>17. /\ \A g \in FrameSet : InThePast(table'[g], clock)
       /\ \A g \in FrameSet \ shared : InOrder(table'[g])
       /\ \A g \in FrameSet \ shared : table'[g] = table[g] \/ g \in Downloads(fetcher[p].jobs)
  <2>1. \A g \in FrameSet : InThePast(table'[g], clock)
    BY <1>1, <1>14, <1>16
  <2>2. \A g \in FrameSet \ shared : InOrder(table'[g])
    BY <1>15, <1>16 DEF StoreInv
  <2>3. \A g \in FrameSet \ shared : table'[g] = table[g] \/ g \in Downloads(fetcher[p].jobs)
    BY <1>4, <1>16 DEF x
  <2> QED
    BY <2>1, <2>2, <2>3
<1>18. \A g \in FrameSet : table'[g] = table[g] \/ g = x.jobs[1].frame
  BY <1>4, <1>16
<1>19. InThePast(rest, clock)
  BY <1>1, <1>8 DEF InThePast
(* The fetcher after the step, and what is to be shown of it. *)
<1>20. ASSUME NEW new \in Fetchers, SetFetcher(p, new), AtWork(new, table', shared, clock),
              new.jobs = x.jobs \/ new.jobs = Tail(x.jobs)
       PROVE  StoreInv'
  <2>1. fetcher' = [fetcher EXCEPT ![p] = new]
    BY <1>20 DEF SetFetcher
  <2>2. Downloads(Tail(x.jobs)) \subseteq Downloads(x.jobs)
    BY <1>1, <1>4, TailJobs
  <2>3. Downloads(new.jobs) \subseteq Downloads(fetcher[p].jobs) /\ fetcher[p].jobs # <<>>
    BY <1>4, <1>20, <2>2 DEF x
  <2> QED
    BY <1>2, <1>16, <1>17, <1>20, <2>1, <2>3, OneFetcher
<1>21. CASE DOMAIN rest # {} /\ SetFetcher(p, [x EXCEPT !.batch = rest])
  <2>1. PICK new : new = [x EXCEPT !.batch = rest]
    OBVIOUS
  <2>2. new \in Fetchers /\ new.pc = "store" /\ new.jobs = x.jobs /\ new.batch = rest /\ new.start = x.start
    BY <1>1, <1>2, <1>8, <2>1 DEF Fetchers
  <2>3. Active(new) /\ Target(new) = f
    BY <2>2 DEF Active, Target, f
  <2>4. JobsInOrder(new, table', shared)
    BY <1>1, <1>4, <1>5, <1>18, <2>2, SameJobs
  <2>5. ASSUME f \notin shared PROVE AtItsJob(new, up)
    <3>1. /\ InOrder(rest) /\ b[n] = WholeRow /\ \A k : IsOldest(rest, k) => k = n + 1
          /\ \A k : IsNewest(rest, k) => IsNewest(b, k)
      BY <1>8, <1>11, <1>21, <2>5
    <3>2. Continues(up, n + 1)
      <4>1. n = (n + 1) - 1
        BY <1>7
      <4>2. IsNewest(up, (n + 1) - 1)
        BY <1>15, <2>5, <4>1
      <4> QED
        BY <1>15, <2>5, <3>1, <4>2 DEF Continues
    <3>3. \A k \in Nat : IsNewest(rest, k) => new.start = OpenOf(k)
      BY <1>11, <2>2, <2>5, <3>1
    <3> QED
      BY <2>2, <3>1, <3>2, <3>3 DEF AtItsJob
  <2>6. AtWork(new, table', shared, clock)
    BY <1>16, <1>19, <1>21, <2>2, <2>3, <2>4, <2>5 DEF AtWork
  <2> QED
    BY <1>20, <1>21, <2>1, <2>2, <2>6
<1>22. CASE DOMAIN rest = {} /\ SetFetcher(p, [x EXCEPT !.pc = "request", !.batch = rest])
  <2>1. PICK new : new = [x EXCEPT !.pc = "request", !.batch = rest]
    OBVIOUS
  <2>2. new \in Fetchers /\ new.pc = "request" /\ new.jobs = x.jobs /\ new.batch = rest /\ new.start = x.start
    BY <1>1, <1>8, <2>1 DEF Fetchers
  <2>3. Active(new) /\ Target(new) = f
    BY <2>2 DEF Active, Target, f
  <2>4. JobsInOrder(new, table', shared)
    BY <1>1, <1>4, <1>5, <1>18, <2>2, SameJobs
  <2>5. ASSUME f \notin shared PROVE AtItsJob(new, up)
    <3>1. x.start = OpenOf(n) /\ IsNewest(up, n)
      BY <1>7, <1>8, <1>11, <1>15, <1>22, <2>5
    <3>2. \A k \in Nat : IsNewest(up, k) => k = n
      BY <1>14, <3>1, OneNewest
    <3> QED
      BY <2>2, <3>1, <3>2 DEF AtItsJob
  <2>6. AtWork(new, table', shared, clock)
    BY <1>16, <1>19, <2>2, <2>3, <2>4, <2>5 DEF AtWork
  <2> QED
    BY <1>20, <1>22, <2>1, <2>2, <2>6
<1>23. CASE DOMAIN rest = {} /\ SetFetcher(p, [x EXCEPT !.pc = "next", !.jobs = Tail(@), !.batch = rest])
  <2>1. PICK new : new = [x EXCEPT !.pc = "next", !.jobs = Tail(@), !.batch = rest]
    OBVIOUS
  <2>2. Tail(x.jobs) \in Seq(Jobs)
    BY <1>1, <1>4, TailJobs
  <2>3. new \in Fetchers /\ new.pc = "next" /\ new.jobs = Tail(x.jobs) /\ new.batch = rest
    BY <1>1, <1>8, <2>1, <2>2 DEF Fetchers
  <2>4. ~Active(new)
    BY <2>3 DEF Active
  <2>5. JobsInOrder(new, table', shared)
    BY <1>1, <1>4, <1>18, <2>3, <2>4, NextJobs
  <2>6. AtWork(new, table', shared, clock)
    BY <1>19, <2>3, <2>4, <2>5 DEF AtWork
  <2> QED
    BY <1>20, <1>23, <2>1, <2>3, <2>6
<1> QED
  BY <1>9, <1>21, <1>22, <1>23

-----------------------------------------------------------------------------
(* Nothing is being downloaded. *)
LEMMA NobodyFetches ==
    ASSUME clock' \in Nat, shared' \subseteq FrameSet, table' \in [FrameSet -> RowSets],
           \A f \in FrameSet : InThePast(table'[f], clock'),
           \A f \in FrameSet \ shared' : InOrder(table'[f]),
           fetcher' \in [Fetching -> Fetchers],
           \A p \in Fetching : /\ fetcher'[p].jobs = <<>> /\ ~Active(fetcher'[p])
                               /\ InThePast(fetcher'[p].batch, clock')
    PROVE  StoreInv'
<1>1. StoreTypes'
  BY DEF StoreTypes
<1>2. \A p \in Fetching : AtWork(fetcher'[p], table', shared', clock')
  BY JoblessIsAtWork
<1>3. \A p, q \in Fetching : Alone(fetcher'[p], fetcher'[q], shared')
  BY NoJobsDownload DEF Alone
<1> QED
  BY <1>1, <1>2, <1>3 DEF StoreInv

LEMMA RestingIs ==
    /\ Resting \in [Fetching -> Fetchers]
    /\ \A p \in Fetching : /\ Resting[p].jobs = <<>> /\ ~Active(Resting[p])
                           /\ \A c : InThePast(Resting[p].batch, c)
<1>1. ~Active(IdleFetcher) /\ \A c : InThePast(IdleFetcher.batch, c)
  BY IdleIs DEF Active, InThePast
<1>2. Resting = [p \in Fetching |-> IdleFetcher]
  BY DEF Resting, Fetching
<1> HIDE DEF Resting
<1> QED
  BY <1>1, <1>2, IdleIs

LEMMA FetchersRest ==
    ASSUME StoreInv, fetcher' = Resting, UNCHANGED <<clock, table, shared>>
    PROVE  StoreInv'
<1>1. /\ clock' \in Nat /\ shared' \subseteq FrameSet /\ table' \in [FrameSet -> RowSets]
      /\ \A f \in FrameSet : InThePast(table'[f], clock')
      /\ \A f \in FrameSet \ shared' : InOrder(table'[f])
  BY DEF StoreInv, StoreTypes
<1>2. /\ fetcher' \in [Fetching -> Fetchers]
      /\ \A p \in Fetching : /\ fetcher'[p].jobs = <<>> /\ ~Active(fetcher'[p])
                             /\ InThePast(fetcher'[p].batch, clock')
  BY RestingIs
<1> QED
  BY <1>1, <1>2, NobodyFetches

(* Only the stage, or what is loaded, changes. *)
LEMMA StageOnly ==
    ASSUME StoreInv, UNCHANGED <<clock, table, fetcher, shared>>,
           stage' = stage \/ stage' \notin {"down", "rollback"}
    PROVE  StoreInv'
  BY DEF StoreInv, StoreTypes

LEMMA StoreTickStep ==
    ASSUME StoreInv, StoreTick
    PROVE  StoreInv'
<1>1. clock \in Nat /\ clock' \in Nat /\ clock' = clock + 1
      /\ UNCHANGED <<table, fetcher, stage, shared>>
  BY DEF StoreInv, StoreTypes, StoreTick
<1>2. ASSUME NEW rows \in RowSets, InThePast(rows, clock) PROVE InThePast(rows, clock')
  <2> SUFFICES ASSUME NEW n \in DOMAIN rows PROVE OpenOf(n) <= clock + 1
    BY <1>1 DEF InThePast
  <2>1. n \in Nat /\ OpenOf(n) <= clock
    BY <1>2 DEF RowSets, InThePast
  <2>2. OpenOf(n) \in Nat
    BY <2>1, OpensInOrder
  <2> QED
    BY <1>1, <2>1, <2>2
<1>3. \A f \in FrameSet : InThePast(table'[f], clock')
  BY <1>1, <1>2 DEF StoreInv, StoreTypes
<1>4. ASSUME NEW p \in Fetching PROVE AtWork(fetcher'[p], table', shared', clock')
  <2>1. AtWork(fetcher[p], table, shared, clock) /\ InThePast(fetcher[p].batch, clock) /\ fetcher[p].batch \in RowSets
    BY FetcherIs
  <2>2. InThePast(fetcher[p].batch, clock')
    BY <1>2, <2>1
  <2> QED
    BY <1>1, <2>1, <2>2 DEF AtWork
<1>5. StoreTypes'
  BY <1>1 DEF StoreInv, StoreTypes
<1> QED
  BY <1>1, <1>3, <1>4, <1>5 DEF StoreInv

(* A fetcher without jobs gets some; others that download the same frames share them. *)
LEMMA JobsGiven ==
    ASSUME StoreInv, NEW p \in Fetching, NEW J \in Seq(Jobs),
           SetFetcher(p, [IdleFetcher EXCEPT !.pc = "next", !.jobs = J]), UNCHANGED <<clock, table>>,
           stage' \notin {"down", "rollback"}, shared \subseteq shared', shared' \subseteq FrameSet,
           \A i, j \in DOMAIN J : i < j /\ J[j].kind = "initial" => J[i].frame # J[j].frame,
           \A i \in DOMAIN J : J[i].kind = "range" => J[i].frame \in shared',
           \A i \in DOMAIN J : J[i].kind = "initial" => DOMAIN table[J[i].frame] = {},
           \A q \in Fetching : q # p => Downloads(J) \cap Downloads(fetcher[q].jobs) \subseteq shared'
    PROVE  StoreInv'
<1>1. PICK new : new = [IdleFetcher EXCEPT !.pc = "next", !.jobs = J]
  OBVIOUS
<1>2. new \in Fetchers /\ new.pc = "next" /\ new.jobs = J /\ DOMAIN new.batch = {}
  BY <1>1, IdleIs DEF Fetchers
<1>3. /\ fetcher' \in [Fetching -> Fetchers] /\ fetcher'[p] = new
      /\ \A q \in Fetching : q # p => fetcher'[q] = fetcher[q]
  BY <1>1, <1>2 DEF StoreInv, StoreTypes, SetFetcher
<1>4. AtWork(new, table', shared', clock')
  <2>1. ~Active(new) /\ InThePast(new.batch, clock')
    BY <1>2 DEF Active, InThePast
  <2>2. JobsInOrder(new, table', shared')
    BY <1>2, <2>1 DEF JobsInOrder, EmptyBefore
  <2> QED
    BY <1>2, <2>1, <2>2 DEF AtWork
<1>5. ASSUME NEW q \in Fetching, q # p PROVE AtWork(fetcher'[q], table', shared', clock')
  <2>1. AtWork(fetcher[q], table, shared, clock)
    BY FetcherIs
  <2>2. JobsInOrder(fetcher[q], table, shared')
    BY <2>1 DEF AtWork, JobsInOrder, EmptyBefore
  <2>3. AtWork(fetcher[q], table, shared', clock)
    BY <2>1, <2>2 DEF AtWork
  <2> QED
    BY <1>3, <1>5, <2>3
<1>6. ASSUME NEW q \in Fetching, NEW r \in Fetching, q # r PROVE Alone(fetcher'[q], fetcher'[r], shared')
  <2>1. CASE q = p
    BY <1>2, <1>3, <1>6, <2>1 DEF Alone
  <2>2. CASE r = p
    BY <1>2, <1>3, <1>6, <2>2 DEF Alone
  <2>3. CASE q # p /\ r # p
    <3>1. Alone(fetcher[q], fetcher[r], shared)
      BY <1>6 DEF StoreInv
    <3> QED
      BY <1>3, <2>3, <3>1 DEF Alone
  <2> QED
    BY <2>1, <2>2, <2>3
<1>7. StoreTypes'
  BY <1>3 DEF StoreInv, StoreTypes
<1>8. /\ \A f \in FrameSet : InThePast(table'[f], clock')
      /\ \A f \in FrameSet \ shared' : InOrder(table'[f])
  BY DEF StoreInv
<1> QED
  BY <1>3, <1>4, <1>5, <1>6, <1>7, <1>8 DEF StoreInv

(* The jobs of fetch: those of fetch_initial, and the update of the frame. *)
LEMMA FramesAre ==
    /\ Len(StoreFrames) \in Nat /\ DOMAIN StoreFrames = 1 .. Len(StoreFrames)
    /\ \A i \in DOMAIN StoreFrames : StoreFrames[i] \in FrameSet
    /\ \A i, j \in DOMAIN StoreFrames : i # j => StoreFrames[i] # StoreFrames[j]
  BY StoreAssumption DEF FrameSet

LEMMA InitialJobsAre ==
    /\ InitialJobs \in Seq(Jobs) /\ Len(InitialJobs) = Len(StoreFrames)
    /\ DOMAIN InitialJobs = 1 .. Len(StoreFrames)
    /\ \A i \in DOMAIN InitialJobs :
        /\ InitialJobs[i].kind \in {"known", "initial"} /\ InitialJobs[i].frame = StoreFrames[i]
        /\ InitialJobs[i].kind = "initial" => DOMAIN table[StoreFrames[i]] = {}
<1>1. \A f \in FrameSet : /\ InitialJob(f) \in Jobs /\ InitialJob(f).frame = f
                          /\ InitialJob(f).kind \in {"known", "initial"}
                          /\ InitialJob(f).kind = "initial" => DOMAIN table[f] = {}
  BY DEF InitialJob, FetchJob, Jobs
<1>2. InitialJobs = [i \in 1 .. Len(StoreFrames) |-> InitialJob(StoreFrames[i])]
  BY FramesAre DEF InitialJobs
<1>3. \A i \in 1 .. Len(StoreFrames) : InitialJob(StoreFrames[i]) \in Jobs
  BY <1>1, FramesAre
<1> HIDE DEF InitialJobs
<1>4. InitialJobs \in Seq(Jobs) /\ Len(InitialJobs) = Len(StoreFrames)
      /\ DOMAIN InitialJobs = 1 .. Len(StoreFrames)
  BY <1>2, <1>3, FramesAre
<1>5. ASSUME NEW i \in DOMAIN InitialJobs
      PROVE  /\ InitialJobs[i].kind \in {"known", "initial"} /\ InitialJobs[i].frame = StoreFrames[i]
             /\ InitialJobs[i].kind = "initial" => DOMAIN table[StoreFrames[i]] = {}
  <2>1. StoreFrames[i] \in FrameSet /\ InitialJobs[i] = InitialJob(StoreFrames[i])
    BY <1>2, <1>4, FramesAre
  <2> QED
    BY <1>1, <2>1
<1> QED
  BY <1>4, <1>5

LEMMA FetchJobsAre ==
    ASSUME NEW f \in FrameSet, NEW J, J = FetchJobs(f)
    PROVE  /\ J \in Seq(Jobs)
           /\ \A i, j \in DOMAIN J : i < j /\ J[j].kind = "initial" => J[i].frame # J[j].frame
           /\ \A i \in DOMAIN J : J[i].kind # "range" /\ J[i].frame \in FrameSet
           /\ \A i \in DOMAIN J : J[i].kind = "initial" => DOMAIN table[J[i].frame] = {}
<1> DEFINE I == InitialJobs
           L == Len(StoreFrames)
           u == UpdatesJob(f)
<1>1. /\ I \in Seq(Jobs) /\ Len(I) = L /\ DOMAIN I = 1 .. L /\ L \in Nat
      /\ \A i \in DOMAIN I : /\ I[i].kind \in {"known", "initial"} /\ I[i].frame = StoreFrames[i]
                             /\ I[i].kind = "initial" => DOMAIN table[StoreFrames[i]] = {}
  BY InitialJobsAre, FramesAre
<1>2. u \in Jobs /\ u.kind = "updates" /\ u.frame = f
  BY DEF UpdatesJob, FetchJob, Jobs
<1>3. J = I \o (IF RecentOnly THEN <<>> ELSE <<u>>)
  BY DEF FetchJobs
<1>4. \A i, j \in 1 .. L : i < j => StoreFrames[i] # StoreFrames[j]
  BY FramesAre
<1>5. \A i \in 1 .. L : StoreFrames[i] \in FrameSet
  BY FramesAre
<1> HIDE DEF I, L, u
<1>6. CASE RecentOnly
  <2>1. J = I
    BY <1>1, <1>3, <1>6
  <2>2. \A i, j \in DOMAIN I : i < j /\ I[j].kind = "initial" => I[i].frame # I[j].frame
    BY <1>1, <1>4
  <2>3. /\ \A i \in DOMAIN I : I[i].kind # "range" /\ I[i].frame \in FrameSet
        /\ \A i \in DOMAIN I : I[i].kind = "initial" => DOMAIN table[I[i].frame] = {}
    BY <1>1, <1>5
  <2> QED
    BY <1>1, <2>1, <2>2, <2>3
<1>7. CASE ~RecentOnly
  <2>1. J = Append(I, u)
    BY <1>1, <1>2, <1>3, <1>7
  <2>2. /\ J \in Seq(Jobs) /\ DOMAIN J = 1 .. L + 1 /\ J[L + 1] = u
        /\ \A i \in 1 .. L : J[i] = I[i]
    BY <1>1, <1>2, <2>1
  <2>3. \A i \in DOMAIN J : i \in 1 .. L \/ i = L + 1
    BY <1>1, <2>2
  <2>4. \A i \in DOMAIN J : J[i].kind # "range" /\ J[i].frame \in FrameSet
    BY <1>1, <1>2, <1>5, <2>2, <2>3
  <2>5. \A i \in DOMAIN J : J[i].kind = "initial" => i \in 1 .. L /\ J[i] = I[i]
    BY <1>2, <2>2, <2>3
  <2>6. \A i \in DOMAIN J : J[i].kind = "initial" => DOMAIN table[J[i].frame] = {}
    BY <1>1, <2>5
  <2>7. ASSUME NEW i \in DOMAIN J, NEW j \in DOMAIN J, i < j, J[j].kind = "initial"
        PROVE  J[i].frame # J[j].frame
    <3>1. j \in 1 .. L /\ i \in 1 .. L
      BY <1>1, <2>2, <2>5, <2>7
    <3>2. J[i].frame = StoreFrames[i] /\ J[j].frame = StoreFrames[j]
      BY <1>1, <2>2, <3>1
    <3> QED
      BY <1>4, <2>7, <3>1, <3>2
  <2> QED
    BY <2>2, <2>4, <2>6, <2>7
<1> QED
  BY <1>6, <1>7

LEMMA FetchFrameStep ==
    ASSUME StoreInv, NEW p \in Fetching, NEW f \in FrameSet, FetchFrame(p, f),
           UNCHANGED <<clock, table, stage>>, stage \notin {"down", "rollback"}
    PROVE  StoreInv'
<1> DEFINE J == FetchJobs(f)
<1>1. /\ J \in Seq(Jobs)
      /\ \A i, j \in DOMAIN J : i < j /\ J[j].kind = "initial" => J[i].frame # J[j].frame
      /\ \A i \in DOMAIN J : J[i].kind # "range" /\ J[i].frame \in FrameSet
      /\ \A i \in DOMAIN J : J[i].kind = "initial" => DOMAIN table[J[i].frame] = {}
  BY FetchJobsAre
<1>2. SetFetcher(p, [IdleFetcher EXCEPT !.pc = "next", !.jobs = J])
  BY DEF FetchFrame
<1>3. DOMAIN fetcher = Fetching /\ shared \subseteq FrameSet
  BY DEF StoreInv, StoreTypes
<1>4. shared' = shared \cup {g \in Downloads(J) : \E q \in Fetching \ {p} : g \in Downloads(fetcher[q].jobs)}
  BY <1>3 DEF FetchFrame
<1>5. Downloads(J) \subseteq FrameSet
  BY <1>1 DEF Downloads
<1> HIDE DEF J
<1>6. shared \subseteq shared' /\ shared' \subseteq FrameSet
      /\ \A q \in Fetching : q # p => Downloads(J) \cap Downloads(fetcher[q].jobs) \subseteq shared'
  BY <1>3, <1>4, <1>5
<1>7. \A i \in DOMAIN J : J[i].kind = "range" => J[i].frame \in shared'
  BY <1>1
<1> QED
  BY <1>1, <1>2, <1>6, <1>7, JobsGiven

-----------------------------------------------------------------------------
(* A finite set of numbers can be counted from the least on. *)
LEMMA Ranks ==
    ASSUME NEW G, G \subseteq Nat, IsFiniteSet(G), NEW i \in 1 .. Cardinality(G)
    PROVE  \E n \in G : Cardinality({m \in G : m < n}) = i - 1
<1> DEFINE Below(n) == {m \in G : m < n}
           S == {k \in Nat : k < Cardinality(G) => \E n \in G : Cardinality(Below(n)) = k}
<1>1. Cardinality(G) \in Nat
  BY FS_CardinalityType
<1>2. 0 \in S
  <2> SUFFICES ASSUME 0 < Cardinality(G) PROVE \E n \in G : Cardinality(Below(n)) = 0
    OBVIOUS
  <2>1. G # {}
    BY FS_EmptySet
  <2>2. PICK n \in G : \A k \in G : n <= k
    BY <2>1, LeastNumber
  <2>3. \A m \in G : ~ (m < n)
    BY <2>2
  <2>4. Below(n) = {}
    BY <2>3
  <2> QED
    BY <2>4, FS_EmptySet
<1>3. ASSUME NEW k \in Nat, k \in S, k + 1 < Cardinality(G)
      PROVE  \E n \in G : Cardinality(Below(n)) = k + 1
  <2>1. k < Cardinality(G)
    BY <1>1, <1>3
  <2>2. PICK n \in G : Cardinality(Below(n)) = k
    BY <1>3, <2>1
  <2>3. IsFiniteSet(Below(n)) /\ n \notin Below(n)
    BY FS_Subset
  <2>4. Cardinality(Below(n) \cup {n}) = k + 1
    BY <2>2, <2>3, FS_AddElement
  <2> DEFINE Above == {m \in G : m > n}
  <2>5. Above # {}
    <3> SUFFICES ASSUME Above = {} PROVE FALSE
      OBVIOUS
    <3>1. \A m \in G : m < n \/ m = n
      OBVIOUS
    <3>2. G = Below(n) \cup {n}
      BY <3>1
    <3> QED
      BY <1>1, <1>3, <2>4, <3>2
  <2>6. PICK m \in Above : \A j \in Above : m <= j
    BY <2>5, LeastNumber
  <2>7. \A j \in G : j < m <=> j < n \/ j = n
    <3>1. m \in G /\ n < m /\ \A j \in G : j > n => m <= j
      BY <2>6
    <3> QED
      BY <3>1
  <2>8. Below(m) = Below(n) \cup {n}
    BY <2>7
  <2> QED
    BY <2>4, <2>6, <2>8
<1> HIDE DEF Below
<1>4. \A k \in Nat : k \in S => k + 1 \in S
  BY <1>3
<1> HIDE DEF S
<1>5. Nat \subseteq S
  BY <1>2, <1>4, SetInduction
<1>6. i - 1 \in Nat /\ i - 1 < Cardinality(G)
  BY <1>1
<1>7. i - 1 \in S
  BY <1>5, <1>6
<1> QED
  BY <1>6, <1>7 DEF S, Below

(* The repairs of fix_gaps, of which there are none where rows are in order. *)
LEMMA GapJobsAre ==
    ASSUME clock \in Nat, NEW f \in FrameSet, table[f] \in RowSets, InThePast(table[f], clock),
           NEW J, J = GapJobs(f)
    PROVE  /\ J \in Seq(Jobs)
           /\ \A i \in DOMAIN J : J[i].kind = "range" /\ J[i].frame = f
           /\ InOrder(table[f]) => Downloads(J) = {}
<1> DEFINE rows == DOMAIN table[f]
           gaps == {n \in rows : n + 1 \notin rows /\ n # NewestRow(table[f])}
           Gap(i) == CHOOSE n \in gaps : Cardinality({m \in gaps : m < n}) = i - 1
           after(i) == {m \in rows : m > Gap(i)}
           job(i) == FetchJob("range", f, OpenOf(Gap(i) - 1), OpenOf(Min(after(i)) + 1))
<1>1. J = [i \in 1 .. Cardinality(gaps) |-> job(i)]
  BY DEF GapJobs
<1>2. rows \subseteq Nat
  BY DEF RowSets
<1>3. rows \subseteq 0 .. clock
  <2> SUFFICES ASSUME NEW n \in rows PROVE n <= clock
    BY <1>2
  <2>1. n \in Nat /\ OpenOf(n) <= clock
    BY <1>2 DEF InThePast
  <2>2. OpenOf(n) \in Nat /\ n <= OpenOf(n)
    BY <2>1, OpensInOrder
  <2> QED
    BY <2>1, <2>2
<1>4. IsFiniteSet(gaps) /\ gaps \subseteq Nat
  <2>1. IsFiniteSet(0 .. clock)
    BY FS_Interval
  <2> QED
    BY <1>2, <1>3, <2>1, FS_Subset
<1>5. ASSUME NEW n \in gaps PROVE IsNewest(table[f], NewestRow(table[f])) /\ n < NewestRow(table[f])
  <2>1. IsNewest(table[f], NewestRow(table[f]))
    BY RowsEnds
  <2> QED
    BY <1>2, <2>1 DEF IsNewest
<1>6. ASSUME NEW i \in 1 .. Cardinality(gaps) PROVE job(i) \in Jobs /\ job(i).kind = "range" /\ job(i).frame = f
  <2>1. \E n \in gaps : Cardinality({m \in gaps : m < n}) = i - 1
    BY <1>4, Ranks
  <2>2. Gap(i) \in gaps
    BY <2>1
  <2> DEFINE g == Gap(i)
             D == after(i)
  <2>3. g \in gaps /\ D = {m \in rows : m > g}
    BY <2>2
  <2> HIDE DEF g, D
  <2>4. D \subseteq Nat /\ D # {}
    <3>1. NewestRow(table[f]) \in rows /\ g < NewestRow(table[f])
      BY <1>5, <2>3 DEF IsNewest
    <3> QED
      BY <1>2, <2>3, <3>1
  <2>5. Min(D) \in Nat
    BY <2>4, SmallestOfSet
  <2>6. OpenOf(g - 1) \in Int /\ OpenOf(Min(D) + 1) \in Int
    <3>1. g \in Nat
      BY <1>2, <2>3
    <3> QED
      BY <2>5, <3>1, StoreAssumption DEF OpenOf
  <2>7. FetchJob("range", f, OpenOf(g - 1), OpenOf(Min(D) + 1)) \in Jobs
    BY <2>6 DEF FetchJob, Jobs
  <2> QED
    BY <2>7 DEF FetchJob, g, D
<1>7. ASSUME InOrder(table[f]) PROVE gaps = {}
  <2> SUFFICES ASSUME NEW n \in gaps PROVE FALSE
    OBVIOUS
  <2>1. n \in rows /\ n + 1 \notin rows /\ n < NewestRow(table[f]) /\ NewestRow(table[f]) \in rows
    BY <1>5 DEF IsNewest
  <2>2. n \in Nat /\ n + 1 \in Nat /\ n <= n + 1 /\ n + 1 <= NewestRow(table[f])
    BY <1>2, <2>1
  <2> QED
    BY <1>7, <2>1, <2>2 DEF InOrder, Gapless
<1>8. Cardinality(gaps) \in Nat /\ (gaps = {} => Cardinality(gaps) = 0)
  BY <1>4, FS_CardinalityType, FS_EmptySet
<1> HIDE DEF gaps, job
<1>9. J \in Seq(Jobs) /\ \A i \in DOMAIN J : J[i].kind = "range" /\ J[i].frame = f
  BY <1>1, <1>6, <1>8
<1>10. InOrder(table[f]) => DOMAIN J = {}
  BY <1>1, <1>7, <1>8
<1>11. DOMAIN J = {} => Downloads(J) = {}
  BY DEF Downloads
<1> QED
  BY <1>9, <1>10, <1>11

LEMMA NoneFetches ==
    ASSUME StoreInv, stage \in {"down", "rollback"}, NEW p \in Fetching
    PROVE  /\ fetcher[p].jobs = <<>> /\ Downloads(fetcher[p].jobs) = {} /\ ~Active(fetcher[p])
           /\ InThePast(fetcher[p].batch, clock)
<1>1. fetcher[p].jobs = <<>>
  BY DEF StoreInv
<1>2. JobsInOrder(fetcher[p], table, shared) /\ InThePast(fetcher[p].batch, clock)
  BY FetcherIs
<1> QED
  BY <1>1, <1>2, NoJobsDownload DEF JobsInOrder

LEMMA RunCommandStep ==
    ASSUME StoreInv, NEW J \in Seq(Jobs), RunCommand(J),
           \A i, j \in DOMAIN J : i < j /\ J[j].kind = "initial" => J[i].frame # J[j].frame,
           \A i \in DOMAIN J : J[i].kind = "range" => J[i].frame \in shared,
           \A i \in DOMAIN J : J[i].kind = "initial" => DOMAIN table[J[i].frame] = {}
    PROVE  StoreInv'
<1>1. /\ SetFetcher(Loader, [IdleFetcher EXCEPT !.pc = "next", !.jobs = J])
      /\ UNCHANGED <<clock, table, shared>> /\ stage = "down" /\ stage' = "command"
  BY DEF RunCommand
<1>2. Loader \in Fetching /\ shared \subseteq shared' /\ shared' \subseteq FrameSet
  BY <1>1 DEF Fetching, StoreInv, StoreTypes
<1>3. stage' \notin {"down", "rollback"}
  BY <1>1
<1>4. \A q \in Fetching : q # Loader => Downloads(J) \cap Downloads(fetcher[q].jobs) \subseteq shared'
  BY <1>1, NoneFetches
<1> QED
  BY <1>1, <1>2, <1>3, <1>4, JobsGiven

LEMMA FixGapsStep ==
    ASSUME StoreInv, NEW f \in FrameSet, FixGaps(f)
    PROVE  StoreInv'
<1> DEFINE J == GapJobs(f)
<1>1. clock \in Nat /\ table[f] \in RowSets /\ InThePast(table[f], clock)
  BY DEF StoreInv, StoreTypes
<1>2. /\ J \in Seq(Jobs) /\ \A i \in DOMAIN J : J[i].kind = "range" /\ J[i].frame = f
      /\ InOrder(table[f]) => Downloads(J) = {}
  BY <1>1, GapJobsAre
<1>3. RunCommand(J)
  BY DEF FixGaps
<1>4. Downloads(J) # {}
  BY <1>3 DEF RunCommand
<1>5. f \in shared
  BY <1>2, <1>4 DEF StoreInv
<1> HIDE DEF J
<1> QED
  BY <1>2, <1>3, <1>5, RunCommandStep

LEMMA FetchInitialStep ==
    ASSUME StoreInv, FetchInitial
    PROVE  StoreInv'
<1> DEFINE J == InitialJobs
<1>1. /\ J \in Seq(Jobs) /\ DOMAIN J = 1 .. Len(StoreFrames)
      /\ \A i \in DOMAIN J : /\ J[i].kind \in {"known", "initial"} /\ J[i].frame = StoreFrames[i]
                             /\ J[i].kind = "initial" => DOMAIN table[StoreFrames[i]] = {}
  BY InitialJobsAre
<1>2. RunCommand(J)
  BY DEF FetchInitial
<1> HIDE DEF J
<1>3. \A i, j \in DOMAIN J : i < j => J[i].frame # J[j].frame
  BY <1>1, FramesAre
<1>4. /\ \A i \in DOMAIN J : J[i].kind = "range" => J[i].frame \in shared
      /\ \A i \in DOMAIN J : J[i].kind = "initial" => DOMAIN table[J[i].frame] = {}
  BY <1>1
<1> QED
  BY <1>1, <1>2, <1>3, <1>4, RunCommandStep

LEMMA FetchUpdatesStep ==
    ASSUME StoreInv, FetchUpdates
    PROVE  StoreInv'
<1> DEFINE J == [i \in DOMAIN StoreFrames |-> UpdatesJob(StoreFrames[i])]
<1>1. \A f \in FrameSet : UpdatesJob(f) \in Jobs /\ UpdatesJob(f).kind = "updates"
  BY DEF UpdatesJob, FetchJob, Jobs
<1>2. J = [i \in 1 .. Len(StoreFrames) |-> UpdatesJob(StoreFrames[i])] /\ RunCommand(J)
  BY FramesAre DEF FetchUpdates
<1>3. \A i \in 1 .. Len(StoreFrames) : StoreFrames[i] \in FrameSet
  BY FramesAre
<1> HIDE DEF J
<1>4. J \in Seq(Jobs) /\ \A i \in DOMAIN J : J[i].kind = "updates"
  BY <1>1, <1>2, <1>3, FramesAre
<1> QED
  BY <1>2, <1>4, RunCommandStep

(* What is left of rows in order when the last of them are deleted. *)
LEMMA RowsKept ==
    ASSUME NEW rows \in RowSets, NEW S, NEW up, up = KeepRows(rows, S)
    PROVE  /\ up \in RowSets /\ \A c : InThePast(rows, c) => InThePast(up, c)
           /\ (\A m, n \in DOMAIN rows : m < n /\ n \in S => m \in S) =>
                    (InOrder(rows) => InOrder(up))
<1>1. PICK D \in SUBSET Nat : rows \in [D -> [ticks : Int, final : BOOLEAN]]
  BY DEF RowSets
<1>2. up = [n \in D \cap S |-> rows[n]]
  BY <1>1 DEF KeepRows
<1>3. DOMAIN up = D \cap S /\ DOMAIN rows = D /\ \A n \in DOMAIN up : up[n] = rows[n]
  BY <1>1, <1>2
<1>4. up \in RowSets
  <2>1. up \in [D \cap S -> [ticks : Int, final : BOOLEAN]] /\ D \cap S \in SUBSET Nat
    BY <1>1, <1>2
  <2> QED
    BY <2>1 DEF RowSets
<1>5. \A c : InThePast(rows, c) => InThePast(up, c)
  BY <1>3 DEF InThePast
<1>6. ASSUME \A m, n \in DOMAIN rows : m < n /\ n \in S => m \in S, InOrder(rows)
      PROVE  InOrder(up)
  <2>1. WholeBelow(up)
    BY <1>3, <1>6 DEF InOrder, WholeBelow
  <2>2. ASSUME NEW a \in D \cap S, NEW b \in D \cap S, NEW n \in Nat, a <= n, n <= b
        PROVE  n \in D \cap S
    <3>1. n \in D
      BY <1>3, <1>6, <2>2 DEF InOrder, Gapless
    <3>2. n < b \/ n = b
      BY <2>2
    <3> QED
      BY <1>3, <1>6, <3>1, <3>2
  <2>3. Gapless(up)
    BY <1>3, <2>2 DEF Gapless
  <2> QED
    BY <2>1, <2>3 DEF InOrder
<1> QED
  BY <1>4, <1>5, <1>6

LEMMA RollbackCoinStep ==
    ASSUME StoreInv, NEW fromMostRecent \in BOOLEAN, RollbackCoin(fromMostRecent)
    PROVE  StoreInv'
<1> DEFINE roll(p) == [IdleFetcher EXCEPT !.pc = IF p = Loader THEN "done" ELSE "roll", !.full = fromMostRecent]
<1>1. UNCHANGED <<clock, table, shared>> /\ fetcher' = [p \in Fetching |-> roll(p)]
  BY DEF RollbackCoin, Fetching
<1>2. ASSUME NEW p \in Fetching
      PROVE  /\ roll(p) \in Fetchers /\ roll(p).jobs = <<>> /\ ~Active(roll(p)) /\ InThePast(roll(p).batch, clock)
  <2>1. PICK pc \in {"done", "roll"} : pc = IF p = Loader THEN "done" ELSE "roll"
    OBVIOUS
  <2>2. PICK x : x = [IdleFetcher EXCEPT !.pc = pc, !.full = fromMostRecent]
    OBVIOUS
  <2>3. x \in Fetchers /\ x.jobs = <<>> /\ x.pc = pc /\ DOMAIN x.batch = {}
    BY <2>2, IdleIs DEF Fetchers
  <2>4. ~Active(x) /\ InThePast(x.batch, clock)
    BY <2>3 DEF Active, InThePast
  <2> QED
    BY <2>1, <2>2, <2>3, <2>4
<1> HIDE DEF roll
<1>3. /\ fetcher' \in [Fetching -> Fetchers]
      /\ \A p \in Fetching : /\ fetcher'[p].jobs = <<>> /\ ~Active(fetcher'[p])
                             /\ InThePast(fetcher'[p].batch, clock')
  BY <1>1, <1>2
<1>4. /\ clock' \in Nat /\ shared' \subseteq FrameSet /\ table' \in [FrameSet -> RowSets]
      /\ \A f \in FrameSet : InThePast(table'[f], clock')
      /\ \A f \in FrameSet \ shared' : InOrder(table'[f])
  BY <1>1 DEF StoreInv, StoreTypes
<1> QED
  BY <1>3, <1>4, NobodyFetches

LEMMA ThreadRollsBackStep ==
    ASSUME StoreInv, NEW f \in FrameSet, ThreadRollsBack(f)
    PROVE  StoreInv'
<1> DEFINE opens == UNION {DOMAIN table[g] : g \in FrameSet}
           fromMostRecent == fetcher[f].full
           start == IF fromMostRecent THEN OpenOf(Max(opens)) ELSE clock
           S == {n \in opens : OpenOf(n) <= start - CandleTicks}
<1>1. /\ stage = "rollback" /\ UNCHANGED <<clock, stage, shared>> /\ f \in Fetching
      /\ table' = [g \in FrameSet |-> KeepRows(table[g], S)]
      /\ fetcher' = [fetcher EXCEPT ![f] = [fetcher[f] EXCEPT !.pc = "done"]]
  BY DEF ThreadRollsBack, RolledBack, SetFetcher, Fetching
<1>2. clock \in Nat /\ \A g \in FrameSet : table[g] \in RowSets /\ InThePast(table[g], clock)
  BY DEF StoreInv, StoreTypes
<1>3. opens \subseteq Nat /\ \A n \in opens : OpenOf(n) <= clock /\ n <= clock
  <2> SUFFICES ASSUME NEW g \in FrameSet, NEW n \in DOMAIN table[g]
               PROVE  n \in Nat /\ OpenOf(n) <= clock /\ n <= clock
    OBVIOUS
  <2>1. n \in Nat /\ OpenOf(n) <= clock
    BY <1>2 DEF RowSets, InThePast
  <2>2. OpenOf(n) \in Nat /\ n <= OpenOf(n)
    BY <2>1, OpensInOrder
  <2> QED
    BY <1>2, <2>1, <2>2
<1>4. start \in Int
  <2>1. CASE opens # {}
    <3>1. Max(opens) \in Nat
      BY <1>2, <1>3, <2>1, LargestOfSet
    <3>2. OpenOf(Max(opens)) \in Nat
      BY <3>1, OpensInOrder
    <3> QED
      BY <1>2, <3>2
  <2>2. CASE ~fromMostRecent
    BY <1>2, <2>2
  <2>3. fromMostRecent => opens # {}
    <3>1. fromMostRecent => \E g \in FrameSet : DOMAIN table[g] # {}
      BY DEF ThreadRollsBack
    <3> QED BY <3>1
  <2> QED
    BY <2>1, <2>2, <2>3
<1> HIDE DEF start
<1>5. ASSUME NEW m \in opens, NEW n \in opens, m < n, n \in S PROVE m \in S
  <2>1. OpenOf(m) \in Nat /\ OpenOf(n) \in Nat /\ OpenOf(m) + CandleTicks <= OpenOf(n)
    BY <1>3, <1>5, OpensInOrder
  <2>2. OpenOf(n) <= start - CandleTicks
    BY <1>5
  <2>3. OpenOf(m) <= start - CandleTicks
    BY <1>4, <2>1, <2>2, StoreAssumption
  <2> QED
    BY <2>3
<1>6. ASSUME NEW g \in FrameSet
      PROVE  /\ table'[g] \in RowSets /\ InThePast(table'[g], clock')
             /\ g \notin shared' => InOrder(table'[g])
  <2>1. table'[g] = KeepRows(table[g], S)
    BY <1>1
  <2>2. \A m, n \in DOMAIN table[g] : m < n /\ n \in S => m \in S
    BY <1>5
  <2> HIDE DEF S
  <2>3. PICK up : up = KeepRows(table[g], S)
    OBVIOUS
  <2>4. /\ up \in RowSets /\ \A c : InThePast(table[g], c) => InThePast(up, c)
        /\ InOrder(table[g]) => InOrder(up)
    BY <1>2, <2>2, <2>3, RowsKept
  <2>5. g \notin shared => InOrder(table[g])
    BY DEF StoreInv
  <2> QED
    BY <1>1, <1>2, <2>1, <2>3, <2>4, <2>5
<1> HIDE DEF S
<1>7. table' \in [FrameSet -> RowSets]
  BY <1>1, <1>6
<1>8. \A p \in Fetching : /\ fetcher[p].jobs = <<>> /\ ~Active(fetcher[p])
                          /\ InThePast(fetcher[p].batch, clock) /\ fetcher[p] \in Fetchers
  BY <1>1, NoneFetches, FetcherIs
<1>9. PICK new : new = [fetcher[f] EXCEPT !.pc = "done"]
  OBVIOUS
<1>10. new \in Fetchers /\ new.jobs = <<>> /\ new.pc = "done" /\ new.batch = fetcher[f].batch
  BY <1>1, <1>8, <1>9 DEF Fetchers
<1>11. ~Active(new)
  BY <1>10 DEF Active
<1>12. /\ fetcher' \in [Fetching -> Fetchers]
       /\ \A p \in Fetching : fetcher'[p] = IF p = f THEN new ELSE fetcher[p]
  BY <1>1, <1>9, <1>10 DEF StoreInv, StoreTypes
<1>13. \A p \in Fetching : /\ fetcher'[p].jobs = <<>> /\ ~Active(fetcher'[p])
                           /\ InThePast(fetcher'[p].batch, clock')
  BY <1>1, <1>8, <1>10, <1>11, <1>12
<1>14. clock' \in Nat /\ shared' \subseteq FrameSet
  BY <1>1 DEF StoreInv, StoreTypes
<1> QED
  BY <1>6, <1>7, <1>12, <1>13, <1>14, NobodyFetches

LEMMA RollbackFailsStep ==
    ASSUME StoreInv, NEW f \in FrameSet, RollbackFails(f)
    PROVE  StoreInv'
<1>1. PICK pc \in {"failed", "done"} : pc = IF fetcher[f].full THEN "failed" ELSE "done"
  OBVIOUS
<1>2. SetFetcher(f, [IdleFetcher EXCEPT !.pc = pc]) /\ UNCHANGED <<clock, table, stage, shared>>
  BY <1>1 DEF RollbackFails
<1>3. f \in Fetching
  BY DEF Fetching
<1> QED
  BY <1>2, <1>3, FetcherStops

LEMMA ResetFramesStep ==
    ASSUME StoreInv, NEW F \in SUBSET FrameSet, ResetFrames(F)
    PROVE  StoreInv'
<1>1. /\ stage = "down" /\ UNCHANGED <<clock, fetcher, stage>> /\ shared' = shared \ F
      /\ table' = [f \in FrameSet |-> IF f \in F THEN NoRows ELSE table[f]]
  BY DEF ResetFrames
<1>2. InOrder(NoRows) /\ InThePast(NoRows, clock)
  BY IdleIs DEF InOrder, Gapless, WholeBelow, InThePast
<1>3. /\ table' \in [FrameSet -> RowSets] /\ \A f \in FrameSet : InThePast(table'[f], clock')
      /\ \A f \in FrameSet \ shared' : InOrder(table'[f])
  BY <1>1, <1>2, IdleIs DEF StoreInv, StoreTypes
<1>4. clock' \in Nat /\ shared' \subseteq FrameSet /\ fetcher' \in [Fetching -> Fetchers]
  BY <1>1 DEF StoreInv, StoreTypes
<1>5. \A p \in Fetching : /\ fetcher'[p].jobs = <<>> /\ ~Active(fetcher'[p])
                          /\ InThePast(fetcher'[p].batch, clock')
  BY <1>1, NoneFetches
<1> QED
  BY <1>3, <1>4, <1>5, NobodyFetches

LEMMA StoreInvInit == StoreInit => StoreInv
<1> SUFFICES ASSUME StoreInit PROVE StoreInv
  OBVIOUS
<1>1. PICK known \in SUBSET FrameSet :
        table = [f \in FrameSet |-> IF f \in known THEN [n \in 0 .. Rows0 - 1 |-> WholeRow] ELSE NoRows]
  BY DEF StoreInit
<1> DEFINE some == [n \in 0 .. Rows0 - 1 |-> WholeRow]
<1>2. some \in RowSets
  <2>1. WholeRow \in [ticks : Int, final : BOOLEAN]
    BY StoreAssumption DEF WholeRow
  <2>2. some \in [0 .. Rows0 - 1 -> [ticks : Int, final : BOOLEAN]] /\ 0 .. Rows0 - 1 \in SUBSET Nat
    BY <2>1, StoreAssumption
  <2> QED
    BY <2>2 DEF RowSets
<1>3. clock = OpenOf(Rows0) /\ Rows0 \in Nat
  BY StoreAssumption DEF StoreInit, OpenOf
<1>4. clock \in Nat
  BY <1>3, OpensInOrder
<1>5. InThePast(some, clock)
  <2> SUFFICES ASSUME NEW n \in 0 .. Rows0 - 1 PROVE OpenOf(n) <= clock
    BY DEF InThePast
  <2>1. n \in Nat /\ n < Rows0
    BY <1>3
  <2>2. OpenOf(n) \in Nat /\ OpenOf(Rows0) \in Nat /\ OpenOf(n) + CandleTicks <= OpenOf(Rows0)
    BY <1>3, <2>1, OpensInOrder
  <2> QED
    BY <1>3, <2>2, StoreAssumption
<1>6. InOrder(some)
  <2>1. Gapless(some)
    BY StoreAssumption DEF Gapless
  <2>2. WholeBelow(some)
    BY DEF WholeBelow
  <2> QED
    BY <2>1, <2>2 DEF InOrder
<1>7. NoRows \in RowSets /\ InOrder(NoRows) /\ InThePast(NoRows, clock)
  BY IdleIs DEF InOrder, Gapless, WholeBelow, InThePast
<1> HIDE DEF some
<1>8. \A f \in FrameSet : table[f] = some \/ table[f] = NoRows
  BY <1>1 DEF some
<1>9. table \in [FrameSet -> RowSets]
  BY <1>1, <1>2, <1>7 DEF some
<1>10. /\ \A f \in FrameSet : InThePast(table[f], clock)
       /\ \A f \in FrameSet \ shared : InOrder(table[f])
  BY <1>5, <1>6, <1>7, <1>8
<1>11. fetcher = Resting /\ shared = {}
  BY DEF StoreInit
<1>12. StoreTypes
  BY <1>4, <1>9, <1>11, RestingIs DEF StoreTypes
<1>13. \A p \in Fetching : fetcher[p].jobs = <<>> /\ AtWork(fetcher[p], table, shared, clock)
  BY <1>11, RestingIs, JoblessIsAtWork
<1>14. \A p, q \in Fetching : Alone(fetcher[p], fetcher[q], shared)
  BY <1>13, NoJobsDownload DEF Alone
<1> QED
  BY <1>10, <1>12, <1>13, <1>14 DEF StoreInv

LEMMA NextFrameIs ==
    ASSUME Remaining # {}
    PROVE  /\ NextFrame \in FrameSet /\ loaded[NextFrame] = NotLoaded
<1>1. Remaining \subseteq Nat
  BY FramesAre DEF Remaining
<1>2. Min(Remaining) \in Remaining
  BY <1>1, SmallestOfSet
<1> QED
  BY <1>2, FramesAre DEF Remaining, NextFrame

LEMMA StoreInvNext == StoreInv /\ [StoreNext]_storeVars => StoreInv'
<1> SUFFICES ASSUME StoreInv, [StoreNext]_storeVars PROVE StoreInv'
  OBVIOUS
<1>1. ASSUME NEW p \in Fetching,
             \/ BeginJob(p) \/ AnswerRequest(p) \/ RequestFails(p)
             \/ MarkNewest(p) \/ StoreRow(p) \/ FinishJobs(p)
      PROVE  StoreInv'
  <2>1. CASE RequestFails(p)
    BY <2>1, FetcherStops DEF RequestFails
  <2>2. CASE FinishJobs(p)
    BY <2>2, FetcherStops DEF FinishJobs
  <2> QED
    BY <1>1, <2>1, <2>2, BeginJobStep, AnswerRequestStep, MarkNewestStep, StoreRowStep
<1>2. ASSUME NEW f \in FrameSet, ThreadFetches(f) \/ FixGaps(f) \/ ThreadRollsBack(f) \/ RollbackFails(f)
      PROVE  StoreInv'
  <2>1. CASE ThreadFetches(f)
    <3>1. f \in Fetching /\ FetchFrame(f, f) /\ UNCHANGED <<clock, table, stage>> /\ stage = "updating"
      BY <2>1 DEF ThreadFetches, Fetching
    <3>2. stage \notin {"down", "rollback"}
      BY <3>1
    <3> QED
      BY <3>1, <3>2, FetchFrameStep
  <2>2. CASE RollbackFails(f)
    BY <2>2, RollbackFailsStep
  <2> QED
    BY <1>2, <2>1, <2>2, FixGapsStep, ThreadRollsBackStep
<1>3. CASE WorkerFetches
  <2>1. Loader \in Fetching /\ NextFrame \in FrameSet /\ stage = "loading"
        /\ FetchFrame(Loader, NextFrame) /\ UNCHANGED <<clock, table, stage>>
    BY <1>3, NextFrameIs DEF WorkerFetches, Fetching
  <2>2. stage \notin {"down", "rollback"}
    BY <2>1
  <2>3. PICK f \in FrameSet : f = NextFrame
    BY <2>1
  <2> QED
    BY <2>1, <2>2, <2>3, FetchFrameStep
<1>4. CASE StartWorker \/ GoLive \/ SkippedFramePanics
  BY <1>4, StageOnly DEF StartWorker, GoLive, SkippedFramePanics
<1>5. CASE JoinThreads \/ LoadFrame \/ WorkerFails \/ StopProgram \/ CommandEnds
  BY <1>5, FetchersRest DEF JoinThreads, LoadFrame, WorkerFails, StopProgram, CommandEnds, Forgotten
<1>6. ASSUME NEW recent \in BOOLEAN, RollbackCoin(recent) PROVE StoreInv'
  BY <1>6, RollbackCoinStep
<1>7. ASSUME NEW F \in SUBSET FrameSet, ResetFrames(F) PROVE StoreInv'
  BY <1>7, ResetFramesStep
<1>8. CASE UNCHANGED storeVars
  BY <1>8, StageOnly DEF storeVars
<1>9. \/ \E p \in Fetching : \/ BeginJob(p) \/ AnswerRequest(p) \/ RequestFails(p)
                             \/ MarkNewest(p) \/ StoreRow(p) \/ FinishJobs(p)
      \/ \E f \in FrameSet : ThreadFetches(f) \/ FixGaps(f) \/ ThreadRollsBack(f) \/ RollbackFails(f)
      \/ StoreTick \/ WorkerFetches \/ FetchInitial \/ FetchUpdates
      \/ StartWorker \/ GoLive \/ SkippedFramePanics
      \/ JoinThreads \/ LoadFrame \/ WorkerFails \/ StopProgram \/ CommandEnds
      \/ \E recent \in BOOLEAN : RollbackCoin(recent)
      \/ \E F \in SUBSET FrameSet : ResetFrames(F)
      \/ UNCHANGED storeVars
  BY DEF StoreNext, Fetching
<1> QED
  BY <1>1, <1>2, <1>3, <1>4, <1>5, <1>6, <1>7, <1>8, <1>9, StoreTickStep, FetchInitialStep, FetchUpdatesStep

LEMMA StoreInvSound == StoreInv => RowsAreSound
<1> SUFFICES ASSUME StoreInv, NEW f \in FrameSet \ shared
             PROVE  /\ DOMAIN table[f] = {n \in 0 .. clock : \E a, b \in DOMAIN table[f] : a <= n /\ n <= b}
                    /\ \A n \in DOMAIN table[f] : table[f][n] = WholeRow \/ n = NewestRow(table[f])
                    /\ TableState(f) = "Actual" =>
                        \A n \in 0 .. clock :
                            OldestRow(table[f]) <= n /\ OpenOf(n) <= clock => n \in DOMAIN table[f]
  BY DEF RowsAreSound
<1> DEFINE rows == table[f]
           D == DOMAIN rows
<1>1. rows \in RowSets /\ InThePast(rows, clock) /\ clock \in Nat /\ Gapless(rows) /\ WholeBelow(rows)
  BY DEF StoreInv, StoreTypes, InOrder
<1>2. D \subseteq Nat
  BY <1>1 DEF RowSets
<1>3. \A n \in D : OpenOf(n) <= clock /\ n \in 0 .. clock
  <2> SUFFICES ASSUME NEW n \in D PROVE OpenOf(n) <= clock /\ n <= clock
    BY <1>2
  <2>1. n \in Nat /\ OpenOf(n) <= clock
    BY <1>1, <1>2 DEF InThePast
  <2>2. OpenOf(n) \in Nat /\ n <= OpenOf(n)
    BY <2>1, OpensInOrder
  <2> QED
    BY <1>1, <2>1, <2>2
<1>4. D # {} => IsNewest(rows, NewestRow(rows)) /\ IsOldest(rows, OldestRow(rows))
  BY <1>1, RowsEnds
<1>5. TableState(f) = "Actual" => D # {} /\ clock - OpenOf(NewestRow(rows)) < CandleTicks
  BY DEF TableState
<1> HIDE DEF rows
<1>6. D = {n \in 0 .. clock : \E a, b \in D : a <= n /\ n <= b}
  <2>1. ASSUME NEW n \in D PROVE \E a, b \in D : a <= n /\ n <= b
    BY <1>2
  <2>2. ASSUME NEW n \in 0 .. clock, NEW a \in D, NEW b \in D, a <= n, n <= b PROVE n \in D
    BY <1>1, <2>2 DEF Gapless
  <2> HIDE DEF D
  <2> QED
    BY <1>3, <2>1, <2>2
<1>7. ASSUME NEW n \in D, n # NewestRow(rows) PROVE rows[n] = WholeRow
  <2>1. NewestRow(rows) \in D /\ n <= NewestRow(rows)
    BY <1>4 DEF IsNewest
  <2>2. n < NewestRow(rows)
    BY <1>2, <1>7, <2>1
  <2> QED
    BY <1>1, <2>1, <2>2 DEF WholeBelow
<1>8. ASSUME TableState(f) = "Actual", NEW n \in 0 .. clock, OldestRow(rows) <= n, OpenOf(n) <= clock
      PROVE  n \in D
  <2>1. NewestRow(rows) \in D /\ OldestRow(rows) \in D
    BY <1>4, <1>5, <1>8 DEF IsNewest, IsOldest
  <2> DEFINE k == NewestRow(rows)
  <2>2. k \in Nat /\ n \in Nat /\ clock - OpenOf(k) < CandleTicks
    BY <1>1, <1>2, <1>5, <1>8, <2>1
  <2> HIDE DEF k
  <2>3. /\ OpenOf(k) \in Nat /\ OpenOf(n) \in Nat
        /\ k < n => OpenOf(k) + CandleTicks <= OpenOf(n)
    BY <2>2, OpensInOrder
  <2>4. n <= k
    BY <1>1, <1>8, <2>2, <2>3, StoreAssumption
  <2> QED
    BY <1>1, <1>8, <2>1, <2>2, <2>4 DEF Gapless, k
<1>9. DOMAIN table[f] = {n \in 0 .. clock : \E a, b \in DOMAIN table[f] : a <= n /\ n <= b}
  BY <1>6, Zenon DEF rows
<1>10. \A n \in DOMAIN table[f] : table[f][n] = WholeRow \/ n = NewestRow(table[f])
  BY <1>7 DEF rows
<1>11. TableState(f) = "Actual" =>
        \A n \in 0 .. clock : OldestRow(table[f]) <= n /\ OpenOf(n) <= clock => n \in DOMAIN table[f]
  BY <1>8 DEF rows
<1> QED
  BY <1>9, <1>10, <1>11

LEMMA StoreKept == StoreSpec => []StoreInv
  BY StoreInvInit, StoreInvNext, PTL DEF StoreSpec

(* However the downloads of the threads, the worker and the commands are
   interleaved, stopped or fail, the rows of a frame that no two of them have
   downloaded at once have no gap, and all but the newest are whole.        *)
THEOREM RowsStaySound == StoreSpec => []RowsAreSound
  BY StoreKept, StoreInvSound, PTL

-----------------------------------------------------------------------------
(* The worker loads a frame after an update of it that went to its end.  Its
   fetcher w ends with the update of frame f, which has these rows; t is when
   the worker began.                                                        *)
Reaches(rows, t) == \E n \in DOMAIN rows : OpenOf(n) + CandleTicks > t

Updates(w, f, rows, t) ==
    /\ w.jobs # <<>> => w.jobs[Len(w.jobs)].kind = "updates" /\ w.jobs[Len(w.jobs)].frame = f
    /\ Len(w.jobs) = 1 /\ w.pc = "request" =>
        /\ \E n \in DOMAIN rows : w.start = OpenOf(n)
        /\ w.start <= w.end /\ t <= w.end
    /\ Len(w.jobs) = 1 /\ w.pc \in {"mark", "store"} =>
        /\ \E n \in Nat : IsNewest(w.batch, n) /\ w.start = OpenOf(n)
        /\ w.start <= w.end /\ t <= w.end
        /\ w.full \/ w.start + CandleTicks > t
    /\ w.pc = "done" => w.jobs = <<>>
    /\ w.jobs = <<>> /\ w.pc \in {"next", "done"} => Reaches(rows, t)

LoadsCurrent ==
    stage = "loading" /\ ~RecentOnly /\ fetcher[Loader].pc # "idle" =>
        /\ Remaining # {} /\ asOf[NextFrame] <= clock
        /\ Updates(fetcher[Loader], NextFrame, table[NextFrame], asOf[NextFrame])

Ways == [how : {"not yet", "skipped", "loaded"}, rows : RowSets]

LoadedInv ==
    /\ LoadsCurrent
    /\ loaded \in [FrameSet -> Ways] /\ asOf \in [FrameSet -> Nat]
    /\ \A f \in FrameSet :
        /\ InThePast(loaded[f].rows, clock)
        /\ ~RecentOnly /\ loaded[f].how = "loaded" => Reaches(loaded[f].rows, asOf[f])

LEMMA UpdatesGrow ==
    ASSUME NEW w, NEW f, NEW rows, NEW t, Updates(w, f, rows, t), NEW up, DOMAIN rows \subseteq DOMAIN up
    PROVE  Updates(w, f, up, t)
  BY DEF Updates, Reaches

(* The last job is that of the list without the first, if there is another. *)
LEMMA LastJob ==
    ASSUME NEW J \in Seq(Jobs), J # <<>>
    PROVE  /\ Len(J) = 1 => Tail(J) = <<>> /\ J[Len(J)] = J[1]
           /\ Len(J) # 1 => Tail(J) # <<>> /\ Tail(J)[Len(Tail(J))] = J[Len(J)]
<1>1. /\ Len(J) \in Nat \ {0} /\ Tail(J) \in Seq(Jobs) /\ Len(Tail(J)) = Len(J) - 1
      /\ DOMAIN Tail(J) = 1 .. Len(J) - 1
      /\ \A i \in DOMAIN Tail(J) : Tail(J)[i] = J[i + 1]
  BY TailJobs
<1>2. CASE Len(J) = 1
  BY <1>1, <1>2
<1>3. CASE Len(J) # 1
  <2>1. Len(J) - 1 \in DOMAIN Tail(J)
    BY <1>1, <1>3
  <2>2. Tail(J)[Len(J) - 1] = J[Len(J) - 1 + 1] /\ Len(J) - 1 + 1 = Len(J)
    BY <1>1, <2>1
  <2> QED
    BY <1>1, <1>3, <2>1, <2>2
<1> QED
  BY <1>2, <1>3

(* The fetcher passes to the next job, when another is left. *)
LEMMA UpdatesNext ==
    ASSUME NEW w, w.jobs \in Seq(Jobs), w.jobs # <<>>, Len(w.jobs) # 1, NEW new,
           new.jobs = Tail(w.jobs), new.pc = "next",
           NEW f, NEW rows, NEW up, NEW t, Updates(w, f, rows, t)
    PROVE  Updates(new, f, up, t)
<1>1. Tail(w.jobs) # <<>> /\ Tail(w.jobs)[Len(Tail(w.jobs))] = w.jobs[Len(w.jobs)]
  BY LastJob
<1> QED
  BY <1>1 DEF Updates

LEMMA BeginUpdates ==
    ASSUME StoreInv, NEW p \in Fetching, BeginJob(p), NEW f \in FrameSet, NEW t \in Nat, t <= clock,
           Updates(fetcher[p], f, table[f], t)
    PROVE  Updates(fetcher'[p], f, table'[f], t)
<1> DEFINE x == fetcher[p]
           job == Head(x.jobs)
           asks == [x EXCEPT !.pc = "request"]
<1>1. /\ x \in Fetchers /\ x.jobs \in Seq(Jobs) /\ fetcher \in [Fetching -> Fetchers]
      /\ clock \in Nat /\ \A g \in FrameSet : table[g] \in RowSets /\ InThePast(table[g], clock)
  BY FetcherIs DEF StoreInv, StoreTypes
<1>2. x.pc = "next" /\ x.jobs # <<>> /\ table' = table
  BY DEF BeginJob
<1>3. Len(x.jobs) \in Nat \ {0} /\ job = x.jobs[1] /\ job \in Jobs
      /\ (Len(x.jobs) = 1 => x.jobs[Len(x.jobs)] = job)
  BY <1>1, <1>2, TailJobs
<1>4. Len(x.jobs) = 1 => job.kind = "updates" /\ job.frame = f
  BY <1>2, <1>3 DEF Updates
<1>5. \A new : SetFetcher(p, new) => fetcher'[p] = new
  BY <1>1 DEF SetFetcher
<1>6. \/ job.kind = "known" /\ SetFetcher(p, [x EXCEPT !.jobs = Tail(@)])
      \/ job.kind = "initial" /\ SetFetcher(p, [asks EXCEPT !.start = clock - InitialCandles * CandleTicks, !.end = MaxClock])
      \/ job.kind = "updates" /\ DOMAIN table[job.frame] = {} /\ SetFetcher(p, [x EXCEPT !.pc = "failed", !.jobs = <<>>])
      \/ job.kind = "updates" /\ DOMAIN table[job.frame] # {} /\ SetFetcher(p,
            [asks EXCEPT !.start = OpenOf(NewestRow(table[job.frame])), !.end = clock + 2 * CandleTicks])
      \/ job.kind = "range" /\ SetFetcher(p, [asks EXCEPT !.start = job.start, !.end = job.end])
  BY DEF BeginJob
<1> HIDE DEF x, job
<1>7. ASSUME NEW new, new.jobs = x.jobs, new.pc = "request", Len(x.jobs) # 1
      PROVE  Updates(new, f, table[f], t)
  BY <1>2, <1>7 DEF Updates, x
<1>8. CASE job.kind = "known" /\ SetFetcher(p, [x EXCEPT !.jobs = Tail(@)])
  <2>1. PICK new : new = [x EXCEPT !.jobs = Tail(@)]
    OBVIOUS
  <2>2. new.pc = "next" /\ new.jobs = Tail(x.jobs)
    BY <1>1, <1>2, <2>1 DEF Fetchers
  <2>3. Len(x.jobs) # 1 /\ Updates(x, f, table[f], t)
    BY <1>4, <1>8 DEF x
  <2>4. Updates(new, f, table[f], t)
    BY <1>1, <1>2, <2>2, <2>3, UpdatesNext
  <2> QED
    BY <1>2, <1>5, <1>8, <2>1, <2>4
<1>9. CASE job.kind = "initial" /\ SetFetcher(p,
                [asks EXCEPT !.start = clock - InitialCandles * CandleTicks, !.end = MaxClock])
  <2>1. PICK new : new = [asks EXCEPT !.start = clock - InitialCandles * CandleTicks, !.end = MaxClock]
    OBVIOUS
  <2>2. new.jobs = x.jobs /\ new.pc = "request" /\ Len(x.jobs) # 1
    BY <1>1, <1>4, <1>9, <2>1 DEF Fetchers
  <2> QED
    BY <1>2, <1>5, <1>7, <1>9, <2>1, <2>2
<1>10. CASE SetFetcher(p, [x EXCEPT !.pc = "failed", !.jobs = <<>>])
  <2>1. PICK new : new = [x EXCEPT !.pc = "failed", !.jobs = <<>>]
    OBVIOUS
  <2>2. new.jobs = <<>> /\ new.pc = "failed"
    BY <1>1, <2>1 DEF Fetchers
  <2>3. Len(new.jobs) # 1
    BY <2>2
  <2>4. Updates(new, f, table[f], t)
    BY <2>2, <2>3 DEF Updates
  <2> QED
    BY <1>2, <1>5, <1>10, <2>1, <2>4
<1>11. CASE job.kind = "updates" /\ DOMAIN table[job.frame] # {} /\ SetFetcher(p,
                [asks EXCEPT !.start = OpenOf(NewestRow(table[job.frame])), !.end = clock + 2 * CandleTicks])
  <2> DEFINE n == NewestRow(table[job.frame])
  <2>1. PICK new : new = [asks EXCEPT !.start = OpenOf(n), !.end = clock + 2 * CandleTicks]
    OBVIOUS
  <2>2. new.jobs = x.jobs /\ new.pc = "request" /\ new.start = OpenOf(n) /\ new.end = clock + 2 * CandleTicks
    BY <1>1, <2>1 DEF Fetchers
  <2>3. ASSUME Len(x.jobs) = 1 PROVE Updates(new, f, table[f], t)
    <3>1. job.frame = f /\ table[f] \in RowSets /\ InThePast(table[f], clock) /\ DOMAIN table[f] # {}
      BY <1>1, <1>4, <1>11, <2>3
    <3>2. IsNewest(table[f], n)
      BY <1>1, <3>1, RowsEnds
    <3>3. n \in DOMAIN table[f] /\ n \in Nat /\ OpenOf(n) <= clock
      BY <3>1, <3>2 DEF IsNewest, RowSets, InThePast
    <3>4. OpenOf(n) \in Nat
      BY <3>3, OpensInOrder
    <3> HIDE DEF n
    <3>5. OpenOf(n) <= clock + 2 * CandleTicks /\ t <= clock + 2 * CandleTicks
      BY <1>1, <3>3, <3>4, StoreAssumption
    <3> QED
      BY <1>2, <2>2, <2>3, <3>3, <3>5 DEF Updates, x
  <2>4. Updates(new, f, table[f], t)
    BY <1>7, <2>2, <2>3
  <2> QED
    BY <1>2, <1>5, <1>11, <2>1, <2>4
<1>12. CASE job.kind = "range" /\ SetFetcher(p, [asks EXCEPT !.start = job.start, !.end = job.end])
  <2>1. PICK new : new = [asks EXCEPT !.start = job.start, !.end = job.end]
    OBVIOUS
  <2>2. new.jobs = x.jobs /\ new.pc = "request" /\ Len(x.jobs) # 1
    BY <1>1, <1>4, <1>12, <2>1 DEF Fetchers
  <2> QED
    BY <1>2, <1>5, <1>7, <1>12, <2>1, <2>2
<1> QED
  BY <1>6, <1>8, <1>9, <1>10, <1>11, <1>12

LEMMA AnswerUpdates ==
    ASSUME StoreInv, NEW p \in Fetching, AnswerRequest(p), NEW f \in FrameSet, NEW t \in Nat, t <= clock,
           Updates(fetcher[p], f, table[f], t)
    PROVE  Updates(fetcher'[p], f, table'[f], t)
<1> DEFINE x == fetcher[p]
           b == KlinesBetween(x.start, x.end)
           L == Len(x.jobs)
<1>1. /\ x \in Fetchers /\ x.jobs \in Seq(Jobs) /\ fetcher \in [Fetching -> Fetchers]
      /\ clock \in Nat /\ table[f] \in RowSets /\ InThePast(table[f], clock)
      /\ x.start \in Int /\ x.end \in Int /\ JobsInOrder(x, table, shared)
  BY FetcherIs DEF StoreInv, StoreTypes
<1>2. x.pc = "request" /\ Active(x) /\ table' = table
  BY DEF AnswerRequest, Active
<1>3. x.jobs # <<>>
  BY <1>1, <1>2 DEF JobsInOrder
<1>4. Updates(x, f, table[f], t)
  OBVIOUS
<1>5. \A new : SetFetcher(p, new) => fetcher'[p] = new
  BY <1>1 DEF SetFetcher
<1>6. \/ DOMAIN b = {} /\ SetFetcher(p, [x EXCEPT !.pc = "next", !.jobs = Tail(@)])
      \/ DOMAIN b # {} /\ SetFetcher(p,
            [x EXCEPT !.pc = "mark", !.batch = b, !.start = NextStart(b), !.full = IsFull(b)])
  BY DEF AnswerRequest
<1>7. /\ b \in RowSets /\ InThePast(b, clock)
      /\ \A n \in DOMAIN b : x.start <= OpenOf(n) /\ OpenOf(n) <= x.end
      /\ \A n \in Nat : x.start <= OpenOf(n) /\ OpenOf(n) <= x.end /\ OpenOf(n) <= clock =>
            /\ DOMAIN b # {}
            /\ \A m \in Nat : IsNewest(b, m) /\ m < n => IsFull(b)
  <2>1. clock \in Nat /\ x.start \in Int /\ x.end \in Int /\ b = KlinesBetween(x.start, x.end)
    BY <1>1
  <2> HIDE DEF x, b
  <2> QED
    BY <2>1, KlinesAre
<1>8. L = 1 => /\ \E n \in DOMAIN table[f] : x.start = OpenOf(n)
               /\ x.start <= x.end /\ t <= x.end
  BY <1>2, <1>4 DEF Updates
<1> HIDE DEF x, b
<1>9. ASSUME L = 1 PROVE DOMAIN b # {}
  <2>1. PICK n \in DOMAIN table[f] : x.start = OpenOf(n)
    BY <1>8, <1>9
  <2>2. n \in Nat /\ OpenOf(n) <= clock
    BY <1>1 DEF RowSets, InThePast
  <2>3. OpenOf(n) \in Nat
    BY <2>2, OpensInOrder
  <2>4. x.start <= OpenOf(n) /\ OpenOf(n) <= x.end
    BY <1>8, <1>9, <2>1, <2>3
  <2> QED
    BY <1>7, <2>2, <2>4
<1>10. CASE DOMAIN b = {} /\ SetFetcher(p, [x EXCEPT !.pc = "next", !.jobs = Tail(@)])
  <2>1. PICK new : new = [x EXCEPT !.pc = "next", !.jobs = Tail(@)]
    OBVIOUS
  <2>2. new.pc = "next" /\ new.jobs = Tail(x.jobs)
    BY <1>1, <2>1 DEF Fetchers
  <2>3. L # 1
    BY <1>9, <1>10
  <2>4. Updates(new, f, table[f], t)
    BY <1>1, <1>3, <1>4, <2>2, <2>3, UpdatesNext
  <2> QED
    BY <1>2, <1>5, <1>10, <2>1, <2>4 DEF x
<1>11. CASE DOMAIN b # {} /\ SetFetcher(p,
                [x EXCEPT !.pc = "mark", !.batch = b, !.start = NextStart(b), !.full = IsFull(b)])
  <2> DEFINE k == NewestRow(b)
  <2>1. PICK new : new = [x EXCEPT !.pc = "mark", !.batch = b, !.start = NextStart(b), !.full = IsFull(b)]
    OBVIOUS
  <2>2. /\ new.pc = "mark" /\ new.jobs = x.jobs /\ new.batch = b /\ new.start = OpenOf(k)
        /\ new.end = x.end /\ new.full = IsFull(b)
    BY <1>1, <2>1 DEF Fetchers, NextStart
  <2>3. IsNewest(b, k)
    BY <1>1, <1>7, <1>11, RowsEnds
  <2>4. k \in DOMAIN b /\ k \in Nat /\ OpenOf(k) <= x.end /\ x.start <= OpenOf(k)
    BY <1>7, <2>3 DEF IsNewest, RowSets
  <2>5. ASSUME L = 1 PROVE IsFull(b) \/ OpenOf(k) + CandleTicks > t
    <3> HIDE DEF k
    <3>1. OpenOf(k) \in Nat /\ OpenOf(k + 1) = OpenOf(k) + CandleTicks /\ k + 1 \in Nat /\ k < k + 1
      BY <2>4, OpensInOrder
    <3>2. CASE OpenOf(k + 1) <= t
      <4>1. x.start <= OpenOf(k + 1) /\ OpenOf(k + 1) <= x.end /\ OpenOf(k + 1) <= clock
        BY <1>1, <1>8, <2>4, <2>5, <3>1, <3>2, StoreAssumption
      <4> QED
        BY <1>7, <2>3, <2>4, <3>1, <4>1
    <3>3. CASE ~(OpenOf(k + 1) <= t)
      BY <3>1, <3>3, StoreAssumption
    <3> QED
      BY <3>2, <3>3
  <2> HIDE DEF k
  <2>6. Updates(new, f, table[f], t)
    BY <1>3, <1>4, <1>8, <2>2, <2>3, <2>4, <2>5 DEF Updates
  <2> QED
    BY <1>2, <1>5, <1>11, <2>1, <2>6
<1> QED
  BY <1>6, <1>10, <1>11

LEMMA MarkUpdates ==
    ASSUME StoreInv, NEW p \in Fetching, MarkNewest(p), NEW f \in FrameSet, NEW t \in Nat,
           Updates(fetcher[p], f, table[f], t)
    PROVE  Updates(fetcher'[p], f, table'[f], t)
<1> DEFINE x == fetcher[p]
           b == x.batch
           k == NewestRow(b)
           open == clock - OpenOf(k) >= CandleTicks
           c == [b EXCEPT ![k].final = open]
<1>1. /\ x \in Fetchers /\ x.jobs \in Seq(Jobs) /\ fetcher \in [Fetching -> Fetchers]
      /\ JobsInOrder(x, table, shared)
  BY FetcherIs DEF StoreInv, StoreTypes
<1>2. x.pc = "mark" /\ Active(x) /\ table' = table
      /\ SetFetcher(p, [x EXCEPT !.pc = "store", !.batch[k].final = open])
  BY DEF MarkNewest, Active
<1>3. x.jobs # <<>>
  BY <1>1, <1>2 DEF JobsInOrder
<1>4. PICK new : new = [x EXCEPT !.pc = "store", !.batch[k].final = open]
  OBVIOUS
<1>5. DOMAIN c = DOMAIN b
  OBVIOUS
<1>6. /\ new.pc = "store" /\ new.jobs = x.jobs /\ new.batch = c /\ new.start = x.start
      /\ new.end = x.end /\ new.full = x.full
  BY <1>1, <1>4 DEF Fetchers
<1> HIDE DEF c, open
<1>7. \A n : IsNewest(c, n) <=> IsNewest(b, n)
  BY <1>5 DEF IsNewest
<1>8. Updates(x, f, table[f], t)
  OBVIOUS
<1>9. fetcher'[p] = new
  BY <1>1, <1>2, <1>4 DEF SetFetcher
<1> HIDE DEF x
<1>10. Updates(new, f, table[f], t)
  BY <1>2, <1>3, <1>6, <1>7, <1>8 DEF Updates
<1> QED
  BY <1>2, <1>9, <1>10

LEMMA StoreUpdates ==
    ASSUME StoreInv, NEW p \in Fetching, StoreRow(p), NEW f \in FrameSet, NEW t \in Nat, t <= clock,
           Updates(fetcher[p], f, table[f], t)
    PROVE  Updates(fetcher'[p], f, table'[f], t)
<1> DEFINE x == fetcher[p]
           b == x.batch
           n == OldestRow(b)
           E == {m \in DOMAIN b : m > n}
           rest == KeepRows(b, E)
           L == Len(x.jobs)
           g == Target(x)
           up == [m \in DOMAIN table[g] \cup {n} |-> IF m = n THEN b[n] ELSE table[g][m]]
<1>1. /\ x \in Fetchers /\ x.jobs \in Seq(Jobs) /\ fetcher \in [Fetching -> Fetchers]
      /\ JobsInOrder(x, table, shared) /\ AtWork(x, table, shared, clock) /\ clock \in Nat
      /\ b \in RowSets /\ InThePast(b, clock) /\ table \in [FrameSet -> RowSets]
  BY FetcherIs DEF StoreInv, StoreTypes
<1>2. x.pc = "store" /\ Active(x) /\ table' = [table EXCEPT ![g] = up]
  BY DEF StoreRow, Active, Target, Upsert
<1>3. x.jobs # <<>> /\ g = x.jobs[1].frame
  BY <1>1, <1>2, FirstIsDownloaded
<1>4. DOMAIN b # {}
  BY <1>1, <1>2 DEF AtWork
<1>5. IsOldest(b, n)
  BY <1>1, <1>4, RowsEnds
<1>6. n \in DOMAIN b /\ n \in Nat /\ DOMAIN b \subseteq Nat
  BY <1>1, <1>5 DEF IsOldest, RowSets
<1>7. /\ DOMAIN rest = E
      /\ DOMAIN rest = {} => IsNewest(b, n)
  BY <1>1, <1>5, RestOfBatch
<1>8. \/ DOMAIN rest # {} /\ SetFetcher(p, [x EXCEPT !.batch = rest])
      \/ DOMAIN rest = {} /\ SetFetcher(p, [x EXCEPT !.pc = "request", !.batch = rest])
      \/ /\ DOMAIN rest = {} /\ (~x.full \/ clock - OpenOf(n) < CandleTicks)
         /\ SetFetcher(p, [x EXCEPT !.pc = "next", !.jobs = Tail(@), !.batch = rest])
  BY DEF StoreRow
<1>9. Updates(x, f, table[f], t)
  OBVIOUS
<1>10. \A new : SetFetcher(p, new) => fetcher'[p] = new
  BY <1>1 DEF SetFetcher
<1>11. DOMAIN up = DOMAIN table[g] \cup {n}
  OBVIOUS
<1> HIDE DEF x, b, n, E, rest, g, up
<1>12. DOMAIN table[f] \subseteq DOMAIN table'[f] /\ (g = f => n \in DOMAIN table'[f])
  BY <1>1, <1>2, <1>11
<1>13. L = 1 => g = f
  BY <1>3, <1>9 DEF Updates
<1>14. L = 1 => /\ \E k \in Nat : IsNewest(b, k) /\ x.start = OpenOf(k)
                /\ x.start <= x.end /\ t <= x.end
                /\ x.full \/ x.start + CandleTicks > t
  BY <1>2, <1>9, Zenon DEF Updates, b
<1>15. Updates(x, f, table'[f], t)
  BY <1>9, <1>12, UpdatesGrow
<1>16. CASE DOMAIN rest # {} /\ SetFetcher(p, [x EXCEPT !.batch = rest])
  <2>1. PICK new : new = [x EXCEPT !.batch = rest]
    OBVIOUS
  <2>2. /\ new.pc = "store" /\ new.jobs = x.jobs /\ new.batch = rest /\ new.start = x.start
        /\ new.end = x.end /\ new.full = x.full
    BY <1>1, <1>2, <2>1 DEF Fetchers
  <2>3. ASSUME NEW k \in Nat, IsNewest(b, k) PROVE IsNewest(rest, k)
    <3>1. PICK m \in DOMAIN b : m > n
      BY <1>7, <1>16 DEF E
    <3>2. k \in DOMAIN b /\ \A j \in DOMAIN b : j <= k
      BY <2>3 DEF IsNewest
    <3>3. k > n
      BY <1>6, <3>1, <3>2
    <3> QED
      BY <1>7, <3>2, <3>3 DEF IsNewest, E
  <2>4. Updates(new, f, table'[f], t)
    BY <1>2, <1>3, <1>14, <1>15, <2>2, <2>3 DEF Updates
  <2> QED
    BY <1>10, <1>16, <2>1, <2>4
<1>17. ASSUME L = 1, DOMAIN rest = {} PROVE x.start = OpenOf(n)
  <2>1. PICK k \in Nat : IsNewest(b, k) /\ x.start = OpenOf(k)
    BY <1>14, <1>17
  <2>2. k = n
    BY <1>1, <1>7, <1>17, <2>1, OneNewest
  <2> QED
    BY <2>1, <2>2
<1>18. CASE DOMAIN rest = {} /\ SetFetcher(p, [x EXCEPT !.pc = "request", !.batch = rest])
  <2>1. PICK new : new = [x EXCEPT !.pc = "request", !.batch = rest]
    OBVIOUS
  <2>2. /\ new.pc = "request" /\ new.jobs = x.jobs /\ new.start = x.start /\ new.end = x.end
    BY <1>1, <2>1 DEF Fetchers
  <2>3. Updates(new, f, table'[f], t)
    BY <1>3, <1>12, <1>13, <1>14, <1>15, <1>17, <1>18, <2>2 DEF Updates
  <2> QED
    BY <1>10, <1>18, <2>1, <2>3
<1>19. CASE /\ DOMAIN rest = {} /\ (~x.full \/ clock - OpenOf(n) < CandleTicks)
            /\ SetFetcher(p, [x EXCEPT !.pc = "next", !.jobs = Tail(@), !.batch = rest])
  <2>1. PICK new : new = [x EXCEPT !.pc = "next", !.jobs = Tail(@), !.batch = rest]
    OBVIOUS
  <2>2. new.pc = "next" /\ new.jobs = Tail(x.jobs)
    BY <1>1, <2>1 DEF Fetchers
  <2>3. CASE L # 1
    <3>1. Updates(new, f, table'[f], t)
      BY <1>1, <1>3, <1>15, <2>2, <2>3, UpdatesNext
    <3> QED
      BY <1>10, <1>19, <2>1, <3>1
  <2>4. CASE L = 1
    <3>1. new.jobs = <<>>
      BY <1>1, <1>3, <2>2, <2>4, LastJob
    <3>2. x.start = OpenOf(n) /\ OpenOf(n) \in Nat
      BY <1>6, <1>17, <1>19, <2>4, OpensInOrder
    <3>3. OpenOf(n) + CandleTicks > t
      BY <1>1, <1>14, <1>19, <2>4, <3>2, StoreAssumption
    <3>4. Reaches(table'[f], t)
      BY <1>12, <1>13, <2>4, <3>3 DEF Reaches
    <3>5. Len(new.jobs) # 1
      BY <3>1
    <3>6. Updates(new, f, table'[f], t)
      BY <2>2, <3>1, <3>4, <3>5 DEF Updates
    <3> QED
      BY <1>10, <1>19, <2>1, <3>6
  <2> QED
    BY <2>3, <2>4
<1> QED
  BY <1>8, <1>16, <1>18, <1>19

LEMMA StopUpdates ==
    ASSUME StoreInv, NEW p \in Fetching, RequestFails(p) \/ FinishJobs(p), NEW f \in FrameSet, NEW t \in Nat,
           Updates(fetcher[p], f, table[f], t)
    PROVE  Updates(fetcher'[p], f, table'[f], t)
<1>1. fetcher \in [Fetching -> Fetchers]
  BY DEF StoreInv, StoreTypes
<1>2. CASE RequestFails(p)
  <2>1. PICK new : new = [IdleFetcher EXCEPT !.pc = "failed"]
    OBVIOUS
  <2>2. new.pc = "failed" /\ new.jobs = <<>> /\ Len(new.jobs) # 1
    BY <2>1 DEF IdleFetcher
  <2>3. fetcher'[p] = new
    BY <1>1, <1>2, <2>1 DEF RequestFails, SetFetcher
  <2> QED
    BY <2>2, <2>3 DEF Updates
<1>3. CASE FinishJobs(p)
  <2>1. PICK new : new = [IdleFetcher EXCEPT !.pc = "done"]
    OBVIOUS
  <2>2. new.pc = "done" /\ new.jobs = <<>> /\ Len(new.jobs) # 1
    BY <2>1 DEF IdleFetcher
  <2>3. fetcher'[p] = new /\ table' = table
    BY <1>1, <1>3, <2>1 DEF FinishJobs, SetFetcher
  <2>4. Reaches(table[f], t)
    BY <1>3 DEF FinishJobs, Updates
  <2> QED
    BY <2>2, <2>3, <2>4 DEF Updates
<1> QED
  BY <1>2, <1>3

(* The newest of the rows is among the recent ones, whatever their number. *)
LEMMA RecentReach ==
    ASSUME clock \in Nat, NEW rows \in RowSets, InThePast(rows, clock), NEW n \in Nat \ {0}, NEW t \in Int
    PROVE  /\ RecentRows(rows, n) \in RowSets /\ InThePast(RecentRows(rows, n), clock)
           /\ Reaches(rows, t) => Reaches(RecentRows(rows, n), t)
<1> DEFINE S == {m \in DOMAIN rows : Cardinality({k \in DOMAIN rows : k > m}) < n}
           up == RecentRows(rows, n)
<1>1. up = KeepRows(rows, S)
  BY DEF RecentRows
<1>2. up \in RowSets /\ InThePast(up, clock)
  BY <1>1, RowsKept
<1>3. DOMAIN up = DOMAIN rows \cap S
  BY <1>1 DEF KeepRows
<1> HIDE DEF up
<1>4. ASSUME Reaches(rows, t) PROVE Reaches(up, t)
  <2>1. PICK k \in DOMAIN rows : OpenOf(k) + CandleTicks > t
    BY <1>4 DEF Reaches
  <2>2. IsNewest(rows, NewestRow(rows))
    BY <2>1, RowsEnds
  <2> DEFINE m == NewestRow(rows)
  <2>3. m \in DOMAIN rows /\ k <= m /\ m \in Nat /\ k \in Nat /\ \A j \in DOMAIN rows : j <= m /\ j \in Nat
    BY <2>1, <2>2 DEF IsNewest, RowSets
  <2> HIDE DEF m
  <2>4. {j \in DOMAIN rows : j > m} = {}
    BY <2>3
  <2>5. Cardinality({j \in DOMAIN rows : j > m}) = 0
    BY <2>4, FS_EmptySet
  <2>6. m \in S
    BY <2>3, <2>5
  <2>7. OpenOf(k) \in Nat /\ OpenOf(m) \in Nat /\ OpenOf(k) <= OpenOf(m)
    <3>1. /\ OpenOf(k) \in Nat /\ OpenOf(m) \in Nat
          /\ k < m => OpenOf(k) + CandleTicks <= OpenOf(m)
      BY <2>3, OpensInOrder
    <3>2. k = m \/ k < m
      BY <2>3
    <3> QED
      BY <3>1, <3>2, StoreAssumption
  <2>8. OpenOf(m) + CandleTicks > t
    BY <2>1, <2>7, StoreAssumption
  <2> QED
    BY <1>3, <2>3, <2>6, <2>8 DEF Reaches
<1> QED
  BY <1>2, <1>4 DEF up

LEMMA LoadedInvInit == StoreInit => LoadedInv
<1> SUFFICES ASSUME StoreInit PROVE LoadedInv
  OBVIOUS
<1>1. /\ stage = "down" /\ loaded = [f \in FrameSet |-> NotLoaded] /\ asOf = [f \in FrameSet |-> 0]
  BY DEF StoreInit
<1>2. NotLoaded \in Ways /\ NotLoaded.how = "not yet" /\ InThePast(NotLoaded.rows, clock)
  BY IdleIs DEF NotLoaded, Ways, InThePast
<1> QED
  BY <1>1, <1>2 DEF LoadedInv, LoadsCurrent

(* A step of a fetcher, of the worker's or of a thread's. *)
LEMMA LoadsStep ==
    ASSUME StoreInv, LoadedInv, NEW p \in Fetching, UNCHANGED <<clock, stage, loaded, asOf>>,
           \/ BeginJob(p) \/ AnswerRequest(p) \/ RequestFails(p)
           \/ MarkNewest(p) \/ StoreRow(p) \/ FinishJobs(p)
    PROVE  LoadsCurrent'
<1> SUFFICES ASSUME stage = "loading", ~RecentOnly, fetcher'[Loader].pc # "idle"
             PROVE  /\ Remaining # {} /\ asOf[NextFrame] <= clock
                    /\ Updates(fetcher'[Loader], NextFrame, table'[NextFrame], asOf[NextFrame])
  <2>1. Remaining' = Remaining /\ NextFrame' = NextFrame /\ asOf' = asOf /\ clock' = clock /\ stage' = stage
    BY DEF Remaining, NextFrame
  <2> QED
    BY <2>1 DEF LoadsCurrent
<1>1. /\ fetcher \in [Fetching -> Fetchers] /\ Loader \in Fetching /\ asOf \in [FrameSet -> Nat]
      /\ table \in [FrameSet -> RowSets] /\ clock \in Nat
  BY DEF StoreInv, StoreTypes, LoadedInv, Fetching
<1>2. /\ \A q \in Fetching : q # p => fetcher'[q] = fetcher[q]
      /\ fetcher[p].pc # "idle"
  <2>1. fetcher[p].pc # "idle"
    BY DEF BeginJob, AnswerRequest, RequestFails, MarkNewest, StoreRow, FinishJobs
  <2>2. \E new : SetFetcher(p, new)
    <3>1. CASE BeginJob(p)
      BY <3>1 DEF BeginJob
    <3>2. CASE StoreRow(p)
      BY <3>2 DEF StoreRow
    <3>3. CASE AnswerRequest(p) \/ RequestFails(p) \/ MarkNewest(p) \/ FinishJobs(p)
      BY <3>3 DEF AnswerRequest, RequestFails, MarkNewest, FinishJobs
    <3> QED
      BY <3>1, <3>2, <3>3
  <2> QED
    BY <1>1, <2>1, <2>2 DEF SetFetcher
<1>3. fetcher[Loader].pc # "idle"
  BY <1>1, <1>2
<1>4. /\ Remaining # {} /\ asOf[NextFrame] <= clock
      /\ Updates(fetcher[Loader], NextFrame, table[NextFrame], asOf[NextFrame])
  BY <1>3 DEF LoadedInv, LoadsCurrent
<1>5. PICK f \in FrameSet : f = NextFrame
  BY <1>4, NextFrameIs
<1>6. PICK t \in Nat : t = asOf[f]
  BY <1>1
<1>7. Updates(fetcher[Loader], f, table[f], t) /\ t <= clock
  BY <1>4, <1>5, <1>6
<1>8. CASE p = Loader
  <2>1. Updates(fetcher'[Loader], f, table'[f], t)
    <3>1. CASE BeginJob(p)
      BY <1>7, <1>8, <3>1, BeginUpdates
    <3>2. CASE AnswerRequest(p)
      BY <1>7, <1>8, <3>2, AnswerUpdates
    <3>3. CASE MarkNewest(p)
      BY <1>7, <1>8, <3>3, MarkUpdates
    <3>4. CASE StoreRow(p)
      BY <1>7, <1>8, <3>4, StoreUpdates
    <3>5. CASE RequestFails(p) \/ FinishJobs(p)
      BY <1>7, <1>8, <3>5, StopUpdates
    <3> QED
      BY <3>1, <3>2, <3>3, <3>4, <3>5
  <2> QED
    BY <1>4, <1>5, <1>6, <2>1
<1>9. CASE p # Loader
  <2>1. fetcher'[Loader] = fetcher[Loader]
    BY <1>1, <1>2, <1>9
  <2>2. DOMAIN table[f] \subseteq DOMAIN table'[f]
    <3>1. CASE StoreRow(p)
      <4>1. PICK g, n, row : table' = Upsert(g, n, row)
        BY <3>1 DEF StoreRow
      <4>2. table'[f] = IF f = g THEN [m \in DOMAIN table[g] \cup {n} |-> IF m = n THEN row ELSE table[g][m]]
                        ELSE table[f]
        BY <1>1, <4>1 DEF Upsert
      <4> QED
        BY <4>2
    <3>2. CASE table' = table
      BY <3>2
    <3> QED
      BY <3>1, <3>2 DEF BeginJob, AnswerRequest, RequestFails, MarkNewest, FinishJobs
  <2>3. Updates(fetcher'[Loader], f, table'[f], t)
    BY <1>7, <2>1, <2>2, UpdatesGrow
  <2> QED
    BY <1>4, <1>5, <1>6, <2>3
<1> QED
  BY <1>8, <1>9

(* The worker begins with a frame: the list of its jobs ends with the update. *)
LEMMA WorkerFetchesLoads ==
    ASSUME StoreInv, LoadedInv, WorkerFetches
    PROVE  LoadedInv'
<1>1. PICK f \in FrameSet : f = NextFrame /\ loaded[f] = NotLoaded
  BY NextFrameIs DEF WorkerFetches
<1>2. /\ stage = "loading" /\ Remaining # {} /\ FetchFrame(Loader, f)
      /\ asOf' = [asOf EXCEPT ![f] = clock] /\ UNCHANGED <<clock, table, stage, loaded>>
  BY <1>1 DEF WorkerFetches
<1>3. /\ clock \in Nat /\ fetcher \in [Fetching -> Fetchers] /\ Loader \in Fetching
      /\ loaded \in [FrameSet -> Ways] /\ asOf \in [FrameSet -> Nat]
  BY DEF StoreInv, StoreTypes, LoadedInv, Fetching
<1>4. Remaining' = Remaining /\ NextFrame' = NextFrame
  BY <1>2 DEF Remaining, NextFrame
<1>5. asOf' \in [FrameSet -> Nat] /\ asOf'[f] = clock /\ \A g \in FrameSet : g # f => asOf'[g] = asOf[g]
  BY <1>2, <1>3
<1> DEFINE J == FetchJobs(f)
           new == [IdleFetcher EXCEPT !.pc = "next", !.jobs = J]
<1>6. fetcher'[Loader] = new
  BY <1>2, <1>3 DEF FetchFrame, SetFetcher
<1>7. new.pc = "next" /\ new.jobs = J
  BY DEF IdleFetcher
<1>8. ASSUME ~RecentOnly PROVE J # <<>> /\ J[Len(J)].kind = "updates" /\ J[Len(J)].frame = f
  <2>1. InitialJobs \in Seq(Jobs) /\ UpdatesJob(f) \in Jobs /\ UpdatesJob(f).kind = "updates"
        /\ UpdatesJob(f).frame = f
    BY InitialJobsAre DEF UpdatesJob, FetchJob, Jobs
  <2>2. J = InitialJobs \o <<UpdatesJob(f)>>
    BY <1>8 DEF FetchJobs
  <2> DEFINE I == InitialJobs
             u == UpdatesJob(f)
  <2> HIDE DEF I, u, J
  <2>3. J = Append(I, u)
    BY <2>1, <2>2 DEF I, u
  <2>4. Len(J) = Len(I) + 1 /\ J[Len(J)] = u /\ J # <<>>
    BY <2>1, <2>3 DEF I
  <2> QED
    BY <2>1, <2>4 DEF u
<1> HIDE DEF J, new
<1>9. ~RecentOnly => Updates(new, f, table[f], clock)
  BY <1>7, <1>8 DEF Updates
<1>10. LoadsCurrent'
  BY <1>1, <1>2, <1>3, <1>4, <1>5, <1>6, <1>9 DEF LoadsCurrent
<1>11. loaded[f].how = "not yet"
  <2>1. NotLoaded.how = "not yet"
    BY DEF NotLoaded
  <2> QED
    BY <1>1, <2>1
<1>12. \A g \in FrameSet : loaded[g].how = "loaded" => g # f
  BY <1>11
<1>13. \A g \in FrameSet :
        /\ InThePast(loaded'[g].rows, clock')
        /\ ~RecentOnly /\ loaded'[g].how = "loaded" => Reaches(loaded'[g].rows, asOf'[g])
  BY <1>2, <1>5, <1>12 DEF LoadedInv
<1> QED
  BY <1>2, <1>3, <1>5, <1>10, <1>13 DEF LoadedInv

LEMMA LoadFrameLoads ==
    ASSUME StoreInv, LoadedInv, LoadFrame
    PROVE  LoadedInv'
<1>1. /\ stage = "loading" /\ fetcher[Loader].pc = "done" /\ fetcher' = Resting
      /\ UNCHANGED <<clock, table, stage, asOf>>
  BY DEF LoadFrame
<1>2. /\ clock \in Nat /\ table \in [FrameSet -> RowSets] /\ \A f \in FrameSet : InThePast(table[f], clock)
      /\ loaded \in [FrameSet -> Ways] /\ asOf \in [FrameSet -> Nat]
  BY DEF StoreInv, StoreTypes, LoadedInv
<1>3. LoadsCurrent'
  <2>1. Resting[Loader].pc = "idle"
    BY DEF Resting, IdleFetcher
  <2> QED
    BY <1>1, <2>1 DEF LoadsCurrent
<1> DEFINE f == NextFrame
           count == Cardinality(DOMAIN table[f])
           rows == RecentRows(table[f], count)
           way == IF count < MinCandles THEN Skipped ELSE Loaded(rows)
<1>4. loaded' = [loaded EXCEPT ![f] = way]
  BY DEF LoadFrame
<1>5. ASSUME f \in FrameSet
      PROVE  /\ way \in Ways /\ InThePast(way.rows, clock)
             /\ ~RecentOnly /\ way.how = "loaded" => Reaches(way.rows, asOf[f])
  <2>1. Skipped \in Ways /\ Skipped.how = "skipped" /\ InThePast(Skipped.rows, clock)
    BY IdleIs DEF Skipped, Ways, InThePast
  <2>2. ASSUME ~(count < MinCandles)
        PROVE  /\ Loaded(rows) \in Ways /\ InThePast(rows, clock)
               /\ ~RecentOnly => Reaches(rows, asOf[f])
    <3>1. PICK n \in Nat \ {0} : n = count
      <4>1. DOMAIN table[f] \subseteq 0 .. clock
        <5> SUFFICES ASSUME NEW m \in DOMAIN table[f] PROVE m \in 0 .. clock
          OBVIOUS
        <5>1. m \in Nat /\ OpenOf(m) <= clock
          <6>1. table[f] \in RowSets /\ InThePast(table[f], clock)
            BY <1>2, <1>5
          <6> QED
            BY <6>1 DEF RowSets, InThePast
        <5>2. OpenOf(m) \in Nat /\ m <= OpenOf(m)
          BY <5>1, OpensInOrder
        <5> QED
          BY <1>2, <5>1, <5>2
      <4>2. IsFiniteSet(0 .. clock)
        BY <1>2, FS_Interval
      <4>3. count \in Nat
        BY <4>1, <4>2, FS_Subset, FS_CardinalityType
      <4> QED
        BY <2>2, <4>3, StoreAssumption
    <3>2. table[f] \in RowSets /\ InThePast(table[f], clock) /\ asOf[f] \in Int
      BY <1>2, <1>5
    <3>3. PICK t \in Int : t = asOf[f]
      BY <3>2
    <3>4. PICK kept : kept = table[f]
      OBVIOUS
    <3>5. /\ RecentRows(kept, n) \in RowSets /\ InThePast(RecentRows(kept, n), clock)
          /\ Reaches(kept, t) => Reaches(RecentRows(kept, n), t)
      BY <1>2, <3>2, <3>4, RecentReach
    <3>6. rows = RecentRows(kept, n)
      BY <3>1, <3>4
    <3>7. ~RecentOnly => Reaches(table[f], asOf[f])
      <4>1. ~RecentOnly => Updates(fetcher[Loader], f, table[f], asOf[f])
        BY <1>1 DEF LoadedInv, LoadsCurrent
      <4> QED
        BY <1>1, <4>1 DEF Updates
    <3> HIDE DEF rows
    <3>8. Loaded(rows) \in Ways
      BY <3>5, <3>6 DEF Loaded, Ways
    <3> QED
      BY <3>3, <3>4, <3>5, <3>6, <3>7, <3>8
  <2>3. Loaded(rows).rows = rows
    BY DEF Loaded
  <2> HIDE DEF count, rows
  <2> QED
    BY <2>1, <2>2, <2>3
<1> HIDE DEF f, way
<1>6. /\ loaded' \in [FrameSet -> Ways]
      /\ \A g \in FrameSet : loaded'[g] = IF g = f THEN way ELSE loaded[g]
  BY <1>2, <1>4, <1>5
<1>7. \A g \in FrameSet :
        /\ InThePast(loaded'[g].rows, clock')
        /\ ~RecentOnly /\ loaded'[g].how = "loaded" => Reaches(loaded'[g].rows, asOf'[g])
  BY <1>1, <1>5, <1>6 DEF LoadedInv
<1> QED
  BY <1>1, <1>2, <1>3, <1>6, <1>7 DEF LoadedInv

LEMMA LoadedInvNext == StoreInv /\ LoadedInv /\ [StoreNext]_storeVars => LoadedInv'
<1> SUFFICES ASSUME StoreInv, LoadedInv, [StoreNext]_storeVars PROVE LoadedInv'
  OBVIOUS
<1>1. ASSUME UNCHANGED <<clock, loaded, asOf>>, LoadsCurrent' PROVE LoadedInv'
  BY <1>1 DEF LoadedInv
<1>2. ASSUME stage' # "loading" PROVE LoadsCurrent'
  BY <1>2 DEF LoadsCurrent
<1>3. ASSUME fetcher' = Resting PROVE LoadsCurrent'
  BY <1>3 DEF LoadsCurrent, Resting, IdleFetcher
<1>4. ASSUME NEW p \in Fetching,
             \/ BeginJob(p) \/ AnswerRequest(p) \/ RequestFails(p)
             \/ MarkNewest(p) \/ StoreRow(p) \/ FinishJobs(p)
      PROVE  LoadedInv'
  <2>1. UNCHANGED <<clock, stage, loaded, asOf>>
    BY <1>4 DEF BeginJob, AnswerRequest, RequestFails, MarkNewest, StoreRow, FinishJobs
  <2> QED
    BY <1>1, <1>4, <2>1, LoadsStep
<1>5. ASSUME NEW f \in FrameSet, ThreadFetches(f) \/ FixGaps(f) \/ ThreadRollsBack(f) \/ RollbackFails(f)
      PROVE  LoadedInv'
  BY <1>1, <1>2, <1>5 DEF ThreadFetches, FixGaps, RunCommand, ThreadRollsBack, RollbackFails
<1>6. CASE StartWorker \/ GoLive \/ SkippedFramePanics \/ FetchInitial \/ FetchUpdates \/ CommandEnds
  BY <1>1, <1>2, <1>6 DEF StartWorker, GoLive, SkippedFramePanics, FetchInitial, FetchUpdates, RunCommand,
                           CommandEnds
<1>7. CASE JoinThreads
  BY <1>1, <1>3, <1>7 DEF JoinThreads
<1>8. ASSUME NEW recent \in BOOLEAN, RollbackCoin(recent) PROVE LoadedInv'
  BY <1>1, <1>2, <1>8 DEF RollbackCoin
<1>9. ASSUME NEW F \in SUBSET FrameSet, ResetFrames(F) PROVE LoadedInv'
  BY <1>1, <1>2, <1>9 DEF ResetFrames
<1>10. CASE WorkerFails \/ StopProgram
  <2>1. stage' # "loading" /\ clock' = clock
        /\ loaded' = [f \in FrameSet |-> NotLoaded] /\ asOf' = [f \in FrameSet |-> 0]
    BY <1>10 DEF WorkerFails, StopProgram, Forgotten
  <2>2. NotLoaded \in Ways /\ NotLoaded.how = "not yet" /\ InThePast(NotLoaded.rows, clock)
    BY IdleIs DEF NotLoaded, Ways, InThePast
  <2> QED
    BY <1>2, <2>1, <2>2 DEF LoadedInv
<1>11. CASE StoreTick
  <2>1. clock \in Nat /\ clock' = clock + 1 /\ UNCHANGED <<table, fetcher, stage, loaded, asOf>>
    BY <1>11 DEF StoreTick, StoreInv, StoreTypes
  <2>2. loaded \in [FrameSet -> Ways] /\ asOf \in [FrameSet -> Nat]
    BY DEF LoadedInv
  <2>3. ASSUME NEW f \in FrameSet PROVE InThePast(loaded[f].rows, clock')
    <3> SUFFICES ASSUME NEW n \in DOMAIN loaded[f].rows PROVE OpenOf(n) <= clock + 1
      BY <2>1 DEF InThePast
    <3>1. loaded[f].rows \in RowSets
      BY <2>2 DEF Ways
    <3>2. n \in Nat /\ OpenOf(n) <= clock
      BY <3>1 DEF RowSets, LoadedInv, InThePast
    <3>3. OpenOf(n) \in Nat
      BY <3>2, OpensInOrder
    <3> QED
      BY <2>1, <3>2, <3>3
  <2>4. Remaining' = Remaining /\ NextFrame' = NextFrame
    BY <2>1 DEF Remaining, NextFrame
  <2>5. LoadsCurrent'
    <3> SUFFICES ASSUME stage = "loading", ~RecentOnly, fetcher[Loader].pc # "idle"
                 PROVE  asOf[NextFrame] <= clock + 1
      BY <2>1, <2>4 DEF LoadedInv, LoadsCurrent
    <3>1. Remaining # {} /\ asOf[NextFrame] <= clock
      BY DEF LoadedInv, LoadsCurrent
    <3>2. NextFrame \in FrameSet
      BY <3>1, NextFrameIs
    <3>3. asOf[NextFrame] \in Nat
      BY <2>2, <3>2
    <3> QED
      BY <2>1, <3>1, <3>3
  <2> QED
    BY <2>1, <2>2, <2>3, <2>5 DEF LoadedInv
<1>12. CASE UNCHANGED storeVars
  <2>1. UNCHANGED <<clock, table, fetcher, stage, loaded, asOf>>
    BY <1>12 DEF storeVars
  <2>2. Remaining' = Remaining /\ NextFrame' = NextFrame
    BY <2>1 DEF Remaining, NextFrame
  <2> QED
    BY <2>1, <2>2 DEF LoadedInv, LoadsCurrent
<1>13. \/ \E p \in Fetching : \/ BeginJob(p) \/ AnswerRequest(p) \/ RequestFails(p)
                              \/ MarkNewest(p) \/ StoreRow(p) \/ FinishJobs(p)
       \/ \E f \in FrameSet : ThreadFetches(f) \/ FixGaps(f) \/ ThreadRollsBack(f) \/ RollbackFails(f)
       \/ StoreTick \/ WorkerFetches \/ LoadFrame \/ JoinThreads \/ WorkerFails \/ StopProgram
       \/ StartWorker \/ GoLive \/ SkippedFramePanics \/ FetchInitial \/ FetchUpdates \/ CommandEnds
       \/ \E recent \in BOOLEAN : RollbackCoin(recent)
       \/ \E F \in SUBSET FrameSet : ResetFrames(F)
       \/ UNCHANGED storeVars
  BY DEF StoreNext, Fetching
<1> QED
  BY <1>4, <1>5, <1>6, <1>7, <1>8, <1>9, <1>10, <1>11, <1>12, <1>13, WorkerFetchesLoads, LoadFrameLoads

LEMMA LoadedInvCurrent == StoreInv /\ LoadedInv => (~RecentOnly => LoadedIsCurrent)
<1> SUFFICES ASSUME StoreInv, LoadedInv, ~RecentOnly, NEW f \in FrameSet, loaded[f].how = "loaded"
             PROVE  OpenOf(NewestRow(loaded[f].rows)) + CandleTicks > asOf[f]
  BY DEF LoadedIsCurrent
<1> DEFINE rows == loaded[f].rows
           m == NewestRow(rows)
<1>1. rows \in RowSets /\ InThePast(rows, clock) /\ clock \in Nat /\ asOf[f] \in Nat /\ Reaches(rows, asOf[f])
  <2>1. loaded[f] \in Ways
    BY DEF LoadedInv
  <2> QED
    BY <2>1 DEF LoadedInv, Ways, StoreInv, StoreTypes
<1>2. PICK n \in DOMAIN rows : OpenOf(n) + CandleTicks > asOf[f]
  BY <1>1 DEF Reaches
<1>3. IsNewest(rows, m)
  BY <1>1, <1>2, RowsEnds
<1>4. m \in Nat /\ n \in Nat /\ n <= m
  BY <1>1, <1>3 DEF IsNewest, RowSets
<1> HIDE DEF m
<1>5. /\ OpenOf(n) \in Nat /\ OpenOf(m) \in Nat
      /\ n < m => OpenOf(n) + CandleTicks <= OpenOf(m)
  BY <1>4, OpensInOrder
<1>6. n = m \/ n < m
  BY <1>4
<1>7. OpenOf(m) + CandleTicks > asOf[f]
  BY <1>1, <1>2, <1>5, <1>6, StoreAssumption
<1> QED
  BY <1>7 DEF m

(* Unless only recent candles are asked for, the candles a series starts from
   reach the moment its update began, whatever the threads before it failed at
   or the clock did meanwhile.                                              *)
THEOREM LoadsUpToDate == StoreSpec => [](~RecentOnly => LoadedIsCurrent)
<1>1. StoreInit => StoreInv /\ LoadedInv
  BY StoreInvInit, LoadedInvInit
<1>2. (StoreInv /\ LoadedInv) /\ [StoreNext]_storeVars => (StoreInv /\ LoadedInv)'
  BY StoreInvNext, LoadedInvNext
<1> QED
  BY <1>1, <1>2, LoadedInvCurrent, PTL DEF StoreSpec
-----------------------------------------------------------------------------
(* The live series.  A series of goal g keeps candles of g base candles; the
   times at which base candles open are these.                              *)
Starts == {k * BaseTicks : k \in Nat}

CandleRecs == [open : Int, close : Int, main : BOOLEAN, final : BOOLEAN, volume : Int]
FedRecs == [pair : Seq(Int), alone : Seq(Int)]
NothingFed == [pair |-> <<>>, alone |-> <<>>]

SeriesRecs == [candles : Seq(CandleRecs), states : Seq(CandleRecs), working : CandleRecs,
               backup : CandleRecs, next : CandleRecs, index : Int, started : BOOLEAN, fed : FedRecs]

Spans(x, g) == x \in CandleRecs /\ x.open \in Starts /\ x.close = x.open + g * BaseTicks - 1

After(q, t) == \A i \in DOMAIN q : q[i].close < t

InLine(q, g) ==
    /\ \A i \in DOMAIN q : Spans(q[i], g) /\ q[i].final
    /\ \A i, j \in DOMAIN q : i < j => q[i].close < q[j].open

Working(w, q, g) == w = NoCandle \/ (Spans(w, g) /\ ~w.final /\ After(q, w.open))

(* The copy of the working candle that aggregation keeps. *)
Copied(w, b, g) ==
    IF g = 1 THEN b = NoCandle
    ELSE /\ w = NoCandle <=> b = NoCandle
         /\ b.open = w.open /\ b.close = w.close /\ ~b.final

(* A candle the exchange may have sent by the time t. *)
Given(c, g, t) ==
    /\ Spans(c, 1)
    /\ c.main <=> g = 1
    /\ g = 1 => c.open <= t /\ (c.final => c.close < t)

Shape(s, g, t) ==
    /\ s \in SeriesRecs
    /\ InLine(s.candles, g)
    /\ Working(s.working, s.candles, g)
    /\ Copied(s.working, s.backup, g)
    /\ s.next = NoCandle \/ Given(s.next, g, t)
    /\ g = 1 => After(s.candles, t) /\ s.working.open <= t

(* The candles taken for good: in order, and none before the first. *)
Rising(f) ==
    /\ \A i, j \in DOMAIN f : i < j => f[i] < f[j]
    /\ \A j \in DOMAIN f : f[j] >= 0

(* Who starts from the oldest candle alone lacks the second, and no other. *)
Missed(f) ==
    /\ Len(f.pair) >= 2 /\ Len(f.alone) = Len(f.pair) - 1
    /\ f.alone[1] = f.pair[1]
    /\ \A i \in 2 .. Len(f.alone) : f.alone[i] = f.pair[i + 1]

Taken(f) == Rising(f.pair) /\ Missed(f)

Took(f, q, n) == \A i \in 1 .. n : \E j \in DOMAIN f : f[j] = q[i].open

(* A series that is computed: the averages have taken what is closed. *)
Following(s) ==
    IF s.started
    THEN /\ Len(s.candles) >= 2
         /\ Taken(s.fed) /\ Took(s.fed.pair, s.candles, Len(s.candles))
         /\ \A j \in DOMAIN s.fed.pair : s.fed.pair[j] <= s.candles[Len(s.candles)].open
         /\ s.states # <<>> => s.states[Len(s.states)] = HeadCandle(s)
    ELSE s.fed = NothingFed /\ s.states = <<>> /\ NumCandles(s) <= 2

(* A series that is due to be computed: if its head is closed, it is new. *)
Behind(s) ==
    /\ s.working = NoCandle => s.candles # <<>>
    /\ IF s.started
       THEN /\ Len(s.candles) >= 2
            /\ Taken(s.fed)
            /\ IF s.working = NoCandle
               THEN /\ Took(s.fed.pair, s.candles, Len(s.candles) - 1)
                    /\ \A j \in DOMAIN s.fed.pair : s.fed.pair[j] < s.candles[Len(s.candles)].open
               ELSE /\ Took(s.fed.pair, s.candles, Len(s.candles))
                    /\ \A j \in DOMAIN s.fed.pair : s.fed.pair[j] <= s.candles[Len(s.candles)].open
       ELSE s.fed = NothingFed /\ s.states = <<>> /\ NumCandles(s) <= 3

SeriesIInv ==
    /\ goal \in Goals /\ now \in Nat /\ closedBy \in Nat /\ traded \in Int /\ closing \in Int
    /\ due \in 0 .. LoadedCandles + 1
    /\ due > 0 => goal = 1 /\ now = LoadedCandles * BaseTicks
    /\ Shape(series, goal, Current)
    /\ Following(series)

-----------------------------------------------------------------------------
(* The times candles open at are a base candle apart. *)
LEMMA StartsApart ==
    ASSUME NEW a \in Starts, NEW b \in Starts
    PROVE  a \in Nat /\ b \in Nat /\ (a < b => a + BaseTicks <= b)
<1>1. PICK k \in Nat, m \in Nat : a = k * BaseTicks /\ b = m * BaseTicks
  BY DEF Starts
<1>2. BaseTicks \in Nat /\ BaseTicks > 0
  BY SeriesAssumption
<1> DEFINE B == BaseTicks
<1>3. k * B \in Nat /\ m * B \in Nat
  BY <1>2
<1>4. a < b => k < m
  <2> SUFFICES ASSUME m <= k, a < b PROVE FALSE
    BY <1>1
  <2>1. m * B <= k * B
    BY <1>1, <1>2
  <2> QED BY <1>1, <1>3, <2>1
<1>5. k < m => (k + 1) * B <= m * B /\ (k + 1) * B = k * B + B
  BY <1>1, <1>2
<1> QED BY <1>1, <1>2, <1>3, <1>4, <1>5

(* A candle of so many base candles ends where another may open. *)
LEMMA StartsNext ==
    ASSUME NEW a \in Starts, NEW g \in Nat \ {0}
    PROVE  a + g * BaseTicks \in Starts /\ g * BaseTicks \in Nat /\ g * BaseTicks >= 2
<1>1. PICK k \in Nat : a = k * BaseTicks
  BY DEF Starts
<1>2. BaseTicks \in Nat /\ BaseTicks >= 2
  BY SeriesAssumption
<1> DEFINE B == BaseTicks
<1>3. a + g * B = (k + g) * B
  BY <1>1, <1>2
<1>4. g * B \in Nat /\ g * B >= B
  BY <1>2
<1>5. k + g \in Nat
  OBVIOUS
<1>6. a + g * B \in Starts
  BY <1>3, <1>5 DEF Starts
<1>7. g * B >= 2
  <2> HIDE DEF B
  <2>1. B >= 2 /\ B \in Nat
    BY <1>2 DEF B
  <2> QED BY <1>4, <2>1
<1> QED BY <1>4, <1>6, <1>7

(* A candle of the series opens before it closes, and nothing opens as it
   closes.                                                                 *)
LEMMA SpanIs ==
    ASSUME NEW g \in Nat \ {0}, NEW x, Spans(x, g)
    PROVE  /\ x.open \in Nat /\ x.close \in Nat /\ x.open < x.close
           /\ x.close + 1 \in Starts /\ x # NoCandle
           /\ \A a \in Starts : a >= x.close => a > x.close
<1>1. x.open \in Starts /\ x.close = x.open + g * BaseTicks - 1
  BY DEF Spans
<1>2. x.open + g * BaseTicks \in Starts /\ g * BaseTicks \in Nat /\ g * BaseTicks >= 2
  BY <1>1, StartsNext
<1>3. x.open \in Nat
  BY <1>1, StartsApart
<1>4. x.close + 1 \in Starts
  BY <1>1, <1>2, <1>3
<1>5. ASSUME NEW a \in Starts, a = x.close PROVE FALSE
  <2>1. a \in Nat /\ (a < x.close + 1 => a + BaseTicks <= x.close + 1)
    BY <1>4, StartsApart
  <2> QED BY <1>5, <2>1, SeriesAssumption
<1>6. \A a \in Starts : a \in Nat
  BY StartsApart
<1>7. x # NoCandle
  BY <1>3 DEF NoCandle
<1> QED BY <1>1, <1>2, <1>3, <1>4, <1>5, <1>6, <1>7

(* The start of the candle of a moment. *)
LEMMA StartTimeIs ==
    ASSUME NEW t \in Nat
    PROVE  /\ StartTime(t) \in Starts /\ StartTime(t) <= t /\ StartTime(t) \in Nat
           /\ StartTime(t) \div BaseTicks \in Nat
           /\ StartTime(t) = (StartTime(t) \div BaseTicks) * BaseTicks
           /\ \A a \in Starts : a <= t => a <= StartTime(t)
<1> DEFINE B == BaseTicks
           q == t \div B
<1>1. B \in Nat /\ B > 0
  BY SeriesAssumption
<1>2. q \in Nat /\ t = B * q + (t % B) /\ t % B \in 0 .. B - 1
  BY <1>1
<1>3. q * B \in Nat /\ B * q = q * B
  BY <1>1, <1>2
<1>4. q * B <= t /\ t < q * B + B
  BY <1>1, <1>2, <1>3
<1>5. StartTime(t) = q * B /\ q * B \in Starts
  BY <1>2 DEF StartTime, Starts
<1>6. (q * B) \div B = q
  BY <1>1, <1>2
<1>7. ASSUME NEW a \in Starts, a <= t, q * B < a PROVE FALSE
  <2>1. a \in Nat /\ q * B + B <= a
    BY <1>5, <1>7, StartsApart
  <2> QED BY <1>1, <1>3, <1>4, <1>7, <2>1
<1>8. \A a \in Starts : a \in Nat
  BY StartsApart
<1> QED BY <1>2, <1>3, <1>4, <1>5, <1>6, <1>7, <1>8

(* What the log keeps: the newest, and of what it had all but the oldest. *)
LEMMA KeepInIs ==
    ASSUME NEW s \in Seq(CandleRecs), NEW x \in CandleRecs
    PROVE  /\ KeepIn(s, x) \in Seq(CandleRecs)
           /\ \E d \in {0, 1} :
                /\ Len(KeepIn(s, x)) = Len(s) + 1 - d
                /\ KeepIn(s, x)[Len(s) + 1 - d] = x
                /\ \A i \in 1 .. Len(s) - d : i + d \in 1 .. Len(s) /\ KeepIn(s, x)[i] = s[i + d]
                /\ d = 1 => Len(s) >= 2
<1>1. KeepIn(s, x) = IF Len(s) < SeriesCapacity THEN Append(s, x) ELSE Append(Tail(s), x)
  BY DEF KeepIn, Kept!Keep
<1>2. SeriesCapacity \in Nat /\ SeriesCapacity >= 2 /\ Len(s) \in Nat
  BY SeriesAssumption
<1>3. CASE Len(s) < SeriesCapacity
  <2>1. KeepIn(s, x) = Append(s, x)
    BY <1>1, <1>3
  <2>2. /\ Append(s, x) \in Seq(CandleRecs) /\ Len(Append(s, x)) = Len(s) + 1 - 0
        /\ Append(s, x)[Len(s) + 1 - 0] = x
        /\ \A i \in 1 .. Len(s) - 0 : i + 0 \in 1 .. Len(s) /\ Append(s, x)[i] = s[i + 0]
    BY <1>2
  <2> QED BY <2>1, <2>2
<1>4. CASE Len(s) >= SeriesCapacity
  <2>1. KeepIn(s, x) = Append(Tail(s), x)
    BY <1>1, <1>2, <1>4
  <2>2. s # <<>> /\ Len(s) >= 2
    BY <1>2, <1>4
  <2>3. Tail(s) \in Seq(CandleRecs) /\ Len(Tail(s)) = Len(s) - 1 /\ \A i \in 1 .. Len(s) - 1 : Tail(s)[i] = s[i + 1]
    BY <2>2
  <2> DEFINE u == Tail(s)
  <2>4. /\ Append(u, x) \in Seq(CandleRecs) /\ Len(Append(u, x)) = Len(u) + 1
        /\ Append(u, x)[Len(u) + 1] = x
        /\ \A i \in 1 .. Len(u) : Append(u, x)[i] = u[i]
    BY <2>3
  <2>5. /\ Append(u, x) \in Seq(CandleRecs) /\ Len(Append(u, x)) = Len(s) + 1 - 1
        /\ Append(u, x)[Len(s) + 1 - 1] = x
        /\ \A i \in 1 .. Len(s) - 1 : i + 1 \in 1 .. Len(s) /\ Append(u, x)[i] = s[i + 1]
    BY <1>2, <2>3, <2>4
  <2> QED BY <2>1, <2>2, <2>5
<1> QED BY <1>2, <1>3, <1>4

(* A closed candle joins the line behind the last one. *)
LEMMA KeepInLine ==
    ASSUME NEW g \in Nat \ {0}, NEW q \in Seq(CandleRecs), InLine(q, g),
           NEW x, Spans(x, g), x.final, After(q, x.open)
    PROVE  /\ KeepIn(q, x) \in Seq(CandleRecs) /\ InLine(KeepIn(q, x), g)
           /\ KeepIn(q, x)[Len(KeepIn(q, x))] = x
           /\ Len(KeepIn(q, x)) \in 1 .. Len(q) + 1
           /\ Len(q) >= 2 => Len(KeepIn(q, x)) >= 2
           /\ \A t \in Int : x.close < t => After(KeepIn(q, x), t)
           /\ \A i \in 1 .. Len(KeepIn(q, x)) - 1 : \E k \in DOMAIN q : KeepIn(q, x)[i] = q[k]
<1> DEFINE r == KeepIn(q, x)
<1>1. x \in CandleRecs
  BY DEF Spans
<1>2. r \in Seq(CandleRecs)
  BY <1>1, KeepInIs
<1>3. PICK d \in {0, 1} : /\ Len(r) = Len(q) + 1 - d /\ r[Len(q) + 1 - d] = x
                          /\ \A i \in 1 .. Len(q) - d : i + d \in 1 .. Len(q) /\ r[i] = q[i + d]
                          /\ d = 1 => Len(q) >= 2
  <2>1. \E d \in {0, 1} :
                /\ Len(KeepIn(q, x)) = Len(q) + 1 - d
                /\ KeepIn(q, x)[Len(q) + 1 - d] = x
                /\ \A i \in 1 .. Len(q) - d : i + d \in 1 .. Len(q) /\ KeepIn(q, x)[i] = q[i + d]
                /\ d = 1 => Len(q) >= 2
    BY <1>1, KeepInIs
  <2> QED BY <2>1
<1> HIDE DEF r
<1>4. Len(q) \in Nat /\ DOMAIN q = 1 .. Len(q) /\ DOMAIN r = 1 .. Len(r)
  BY <1>2
<1>5. Len(r) \in 1 .. Len(q) + 1 /\ r[Len(r)] = x /\ (Len(q) >= 2 => Len(r) >= 2)
  BY <1>3, <1>4
<1>6. ASSUME NEW i \in DOMAIN r
      PROVE  i = Len(r) \/ (i < Len(r) /\ i + d \in DOMAIN q /\ r[i] = q[i + d])
  <2>1. CASE d = 0
    BY <1>3, <1>4, <2>1
  <2>2. CASE d = 1
    BY <1>3, <1>4, <2>2
  <2> QED BY <2>1, <2>2
<1>7. \A i \in DOMAIN r : Spans(r[i], g) /\ r[i].final
  BY <1>5, <1>6 DEF InLine
<1>8. ASSUME NEW i \in DOMAIN r, NEW j \in DOMAIN r, i < j PROVE r[i].close < r[j].open
  <2>1. i < Len(r) /\ i + d \in DOMAIN q /\ r[i] = q[i + d]
    BY <1>4, <1>6, <1>8
  <2>2. CASE j = Len(r)
    BY <1>5, <2>1, <2>2 DEF After
  <2>3. CASE j # Len(r)
    <3>1. j + d \in DOMAIN q /\ r[j] = q[j + d] /\ i + d < j + d
      BY <1>4, <1>6, <1>8, <2>3
    <3> QED BY <2>1, <3>1 DEF InLine
  <2> QED BY <2>2, <2>3
<1>9. InLine(r, g)
  BY <1>7, <1>8 DEF InLine
<1>10. ASSUME NEW t \in Int, x.close < t PROVE After(r, t)
  <2> SUFFICES ASSUME NEW i \in DOMAIN r PROVE r[i].close < t
    BY DEF After
  <2>1. CASE i = Len(r)
    BY <1>5, <1>10, <2>1
  <2>2. CASE i # Len(r)
    <3>1. r[i].close < x.open
      BY <1>6, <2>2 DEF After
    <3>2. r[i].close \in Int
      <4>1. r[i] \in CandleRecs
        BY <1>2
      <4> QED BY <4>1 DEF CandleRecs
    <3>3. x.open < x.close /\ x.open \in Nat /\ x.close \in Nat
      BY SpanIs
    <3> QED BY <1>10, <3>1, <3>2, <3>3
  <2> QED BY <2>1, <2>2
<1>11. ASSUME NEW i \in 1 .. Len(r) - 1 PROVE \E k \in DOMAIN q : r[i] = q[k]
  <2>1. Len(r) \in Nat
    BY <1>2
  <2>2. i \in 1 .. Len(r) /\ i < Len(r)
    BY <2>1
  <2>3. i \in DOMAIN r
    BY <1>4, <2>2
  <2>4. i = Len(r) \/ (i < Len(r) /\ i + d \in DOMAIN q /\ r[i] = q[i + d])
    BY <1>6, <2>3
  <2> QED BY <2>1, <2>2, <2>4
<1> QED BY <1>2, <1>5, <1>9, <1>10, <1>11 DEF r

(* What push_candle lets through opens after each closed candle. *)
LEMMA LetThrough ==
    ASSUME NEW g \in Nat \ {0}, NEW s \in SeriesRecs, InLine(s.candles, g),
           NEW c, Spans(c, 1), ~(c.open < LastFinalized(s).close)
    PROVE  After(s.candles, c.open)
<1> DEFINE q == s.candles
<1>1. q \in Seq(CandleRecs)
  BY DEF SeriesRecs
<1>2. c.open \in Starts /\ c.open \in Nat
  BY SpanIs DEF Spans
<1>3. CASE q = <<>>
  BY <1>3 DEF After
<1>4. CASE q # <<>>
  <2> DEFINE n == Len(q)
  <2>1. n \in Nat \ {0} /\ DOMAIN q = 1 .. n /\ LastFinalized(s) = q[n]
    BY <1>1, <1>4 DEF LastFinalized, Last
  <2>2. q[n].close < c.open /\ q[n].close \in Nat /\ q[n].open < q[n].close /\ q[n].open \in Nat
    <3>1. Spans(q[n], g)
      BY <2>1 DEF InLine
    <3>2. \A a \in Starts : a >= q[n].close => a > q[n].close
      BY <3>1, SpanIs
    <3>3. q[n].close \in Nat /\ q[n].open < q[n].close /\ q[n].open \in Nat
      BY <3>1, SpanIs
    <3> QED BY <1>2, <2>1, <3>2, <3>3
  <2>3. ASSUME NEW i \in DOMAIN q PROVE q[i].close < c.open
    <3>1. CASE i = n
      BY <2>2, <3>1
    <3>2. CASE i # n
      <4>1. q[i].close < q[n].open
        BY <2>1, <3>2 DEF InLine
      <4>2. q[i].close \in Int
        <5>1. q[i] \in CandleRecs
          BY <1>1, <2>1
        <5> QED BY <5>1 DEF CandleRecs
      <4> QED BY <1>2, <2>2, <4>1, <4>2
    <3> QED BY <3>1, <3>2
  <2> QED BY <2>3 DEF After
<1> QED BY <1>3, <1>4

-----------------------------------------------------------------------------
(* What compute does to the averages. *)
LEMMA FedGrows ==
    ASSUME NEW q \in Seq(CandleRecs), q # <<>>, NEW f \in Seq(Int), Rising(f),
           Took(f, q, Len(q) - 1), \A j \in DOMAIN f : f[j] < q[Len(q)].open, q[Len(q)].open >= 0
    PROVE  LET e == Append(f, q[Len(q)].open)
           IN  /\ e \in Seq(Int) /\ Rising(e) /\ Took(e, q, Len(q))
               /\ \A j \in DOMAIN e : e[j] <= q[Len(q)].open
<1> DEFINE a == q[Len(q)].open
           e == Append(f, a)
<1>1. a \in Int /\ Len(q) \in Nat \ {0} /\ Len(f) \in Nat
  <2>1. q[Len(q)] \in CandleRecs /\ Len(q) \in Nat \ {0}
    OBVIOUS
  <2> QED BY <2>1 DEF CandleRecs
<1>2. e \in Seq(Int) /\ Len(e) = Len(f) + 1 /\ e[Len(f) + 1] = a /\ \A j \in 1 .. Len(f) : e[j] = f[j]
  BY <1>1
<1>3. DOMAIN e = 1 .. Len(f) + 1 /\ DOMAIN f = 1 .. Len(f) /\ \A j \in DOMAIN f : f[j] \in Int
  BY <1>2
<1> HIDE DEF e
<1>4. \A j \in DOMAIN e : e[j] = a \/ (j \in DOMAIN f /\ e[j] = f[j])
  BY <1>1, <1>2, <1>3
<1>5. \A j \in DOMAIN e : e[j] <= a /\ e[j] >= 0
  BY <1>1, <1>3, <1>4 DEF Rising
<1>6. \A i, j \in DOMAIN e : i < j => e[i] < e[j]
  <2> SUFFICES ASSUME NEW i \in DOMAIN e, NEW j \in DOMAIN e, i < j PROVE e[i] < e[j]
    OBVIOUS
  <2>1. i \in DOMAIN f /\ e[i] = f[i]
    BY <1>1, <1>2, <1>3
  <2>2. CASE j \in DOMAIN f
    BY <1>2, <1>3, <2>1, <2>2 DEF Rising
  <2>3. CASE j \notin DOMAIN f
    BY <1>1, <1>2, <1>3, <2>1, <2>3
  <2> QED BY <2>2, <2>3
<1>7. Took(e, q, Len(q))
  <2> SUFFICES ASSUME NEW i \in 1 .. Len(q) PROVE \E j \in DOMAIN e : e[j] = q[i].open
    BY DEF Took
  <2>1. CASE i = Len(q)
    BY <1>1, <1>2, <1>3, <2>1
  <2>2. CASE i # Len(q)
    <3>1. i \in 1 .. Len(q) - 1
      BY <1>1, <2>2
    <3>2. PICK j \in DOMAIN f : f[j] = q[i].open
      BY <3>1 DEF Took
    <3> QED BY <1>1, <1>2, <1>3, <3>2
  <2> QED BY <2>1, <2>2
<1> QED BY <1>2, <1>5, <1>6, <1>7 DEF e, Rising

(* A candle that both take does not change what one of them lacks. *)
LEMMA MissedStays ==
    ASSUME NEW f \in FedRecs, Missed(f), NEW a \in Int
    PROVE  Missed([pair |-> Append(f.pair, a), alone |-> Append(f.alone, a)])
<1> DEFINE p == f.pair
           o == f.alone
           n == Len(o)
           e == Append(p, a)
           d == Append(o, a)
<1>1. p \in Seq(Int) /\ o \in Seq(Int) /\ n \in Nat /\ Len(p) = n + 1 /\ n >= 1
  <2>1. p \in Seq(Int) /\ o \in Seq(Int)
    BY DEF FedRecs
  <2>2. Len(p) >= 2 /\ n = Len(p) - 1
    BY DEF Missed
  <2> QED BY <2>1, <2>2
<1>2. Len(e) = n + 2 /\ e[n + 2] = a /\ \A i \in 1 .. n + 1 : e[i] = p[i]
  BY <1>1
<1>3. Len(d) = n + 1 /\ d[n + 1] = a /\ \A i \in 1 .. n : d[i] = o[i]
  BY <1>1
<1>4. o[1] = p[1] /\ \A i \in 2 .. n : o[i] = p[i + 1]
  BY DEF Missed
<1> HIDE DEF e, d, p, o, n
<1>5. \A i \in 2 .. n + 1 : d[i] = e[i + 1]
  <2> SUFFICES ASSUME NEW i \in 2 .. n + 1 PROVE d[i] = e[i + 1]
    OBVIOUS
  <2>1. CASE i = n + 1
    <3>1. i + 1 = n + 2
      BY <1>1, <2>1
    <3> QED BY <1>2, <1>3, <2>1, <3>1
  <2>2. CASE i # n + 1
    <3>1. i \in 2 .. n /\ i \in 1 .. n /\ i + 1 \in 1 .. n + 1
      BY <1>1, <2>2
    <3> QED BY <1>2, <1>3, <1>4, <3>1
  <2> QED BY <2>1, <2>2
<1>6. d[1] = e[1]
  BY <1>1, <1>2, <1>3, <1>4
<1>7. Len(e) >= 2 /\ Len(d) = Len(e) - 1 /\ Len(d) = n + 1
  BY <1>1, <1>2, <1>3
<1>8. Missed([pair |-> e, alone |-> d])
  BY <1>5, <1>6, <1>7 DEF Missed
<1> QED BY <1>8 DEF e, d, p, o

(* A series that is due has a head, and if it is closed, it is the newest. *)
LEMMA HeadIs ==
    ASSUME NEW g \in Nat \ {0}, NEW t \in Int, NEW s, Shape(s, g, t), Behind(s)
    PROVE  /\ s \in SeriesRecs /\ s.candles \in Seq(CandleRecs) /\ HeadCandle(s) \in CandleRecs
           /\ Len(s.candles) \in Nat /\ DOMAIN s.candles = 1 .. Len(s.candles)
           /\ s.working # NoCandle => HeadCandle(s) = s.working /\ ~HeadCandle(s).final
           /\ s.working = NoCandle => /\ s.candles # <<>> /\ HeadCandle(s) = s.candles[Len(s.candles)]
                                      /\ HeadCandle(s).final
           /\ \A i \in DOMAIN s.candles : s.candles[i].open \in Nat
<1>1. s \in SeriesRecs /\ s.candles \in Seq(CandleRecs) /\ s.working \in CandleRecs
  BY DEF Shape, SeriesRecs
<1>2. s.working # NoCandle => HeadCandle(s) = s.working /\ ~HeadCandle(s).final
  BY DEF Shape, Working, HeadCandle
<1>3. ASSUME s.working = NoCandle
      PROVE  /\ s.candles # <<>> /\ HeadCandle(s) = s.candles[Len(s.candles)]
             /\ HeadCandle(s).final /\ HeadCandle(s) \in CandleRecs
  <2>1. s.candles # <<>>
    BY <1>3 DEF Behind
  <2>2. Len(s.candles) \in DOMAIN s.candles
    BY <1>1, <2>1
  <2>3. HeadCandle(s) = s.candles[Len(s.candles)]
    BY <1>3, <2>1 DEF HeadCandle, LastFinalized, Last
  <2> QED BY <1>1, <2>1, <2>2, <2>3 DEF Shape, InLine
<1>4. \A i \in DOMAIN s.candles : s.candles[i].open \in Nat
  BY SpanIs DEF Shape, InLine
<1> QED BY <1>1, <1>2, <1>3, <1>4

LEMMA NumIs ==
    ASSUME NEW s, Len(s.candles) \in Nat
    PROVE  /\ s.working = NoCandle => NumCandles(s) = Len(s.candles)
           /\ s.working # NoCandle => NumCandles(s) = Len(s.candles) + 1
           /\ NumCandles(s) \in Nat
<1>1. CASE s.working = NoCandle
  BY <1>1 DEF NumCandles
<1>2. CASE s.working # NoCandle
  BY <1>2 DEF NumCandles
<1> QED BY <1>1, <1>2

(* The shape is about these parts only. *)
LEMMA ShapeSame ==
    ASSUME NEW g, NEW t, NEW s, Shape(s, g, t), NEW r \in SeriesRecs,
           r.candles = s.candles, r.working = s.working, r.backup = s.backup, r.next = s.next
    PROVE  Shape(r, g, t)
BY DEF Shape

(* The newest state is that of the head. *)
LEMMA StatesEnd ==
    ASSUME NEW u \in Seq(CandleRecs), NEW h \in CandleRecs
    PROVE  /\ KeepIn(u, h) \in Seq(CandleRecs) /\ KeepIn(u, h)[Len(KeepIn(u, h))] = h
           /\ u # <<>> => /\ ReplaceAt(u, Len(u), h) \in Seq(CandleRecs)
                          /\ ReplaceAt(u, Len(u), h)[Len(ReplaceAt(u, Len(u), h))] = h
<1>1. KeepIn(u, h) \in Seq(CandleRecs)
  BY KeepInIs
<1>2. \E d \in {0, 1} :
            /\ Len(KeepIn(u, h)) = Len(u) + 1 - d
            /\ KeepIn(u, h)[Len(u) + 1 - d] = h
  BY KeepInIs
<1>3. KeepIn(u, h)[Len(KeepIn(u, h))] = h
  BY <1>2
<1>4. ASSUME u # <<>>
      PROVE  /\ ReplaceAt(u, Len(u), h) \in Seq(CandleRecs)
             /\ ReplaceAt(u, Len(u), h)[Len(ReplaceAt(u, Len(u), h))] = h
  <2>1. ReplaceAt(u, Len(u), h) = [u EXCEPT ![Len(u)] = h]
    BY DEF ReplaceAt
  <2>2. [u EXCEPT ![Len(u)] = h] \in Seq(CandleRecs) /\ Len([u EXCEPT ![Len(u)] = h]) = Len(u)
    <3>1. Len(u) \in 1 .. Len(u)
      BY <1>4
    <3> QED BY <3>1
  <2>3. Len(u) \in DOMAIN u
    BY <1>4
  <2> QED BY <2>1, <2>2, <2>3
<1> QED BY <1>1, <1>3, <1>4

(* Once the indicators are made, compute takes the head to them. *)
LEMMA ComputeStarted ==
    ASSUME NEW g \in Nat \ {0}, NEW t \in Int, NEW s, Shape(s, g, t), Behind(s), s.started
    PROVE  Shape(KeepState(Feed(s)), g, t) /\ Following(KeepState(Feed(s)))
<1> DEFINE h == HeadCandle(s)
           fp == Append(s.fed.pair, h.open)
           fa == Append(s.fed.alone, h.open)
           f == IF h.final THEN [pair |-> fp, alone |-> fa] ELSE s.fed
           a == [s EXCEPT !.fed = f]
           u == IF h.final \/ s.states = <<>> THEN KeepIn(s.states, h) ELSE ReplaceAt(s.states, Len(s.states), h)
           r == [a EXCEPT !.states = u]
           q == s.candles
<1>1. /\ s \in SeriesRecs /\ q \in Seq(CandleRecs) /\ h \in CandleRecs
      /\ Len(q) \in Nat /\ DOMAIN q = 1 .. Len(q) /\ \A i \in DOMAIN q : q[i].open \in Nat
  BY HeadIs
<1>2. s.working # NoCandle => h = s.working /\ ~h.final
  BY HeadIs
<1>3. s.working = NoCandle => q # <<>> /\ h = q[Len(q)] /\ h.final
  BY HeadIs
<1>4. /\ s.fed \in FedRecs /\ s.fed.pair \in Seq(Int) /\ s.fed.alone \in Seq(Int)
      /\ s.states \in Seq(CandleRecs) /\ h.open \in Int
  BY <1>1 DEF SeriesRecs, CandleRecs, FedRecs
<1>5. f \in FedRecs
  <2>1. fp \in Seq(Int) /\ fa \in Seq(Int)
    BY <1>4
  <2> HIDE DEF fp, fa
  <2> QED BY <1>4, <2>1 DEF FedRecs
<1>6. Feed(s) = a
  <2>1. CASE h.final
    BY <2>1 DEF Feed
  <2>2. CASE ~h.final
    BY <1>1, <2>2 DEF Feed, SeriesRecs
  <2> QED BY <2>1, <2>2
<1>7. /\ a \in SeriesRecs /\ a.candles = q /\ a.working = s.working /\ a.backup = s.backup
      /\ a.next = s.next /\ a.states = s.states /\ a.started = s.started /\ a.fed = f
  <2> HIDE DEF f
  <2> QED BY <1>1, <1>5 DEF SeriesRecs
<1>8. HeadCandle(a) = h
  <2> HIDE DEF a
  <2> QED BY <1>7 DEF HeadCandle, LastFinalized
<1>9. KeepState(a) = r
  <2> HIDE DEF a
  <2> QED BY <1>7, <1>8 DEF KeepState
<1>10. u \in Seq(CandleRecs) /\ u[Len(u)] = h
  BY <1>1, <1>4, StatesEnd
<1>11. /\ r \in SeriesRecs /\ r.candles = q /\ r.working = s.working /\ r.backup = s.backup
       /\ r.next = s.next /\ r.states = u /\ r.started = s.started /\ r.fed = f
  <2> HIDE DEF a, u, f, q
  <2> QED BY <1>7, <1>10 DEF SeriesRecs
<1> HIDE DEF r, u
<1>12. HeadCandle(r) = h
  BY <1>11 DEF HeadCandle, LastFinalized
<1>13. Len(q) >= 2 /\ Taken(s.fed)
  BY DEF Behind
<1>14. /\ Taken(f) /\ Took(f.pair, q, Len(q))
       /\ \A j \in DOMAIN f.pair : f.pair[j] <= q[Len(q)].open
  <2>1. CASE s.working = NoCandle
    <3>1. f = [pair |-> fp, alone |-> fa] /\ fp = Append(s.fed.pair, q[Len(q)].open)
      BY <1>3, <2>1
    <3>2. Took(s.fed.pair, q, Len(q) - 1) /\ \A j \in DOMAIN s.fed.pair : s.fed.pair[j] < q[Len(q)].open
      BY <2>1 DEF Behind
    <3>3. q[Len(q)].open >= 0 /\ q # <<>>
      BY <1>1, <1>13
    <3>4. Rising(s.fed.pair) /\ Missed(s.fed)
      BY <1>13 DEF Taken
    <3>5. /\ Rising(fp) /\ Took(fp, q, Len(q))
          /\ \A j \in DOMAIN fp : fp[j] <= q[Len(q)].open
      BY <1>1, <1>4, <3>1, <3>2, <3>3, <3>4, FedGrows
    <3>6. Missed([pair |-> fp, alone |-> fa])
      BY <1>4, <3>4, MissedStays
    <3> HIDE DEF fp, fa, f
    <3> QED BY <3>1, <3>5, <3>6 DEF Taken
  <2>2. CASE s.working # NoCandle
    BY <1>2, <2>2 DEF Behind
  <2> QED BY <2>1, <2>2
<1>15. Following(r)
  <2> HIDE DEF f, q
  <2> QED BY <1>10, <1>11, <1>12, <1>13, <1>14 DEF Following
<1>16. Shape(r, g, t)
  BY <1>11, ShapeSame
<1> QED BY <1>6, <1>9, <1>15, <1>16

(* The indicators are made of the two oldest candles. *)
LEMMA StartBehind ==
    ASSUME NEW g \in Nat \ {0}, NEW t \in Int, NEW s, Shape(s, g, t), Behind(s),
           ~s.started, NumCandles(s) >= 3
    PROVE  Shape(WorkingState(s), g, t) /\ Behind(WorkingState(s)) /\ WorkingState(s).started
<1> DEFINE q == s.candles
           fp == <<q[1].open, q[2].open>>
           fa == <<q[1].open>>
           f == [pair |-> fp, alone |-> fa]
           r == [s EXCEPT !.started = TRUE, !.fed = f]
<1>1. /\ s \in SeriesRecs /\ q \in Seq(CandleRecs)
      /\ Len(q) \in Nat /\ DOMAIN q = 1 .. Len(q) /\ \A i \in DOMAIN q : q[i].open \in Nat
  BY HeadIs
<1>2. NumCandles(s) = 3
  BY <1>1, NumIs DEF Behind
<1>3. /\ s.working = NoCandle => Len(q) = 3
      /\ s.working # NoCandle => Len(q) = 2
  <2>1. CASE s.working = NoCandle
    <3>1. NumCandles(s) = Len(q)
      BY <1>1, <2>1, NumIs
    <3> QED BY <1>2, <2>1, <3>1
  <2>2. CASE s.working # NoCandle
    <3>1. NumCandles(s) = Len(q) + 1
      BY <1>1, <2>2, NumIs
    <3> HIDE DEF q
    <3>2. Len(q) = 2
      BY <1>1, <1>2, <3>1
    <3> QED BY <2>2, <3>2
  <2> QED BY <2>1, <2>2
<1>4. q[1].open \in Nat /\ q[2].open \in Nat /\ q[1].close < q[2].open
  BY <1>1, <1>3 DEF Shape, InLine
<1>5. q[1].open < q[2].open /\ (Len(q) = 3 => q[2].open < q[3].open)
  <2>1. \A i \in DOMAIN q : Spans(q[i], g)
    BY DEF Shape, InLine
  <2>2. \A i \in DOMAIN q : q[i].open \in Nat /\ q[i].close \in Nat /\ q[i].open < q[i].close
    BY <2>1, SpanIs
  <2>3. \A i, j \in DOMAIN q : i < j => q[i].close < q[j].open
    BY DEF Shape, InLine
  <2>4. 1 \in DOMAIN q /\ 2 \in DOMAIN q /\ (Len(q) = 3 => 3 \in DOMAIN q)
    <3>1. Len(q) = 2 \/ Len(q) = 3
      <4>1. CASE s.working = NoCandle
        BY <1>3, <4>1
      <4>2. CASE s.working # NoCandle
        BY <1>3, <4>2
      <4> QED BY <4>1, <4>2
    <3> HIDE DEF q
    <3> QED BY <1>1, <3>1
  <2>5. Len(q) = 3 => q[2].close < q[3].open
    BY <2>3, <2>4
  <2> HIDE DEF q
  <2> QED BY <1>4, <2>2, <2>4, <2>5
<1>6. fp \in Seq(Int) /\ DOMAIN fp = 1 .. 2 /\ fp[1] = q[1].open /\ fp[2] = q[2].open
  BY <1>4
<1>13. fa \in Seq(Int) /\ Len(fa) = 1 /\ fa[1] = q[1].open /\ Len(fp) = 2
  BY <1>4
<1> HIDE DEF fp, fa
<1>15. \A i \in 2 .. Len(fa) : FALSE
  BY <1>13
<1>14. f \in FedRecs /\ Missed(f) /\ f.pair = fp
  <2>1. f \in FedRecs
    BY <1>6, <1>13 DEF FedRecs
  <2>2. Len(fa) = Len(fp) - 1 /\ fa[1] = fp[1] /\ Len(fp) >= 2
    BY <1>6, <1>13
  <2> QED BY <1>15, <2>1, <2>2 DEF Missed
<1>7. /\ r \in SeriesRecs /\ r.candles = q /\ r.working = s.working /\ r.backup = s.backup
      /\ r.next = s.next /\ r.started = TRUE /\ r.fed = f /\ WorkingState(s) = r
  <2>1. WorkingState(s) = r
    BY DEF WorkingState, fp, fa
  <2> HIDE DEF f
  <2> QED BY <1>1, <1>14, <2>1 DEF SeriesRecs
<1> HIDE DEF r, f
<1>8. Shape(r, g, t)
  BY <1>7, ShapeSame
<1>9. Taken(f) /\ Took(f.pair, q, 2)
  <2>1. Rising(fp) /\ Took(fp, q, 2)
    BY <1>4, <1>5, <1>6 DEF Rising, Took
  <2> QED BY <1>14, <2>1 DEF Taken
<1>10. \A j \in DOMAIN f.pair : f.pair[j] <= q[2].open
  BY <1>4, <1>5, <1>6, <1>14
<1>11. CASE s.working = NoCandle
  <2>1. Len(q) = 3 /\ q # <<>> /\ q[3].open \in Nat
    BY <1>1, <1>3, <1>11
  <2>2. \A j \in DOMAIN f.pair : f.pair[j] < q[3].open
    BY <1>4, <1>5, <1>6, <1>14, <2>1
  <2>3. Behind(r)
    <3> HIDE DEF q
    <3> QED BY <1>7, <1>9, <1>11, <2>1, <2>2 DEF Behind
  <2> QED BY <1>7, <1>8, <2>3
<1>12. CASE s.working # NoCandle
  <2>1. Len(q) = 2
    BY <1>3, <1>12
  <2>2. Behind(r)
    <3> HIDE DEF q
    <3> QED BY <1>7, <1>9, <1>10, <1>12, <2>1 DEF Behind
  <2> QED BY <1>7, <1>8, <2>2
<1> QED BY <1>11, <1>12

(* compute: the averages and the states follow the candles. *)
LEMMA ComputeFollows ==
    ASSUME NEW g \in Nat \ {0}, NEW t \in Int, NEW s, Shape(s, g, t), Behind(s)
    PROVE  Shape(Compute(s), g, t) /\ Following(Compute(s))
<1>1. s \in SeriesRecs /\ Len(s.candles) \in Nat
  BY HeadIs
<1>2. CASE s.started
  <2>1. NumCandles(s) >= 2
    BY <1>1, <1>2, NumIs DEF Behind
  <2>2. Compute(s) = KeepState(Feed(s))
    <3>1. NumCandles(s) \in Nat
      BY <1>1, NumIs
    <3> QED BY <1>2, <2>1, <3>1 DEF Compute, InitializeWorkingState
  <2> QED BY <1>2, <2>2, ComputeStarted
<1>3. CASE ~s.started /\ NumCandles(s) >= 3
  <2>1. Shape(WorkingState(s), g, t) /\ Behind(WorkingState(s)) /\ WorkingState(s).started
    BY <1>3, StartBehind
  <2>2. Compute(s) = KeepState(Feed(WorkingState(s)))
    BY <1>1, <1>3, NumIs, <2>1 DEF Compute, InitializeWorkingState
  <2>3. Shape(KeepState(Feed(WorkingState(s))), g, t) /\ Following(KeepState(Feed(WorkingState(s))))
    BY <2>1, ComputeStarted
  <2> QED BY <2>2, <2>3
<1>4. CASE ~s.started /\ NumCandles(s) < 3
  <2>1. Compute(s) = s
    BY <1>4 DEF Compute, InitializeWorkingState
  <2>2. Following(s)
    BY <1>1, <1>4, NumIs DEF Behind, Following
  <2> QED BY <2>1, <2>2
<1>5. NumCandles(s) \in Nat
  BY <1>1, NumIs
<1> QED BY <1>2, <1>3, <1>4, <1>5

-----------------------------------------------------------------------------
(* What the pushes do before they compute. *)

(* A closed candle is pushed, and there is no working one any more. *)
LEMMA PushedBehind ==
    ASSUME NEW g \in Nat \ {0}, NEW t \in Int, NEW s, Shape(s, g, t), Following(s),
           NEW x, Spans(x, g), x.final, After(s.candles, x.open), g = 1 => x.close < t,
           NEW r \in SeriesRecs, r.candles = KeepIn(s.candles, x), r.working = NoCandle, r.backup = NoCandle,
           r.next = NoCandle \/ Given(r.next, g, t),
           r.started = s.started, r.fed = s.fed, r.states = s.states
    PROVE  Shape(r, g, t) /\ Behind(r)
<1> DEFINE q == s.candles
           p == KeepIn(q, x)
<1>1. q \in Seq(CandleRecs) /\ InLine(q, g) /\ s.fed.pair \in Seq(Int)
  BY DEF Shape, SeriesRecs, FedRecs
<1>2. /\ p \in Seq(CandleRecs) /\ InLine(p, g) /\ p[Len(p)] = x
      /\ Len(p) \in 1 .. Len(q) + 1 /\ (Len(q) >= 2 => Len(p) >= 2)
  BY <1>1, KeepInLine
<1>3. \A n \in Int : x.close < n => After(p, n)
  BY <1>1, KeepInLine
<1>4. \A i \in 1 .. Len(p) - 1 : \E k \in DOMAIN q : p[i] = q[k]
  <2>1. \A i \in 1 .. Len(KeepIn(q, x)) - 1 : \E k \in DOMAIN q : KeepIn(q, x)[i] = q[k]
    <3> HIDE DEF q, p
    <3>1. After(q, x.open)
      BY DEF q
    <3> QED BY <1>1, <3>1, KeepInLine
  <2> QED BY <2>1
<1>5. r.candles = p
  OBVIOUS
<1> HIDE DEF p
<1>6. (NoCandle.open = 0 - 1 /\ ~NoCandle.final /\ t >= 0 - 1) \/ g # 1
  <2>1. CASE g = 1
    <3>1. x.close < t /\ x.close \in Nat
      BY <2>1, SpanIs
    <3> QED BY <3>1 DEF NoCandle
  <2> QED BY <2>1
<1>7. Copied(r.working, r.backup, g)
  BY DEF Copied, NoCandle
<1>8. g = 1 => After(p, t) /\ r.working.open <= t
  BY <1>3, <1>6
<1>9. Shape(r, g, t)
  BY <1>2, <1>5, <1>7, <1>8 DEF Shape, Working
<1>10. Len(q) \in Nat /\ Len(p) \in Nat /\ p # <<>> /\ DOMAIN q = 1 .. Len(q)
  BY <1>1, <1>2
<1>11. CASE ~s.started
  <2>1. NumCandles(s) <= 2 /\ s.fed = NothingFed /\ s.states = <<>>
    BY <1>11 DEF Following
  <2>2. Len(q) <= NumCandles(s) /\ NumCandles(s) \in Nat
    BY <1>10, NumIs
  <2>3. Len(p) <= 3
    BY <1>2, <1>10, <2>1, <2>2
  <2>4. NumCandles(r) = Len(p)
    BY <1>5, <1>10, NumIs
  <2> QED BY <1>5, <1>9, <1>10, <1>11, <2>1, <2>3, <2>4 DEF Behind
<1>12. CASE s.started
  <2>1. /\ Len(q) >= 2 /\ Taken(s.fed) /\ Took(s.fed.pair, q, Len(q))
        /\ \A j \in DOMAIN s.fed.pair : s.fed.pair[j] <= q[Len(q)].open
    BY <1>12 DEF Following
  <2>2. Took(s.fed.pair, p, Len(p) - 1)
    <3> SUFFICES ASSUME NEW i \in 1 .. Len(p) - 1 PROVE \E j \in DOMAIN s.fed.pair : s.fed.pair[j] = p[i].open
      BY DEF Took
    <3>1. PICK k \in DOMAIN q : p[i] = q[k]
      BY <1>4
    <3> QED BY <1>10, <2>1, <3>1 DEF Took
  <2>3. q[Len(q)].open < x.open /\ q[Len(q)].open \in Nat /\ x.open \in Nat
    <3>1. Len(q) \in DOMAIN q
      BY <1>10, <2>1
    <3>2. Spans(q[Len(q)], g) /\ q[Len(q)].close < x.open
      BY <1>1, <3>1 DEF InLine, After
    <3>3. /\ q[Len(q)].open \in Nat /\ q[Len(q)].close \in Nat /\ q[Len(q)].open < q[Len(q)].close
          /\ x.open \in Nat
      BY <3>2, SpanIs
    <3> QED BY <3>2, <3>3
  <2>4. \A j \in DOMAIN s.fed.pair : s.fed.pair[j] \in Int
    BY <1>1
  <2>5. \A j \in DOMAIN s.fed.pair : s.fed.pair[j] < p[Len(p)].open
    BY <1>2, <2>1, <2>3, <2>4
  <2> QED BY <1>2, <1>5, <1>9, <1>10, <1>12, <2>1, <2>2, <2>5 DEF Behind
<1> QED BY <1>11, <1>12

(* There is a working candle, new or changed. *)
LEMMA WorkingBehind ==
    ASSUME NEW g \in Nat \ {0}, NEW t \in Int, NEW s, Shape(s, g, t), Following(s),
           NEW w, Spans(w, g), ~w.final, After(s.candles, w.open), g = 1 => w.open <= t,
           NEW r \in SeriesRecs, r.candles = s.candles, r.working = w, Copied(w, r.backup, g),
           r.next = NoCandle \/ Given(r.next, g, t),
           r.started = s.started, r.fed = s.fed, r.states = s.states
    PROVE  Shape(r, g, t) /\ Behind(r)
<1>1. Shape(r, g, t)
  BY DEF Shape, Working
<1>2. w # NoCandle
  BY SpanIs
<1>3. Len(s.candles) \in Nat
  BY DEF Shape, SeriesRecs
<1>4. CASE ~s.started
  <2>1. NumCandles(s) <= 2 /\ s.fed = NothingFed /\ s.states = <<>>
    BY <1>4 DEF Following
  <2>2. Len(s.candles) <= NumCandles(s) /\ NumCandles(s) \in Nat
    BY <1>3, NumIs
  <2>3. NumCandles(r) = Len(s.candles) + 1
    BY <1>2, <1>3, NumIs
  <2>4. NumCandles(r) <= 3
    BY <1>3, <2>1, <2>2, <2>3
  <2> QED BY <1>1, <1>2, <1>4, <2>1, <2>4 DEF Behind
<1>5. CASE s.started
  BY <1>1, <1>2, <1>5 DEF Behind, Following
<1> QED BY <1>4, <1>5

(* The working candle is closed. *)
LEMMA FinalizeBehind ==
    ASSUME NEW g \in Nat \ {0}, NEW t \in Int, NEW s, Shape(s, g, t), Following(s),
           s.working # NoCandle, g = 1 => s.working.close < t,
           NEW r \in SeriesRecs, r.candles = Finalize(s).candles, r.working = NoCandle, r.backup = NoCandle,
           r.next = s.next, r.started = s.started, r.fed = s.fed, r.states = s.states
    PROVE  Shape(r, g, t) /\ Behind(r)
<1> DEFINE w == s.working
           x == [w EXCEPT !.final = TRUE]
<1>1. s \in SeriesRecs /\ w \in CandleRecs
  BY DEF Shape, SeriesRecs
<1>2. Spans(w, g) /\ After(s.candles, w.open)
  BY DEF Shape, Working
<1>3. x \in CandleRecs /\ x.open = w.open /\ x.close = w.close /\ x.final
  BY <1>1 DEF CandleRecs
<1>4. Spans(x, g) /\ After(s.candles, x.open) /\ (g = 1 => x.close < t)
  BY <1>2, <1>3 DEF Spans
<1>5. Finalize(s).candles = KeepIn(s.candles, x)
  BY <1>1 DEF Finalize, SeriesRecs
<1>6. r.next = NoCandle \/ Given(r.next, g, t)
  BY DEF Shape
<1> HIDE DEF x
<1> QED BY <1>3, <1>4, <1>5, <1>6, PushedBehind

-----------------------------------------------------------------------------
(* The pushes *)

(* What is given later does not disturb a series. *)
LEMMA NextTaken ==
    ASSUME NEW g \in Nat \ {0}, NEW t \in Int, NEW s, Shape(s, g, t), Following(s),
           NEW c, Given(c, g, t), NEW r, r = [s EXCEPT !.next = c]
    PROVE  /\ Shape(r, g, t) /\ Following(r)
           /\ r.candles = s.candles /\ r.working = s.working
<1>1. c \in CandleRecs /\ s \in SeriesRecs
  BY DEF Given, Spans, Shape
<1>2. /\ r \in SeriesRecs /\ r.candles = s.candles /\ r.working = s.working /\ r.backup = s.backup
      /\ r.next = c /\ r.started = s.started /\ r.fed = s.fed /\ r.states = s.states
  BY <1>1 DEF SeriesRecs
<1>3. Shape(r, g, t)
  BY <1>2 DEF Shape
<1>4. HeadCandle(r) = HeadCandle(s) /\ NumCandles(r) = NumCandles(s)
  BY <1>2 DEF HeadCandle, NumCandles, LastFinalized
<1>5. Following(r)
  BY <1>2, <1>4 DEF Following
<1> QED BY <1>2, <1>3, <1>5

(* A candle of the series' own frame.  The case in which it opens within the
   working candle never is, and neither is a working candle that is final.   *)
LEMMA TakeOwnKeeps ==
    ASSUME NEW t \in Int, NEW s, Shape(s, 1, t), Following(s),
           NEW c, Given(c, 1, t), After(s.candles, c.open)
    PROVE  Shape(TakeOwn(s, c), 1, t) /\ Following(TakeOwn(s, c))
<1> DEFINE w == s.working
<1>1. /\ s \in SeriesRecs /\ w \in CandleRecs /\ s.backup = NoCandle
      /\ s.next = NoCandle \/ Given(s.next, 1, t)
  BY DEF Shape, Copied, SeriesRecs
<1>2. /\ c \in CandleRecs /\ Spans(c, 1) /\ c.open \in Nat /\ c.open \in Starts
      /\ c.open <= t /\ (c.final => c.close < t)
  BY SpanIs DEF Given, Spans
<1>3. 1 \in Nat \ {0} /\ Copied(NoCandle, NoCandle, 1) /\ Copied(c, NoCandle, 1)
  BY DEF Copied
<1>4. CASE w = NoCandle /\ c.final
  <2> DEFINE r == [s EXCEPT !.candles = KeepIn(@, c)]
  <2>1. TakeOwn(s, c) = Compute(r)
    BY <1>4 DEF TakeOwn
  <2>2. KeepIn(s.candles, c) \in Seq(CandleRecs)
    BY <1>1, <1>2, KeepInIs DEF SeriesRecs
  <2>3. /\ r \in SeriesRecs /\ r.candles = KeepIn(s.candles, c) /\ r.working = NoCandle
        /\ r.backup = NoCandle /\ r.next = s.next /\ r.started = s.started /\ r.fed = s.fed
        /\ r.states = s.states
    BY <1>1, <1>4, <2>2 DEF SeriesRecs
  <2> HIDE DEF r
  <2>4. Shape(r, 1, t) /\ Behind(r)
    BY <1>1, <1>2, <1>3, <1>4, <2>3, PushedBehind
  <2> QED BY <1>3, <2>1, <2>4, ComputeFollows
<1>5. CASE w = NoCandle /\ ~c.final
  <2> DEFINE r == [s EXCEPT !.working = c]
  <2>1. TakeOwn(s, c) = Compute(r)
    BY <1>5 DEF TakeOwn
  <2>2. /\ r \in SeriesRecs /\ r.candles = s.candles /\ r.working = c
        /\ r.backup = NoCandle /\ r.next = s.next /\ r.started = s.started /\ r.fed = s.fed
        /\ r.states = s.states
    BY <1>1, <1>2 DEF SeriesRecs
  <2> HIDE DEF r
  <2>3. Shape(r, 1, t) /\ Behind(r)
    BY <1>1, <1>2, <1>3, <1>5, <2>2, WorkingBehind
  <2> QED BY <1>3, <2>1, <2>3, ComputeFollows
<1>6. CASE w # NoCandle
  <2>1. Spans(w, 1) /\ ~w.final /\ w.open \in Starts /\ w.close = w.open + BaseTicks - 1
    BY <1>6, SeriesAssumption DEF Shape, Working, Spans
  <2>2. w.open \in Nat /\ (w.open < c.open => w.open + BaseTicks <= c.open)
    BY <1>2, <2>1, StartsApart
  <2>3. c.open <= w.open \/ c.open > w.close
    BY <1>2, <2>1, <2>2, SeriesAssumption
  <2>4. w.open < w.close /\ w.close \in Nat
    BY <2>1, SpanIs, <1>3
  <2> DEFINE later == c.open > w.close
             within == c.open > w.open
             earlier == c.open <= w.open
  <2>5. TakeOwn(s, c) =
        CASE w = NoCandle /\ c.final -> Compute([s EXCEPT !.candles = KeepIn(s.candles, c)])
          [] w = NoCandle /\ ~c.final -> Compute([s EXCEPT !.working = c])
          [] w # NoCandle /\ later /\ w.final -> Compute([Finalize(s) EXCEPT !.next = c])
          [] w # NoCandle /\ earlier -> s
          [] w # NoCandle /\ later /\ ~w.final -> Compute(Finalize(s))
          [] w # NoCandle /\ within /\ c.open <= w.close ->
               Compute([s EXCEPT !.candles = KeepIn(s.candles, w), !.working = c, !.backup = NoCandle])
    BY Zenon DEF TakeOwn
  <2>6. CASE c.open <= w.open
    <3>1. ~(c.open > w.close) /\ ~(c.open > w.open)
      BY <1>2, <2>2, <2>4, <2>6
    <3>2. TakeOwn(s, c) = s
      <4>1. ~later /\ ~within /\ earlier
        BY <2>6, <3>1
      <4>2. w # NoCandle
        BY <1>6
      <4> HIDE DEF w, later, within, earlier
      <4> QED BY <2>5, <4>1, <4>2
    <3> QED BY <3>2
  <2>7. CASE c.open > w.close
    <3> DEFINE r == Finalize(s)
    <3>1. ~(c.open <= w.open)
      BY <1>2, <2>2, <2>4, <2>7
    <3>2. TakeOwn(s, c) = Compute(r)
      <4>1. later /\ ~earlier /\ ~w.final /\ ~(c.open <= w.close)
        BY <1>2, <2>1, <2>4, <2>7, <3>1
      <4>2. w # NoCandle
        BY <1>6
      <4> HIDE DEF w, later, within, earlier, r
      <4>3. TakeOwn(s, c) = Compute(Finalize(s))
        BY <2>5, <4>1, <4>2
      <4> QED BY <4>3 DEF r
    <3>3. KeepIn(s.candles, [w EXCEPT !.final = TRUE]) \in Seq(CandleRecs) /\ NoCandle \in CandleRecs
      <4>1. [w EXCEPT !.final = TRUE] \in CandleRecs
        BY <1>1 DEF CandleRecs
      <4> QED BY <1>1, <4>1, KeepInIs DEF SeriesRecs, NoCandle, CandleRecs
    <3>4. /\ r \in SeriesRecs /\ r.working = NoCandle
          /\ r.backup = NoCandle /\ r.next = s.next /\ r.started = s.started /\ r.fed = s.fed
          /\ r.states = s.states
      BY <1>1, <3>3 DEF SeriesRecs, Finalize
    <3> HIDE DEF r
    <3>5. r.candles = Finalize(s).candles
      BY DEF r
    <3>6. w.close < t
      BY <1>2, <2>4, <2>7
    <3>7. Shape(r, 1, t) /\ Behind(r)
      BY <1>3, <1>6, <3>4, <3>5, <3>6, FinalizeBehind
    <3> QED BY <1>3, <3>2, <3>7, ComputeFollows
  <2> QED BY <2>3, <2>6, <2>7
<1> QED BY <1>4, <1>5, <1>6

(* A trade: it changes the working candle, opens one or closes it. *)
LEMMA ApplyTradeKeeps ==
    ASSUME NEW n \in Nat, NEW s, Shape(s, 1, StartTime(n)), Following(s)
    PROVE  Shape(ApplyTrade(s, n, 1), 1, StartTime(n)) /\ Following(ApplyTrade(s, n, 1))
<1> DEFINE w == s.working
           t == StartTime(n)
<1>1. /\ s \in SeriesRecs /\ w \in CandleRecs /\ s.backup = NoCandle
      /\ s.next = NoCandle \/ Given(s.next, 1, t)
  BY DEF Shape, Copied, SeriesRecs
<1>2. /\ t \in Starts /\ t <= n /\ t \in Nat
      /\ \A a \in Starts : a <= n => a <= t
  BY StartTimeIs
<1>3. 1 \in Nat \ {0} /\ NoCandle \in CandleRecs
  BY DEF NoCandle, CandleRecs
<1>4. CASE w = NoCandle
  <2> DEFINE c == Candle(t, BaseTicks, TRUE, FALSE, 1)
             r == [s EXCEPT !.working = c]
  <2>1. ApplyTrade(s, n, 1) = Compute(r)
    BY <1>4 DEF ApplyTrade
  <2>2. c \in CandleRecs /\ Spans(c, 1) /\ ~c.final /\ c.open = t
    BY <1>2, SeriesAssumption DEF Candle, CandleRecs, Spans
  <2>3. Copied(c, NoCandle, 1) /\ After(s.candles, c.open)
    BY <2>2 DEF Copied, Shape
  <2> HIDE DEF c
  <2>4. /\ r \in SeriesRecs /\ r.candles = s.candles /\ r.working = c
        /\ r.backup = NoCandle /\ r.next = s.next /\ r.started = s.started /\ r.fed = s.fed
        /\ r.states = s.states
    BY <1>1, <2>2 DEF SeriesRecs
  <2> HIDE DEF r
  <2>5. c.open <= t /\ t \in Int
    BY <1>2, <2>2
  <2> HIDE DEF t
  <2>6. Shape(s, 1, t)
    BY DEF t
  <2>7. Shape(r, 1, t) /\ Behind(r)
    BY <1>1, <1>3, <2>2, <2>3, <2>4, <2>5, <2>6, WorkingBehind
  <2>8. Shape(Compute(r), 1, t) /\ Following(Compute(r))
    BY <1>3, <2>5, <2>7, ComputeFollows
  <2> QED BY <2>1, <2>8 DEF t
<1>5. CASE w # NoCandle
  <2>1. Spans(w, 1) /\ ~w.final /\ After(s.candles, w.open) /\ w.open <= t
    BY <1>5 DEF Shape, Working
  <2>2. w.close \in Nat /\ w.close + 1 \in Starts
    BY <2>1, SpanIs
  <2>3. CASE n <= w.close
    <3> DEFINE c == [w EXCEPT !.volume = @ + 1]
               r == [s EXCEPT !.working.volume = @ + 1]
    <3>1. ApplyTrade(s, n, 1) = Compute(r)
      <4>1. ~(n > w.close)
        BY <2>2, <2>3
      <4>2. [s EXCEPT !.working.volume = w.volume + 1] = r
        OBVIOUS
      <4>3. ApplyTrade(s, n, 1) =
            CASE w # NoCandle /\ n <= w.close -> Compute([s EXCEPT !.working.volume = w.volume + 1])
              [] w # NoCandle /\ n > w.close -> Compute(Finalize(s))
              [] OTHER -> Compute([s EXCEPT !.working = Candle(StartTime(n), BaseTicks, 1 = 1, FALSE, 1)])
        BY Zenon DEF ApplyTrade
      <4> HIDE DEF w, r
      <4> QED BY <1>5, <2>3, <4>1, <4>2, <4>3
    <3>2. c \in CandleRecs /\ Spans(c, 1) /\ ~c.final /\ c.open = w.open
      BY <1>1, <2>1 DEF CandleRecs, Spans
    <3>3. Copied(c, NoCandle, 1) /\ After(s.candles, c.open) /\ c.open <= t
      BY <2>1, <3>2 DEF Copied
    <3>4. /\ r \in SeriesRecs /\ r.candles = s.candles /\ r.working = c
          /\ r.backup = NoCandle /\ r.next = s.next /\ r.started = s.started /\ r.fed = s.fed
          /\ r.states = s.states
      BY <1>1, <3>2 DEF SeriesRecs
    <3> HIDE DEF r, c
    <3>5. t \in Int
      BY <1>2
    <3> HIDE DEF t
    <3>6. Shape(s, 1, t)
      BY DEF t
    <3>7. Shape(r, 1, t) /\ Behind(r)
      BY <1>1, <1>3, <3>2, <3>3, <3>4, <3>5, <3>6, WorkingBehind
    <3>8. Shape(Compute(r), 1, t) /\ Following(Compute(r))
      BY <1>3, <3>5, <3>7, ComputeFollows
    <3> QED BY <3>1, <3>8 DEF t
  <2>4. CASE n > w.close
    <3> DEFINE r == Finalize(s)
    <3>1. ~(n <= w.close)
      BY <2>2, <2>4
    <3>2. ApplyTrade(s, n, 1) = Compute(r)
      BY <1>5, <2>4, <3>1 DEF ApplyTrade
    <3>3. KeepIn(s.candles, [w EXCEPT !.final = TRUE]) \in Seq(CandleRecs)
      <4>1. [w EXCEPT !.final = TRUE] \in CandleRecs
        BY <1>1 DEF CandleRecs
      <4> QED BY <1>1, <4>1, KeepInIs DEF SeriesRecs
    <3>4. /\ r \in SeriesRecs /\ r.working = NoCandle
          /\ r.backup = NoCandle /\ r.next = s.next /\ r.started = s.started /\ r.fed = s.fed
          /\ r.states = s.states
      BY <1>1, <1>3, <3>3 DEF SeriesRecs, Finalize
    <3> HIDE DEF r
    <3>5. r.candles = Finalize(s).candles
      BY DEF r
    <3>6. w.close < t /\ t \in Int
      <4>1. w.close + 1 <= n
        BY <2>2, <2>4
      <4> QED BY <1>2, <2>2, <4>1
    <3> HIDE DEF t
    <3>7. Shape(s, 1, t)
      BY DEF t
    <3>8. Shape(r, 1, t) /\ Behind(r)
      BY <1>3, <1>5, <3>4, <3>5, <3>6, <3>7, FinalizeBehind
    <3>9. Shape(Compute(r), 1, t) /\ Following(Compute(r))
      BY <1>3, <3>6, <3>8, ComputeFollows
    <3> QED BY <3>2, <3>9 DEF t
  <2> QED BY <2>2, <2>3, <2>4
<1> QED BY <1>4, <1>5

(* A base candle of a larger one: the working candle keeps its time, and so
   does its copy.                                                           *)
LEMMA AggregateKeeps ==
    ASSUME NEW g \in Nat \ {0}, g # 1, NEW t \in Int, NEW s, Shape(s, g, t), Following(s),
           NEW c, Given(c, g, t), After(s.candles, c.open)
    PROVE  Shape(Aggregate(s, c, g), g, t) /\ Following(Aggregate(s, c, g))
<1> DEFINE fresh == s.working = NoCandle
           first == [c EXCEPT !.close = c.open + g * BaseTicks - 1, !.main = TRUE, !.final = FALSE]
           working == IF fresh THEN first ELSE s.working
           index == IF fresh THEN 0 ELSE s.index
           backup == IF s.backup = NoCandle THEN working ELSE s.backup
           volume == IF index = 0 THEN c.volume ELSE backup.volume + c.volume
           counts == c.final /\ c.open = working.open
           w == [(IF counts THEN backup ELSE working) EXCEPT !.volume = volume]
           b == IF counts THEN [backup EXCEPT !.volume = volume] ELSE backup
           i == IF counts THEN index + 1 ELSE index
           merged == [s EXCEPT !.working = w, !.backup = b, !.index = i]
           closed == [Finalize(merged) EXCEPT !.backup = NoCandle, !.index = 0]
<1>1. /\ s \in SeriesRecs /\ s.working \in CandleRecs /\ s.backup \in CandleRecs /\ s.index \in Int
      /\ s.candles \in Seq(CandleRecs)
      /\ fresh <=> s.backup = NoCandle
      /\ s.backup.open = s.working.open /\ s.backup.close = s.working.close /\ ~s.backup.final
      /\ s.next = NoCandle \/ Given(s.next, g, t)
      /\ ~fresh => Spans(s.working, g) /\ ~s.working.final /\ After(s.candles, s.working.open)
  BY DEF Shape, Copied, Working, SeriesRecs
<1>2. c \in CandleRecs /\ c.open \in Starts /\ c.open \in Nat /\ c.volume \in Int
  BY SpanIs DEF Given, Spans, CandleRecs
<1>3. g * BaseTicks \in Nat
  BY <1>2, StartsNext
<1>4. /\ first \in CandleRecs /\ first.open = c.open /\ first.close = c.open + g * BaseTicks - 1
      /\ ~first.final
  <2> DEFINE e == c.open + g * BaseTicks - 1
  <2>1. e \in Int
    BY <1>2, <1>3
  <2>2. first = [c EXCEPT !.close = e, !.main = TRUE, !.final = FALSE]
    OBVIOUS
  <2> HIDE DEF e, first
  <2>3. /\ first \in CandleRecs /\ first.open = c.open /\ first.close = e /\ ~first.final
    BY <1>2, <2>1, <2>2 DEF CandleRecs
  <2> QED BY <2>3 DEF e
<1>5. Spans(first, g) /\ After(s.candles, first.open)
  BY <1>2, <1>4 DEF Spans
<1> HIDE DEF first
<1>6. /\ working \in CandleRecs /\ Spans(working, g) /\ ~working.final /\ After(s.candles, working.open)
      /\ backup \in CandleRecs /\ backup.open = working.open /\ backup.close = working.close
      /\ ~backup.final /\ index \in Int
  <2>1. CASE fresh
    BY <1>1, <1>4, <1>5, <2>1
  <2>2. CASE ~fresh
    BY <1>1, <2>2
  <2> QED BY <2>1, <2>2
<1> HIDE DEF working, backup, index
<1>7. volume \in Int /\ i \in Int
  BY <1>2, <1>6 DEF CandleRecs
<1> HIDE DEF volume
<1>8. /\ w \in CandleRecs /\ w.open = working.open /\ w.close = working.close /\ ~w.final
      /\ b \in CandleRecs /\ b.open = working.open /\ b.close = working.close /\ ~b.final
  BY <1>6, <1>7 DEF CandleRecs
<1> HIDE DEF w, b, i
<1>9. Spans(w, g) /\ After(s.candles, w.open) /\ w # NoCandle
  <2>1. Spans(w, g)
    BY <1>6, <1>8 DEF Spans
  <2> QED BY <1>6, <1>8, <2>1, SpanIs
<1>10. b # NoCandle
  BY <1>6, <1>8, SpanIs DEF NoCandle
<1>11. Copied(w, b, g)
  BY <1>8, <1>9, <1>10 DEF Copied
<1>12. /\ merged \in SeriesRecs /\ merged.candles = s.candles /\ merged.working = w
       /\ merged.backup = b /\ merged.next = s.next /\ merged.started = s.started
       /\ merged.fed = s.fed /\ merged.states = s.states
  BY <1>1, <1>7, <1>8 DEF SeriesRecs
<1> HIDE DEF merged
<1>13. Shape(merged, g, t) /\ Behind(merged)
  BY <1>1, <1>8, <1>9, <1>11, <1>12, WorkingBehind
<1>14. Aggregate(s, c, g) = Compute(IF merged.index >= g /\ c.final THEN closed ELSE merged)
  BY DEF Aggregate, merged, w, b, i, volume, backup, index, working, first
<1>15. CASE ~(merged.index >= g /\ c.final)
  <2>1. Aggregate(s, c, g) = Compute(merged)
    BY <1>14, <1>15
  <2> QED BY <1>13, <2>1, ComputeFollows
<1>16. CASE merged.index >= g /\ c.final
  <2>1. Aggregate(s, c, g) = Compute(closed)
    BY <1>14, <1>16
  <2> DEFINE x == [w EXCEPT !.final = TRUE]
  <2>2. x \in CandleRecs /\ x.open = w.open /\ x.close = w.close /\ x.final
    BY <1>8 DEF CandleRecs
  <2>3. Spans(x, g) /\ After(s.candles, x.open)
    BY <1>9, <2>2 DEF Spans
  <2> HIDE DEF x
  <2>4. KeepIn(s.candles, x) \in Seq(CandleRecs) /\ NoCandle \in CandleRecs
    BY <1>1, <2>2, KeepInIs DEF NoCandle, CandleRecs
  <2>5. Finalize(merged) = [merged EXCEPT !.candles = KeepIn(s.candles, x), !.working = NoCandle]
    BY <1>12 DEF Finalize, x
  <2>6. /\ closed \in SeriesRecs /\ closed.candles = KeepIn(s.candles, x) /\ closed.working = NoCandle
        /\ closed.backup = NoCandle /\ closed.next = s.next /\ closed.started = s.started
        /\ closed.fed = s.fed /\ closed.states = s.states
    <3> DEFINE m == Finalize(merged)
    <3> DEFINE q == KeepIn(s.candles, x)
    <3> HIDE DEF q
    <3>1. m = [merged EXCEPT !.candles = q, !.working = NoCandle]
      BY <2>5 DEF q
    <3>2. q \in Seq(CandleRecs)
      BY <2>4 DEF q
    <3> HIDE DEF m
    <3>3. /\ m \in SeriesRecs /\ m.candles = q /\ m.working = NoCandle
          /\ m.next = s.next /\ m.started = s.started /\ m.fed = s.fed /\ m.states = s.states
      <4>1. merged \in SeriesRecs /\ NoCandle \in CandleRecs
        BY <1>12, <2>4
      <4>2. m \in SeriesRecs
        BY <3>1, <3>2, <4>1 DEF SeriesRecs
      <4>3. /\ m.candles = q /\ m.working = NoCandle /\ m.next = merged.next
            /\ m.started = merged.started /\ m.fed = merged.fed /\ m.states = merged.states
        BY <3>1, <4>1 DEF SeriesRecs
      <4> QED BY <1>12, <4>2, <4>3
    <3>4. closed = [m EXCEPT !.backup = NoCandle, !.index = 0]
      BY DEF m
    <3> HIDE DEF closed
    <3>5. /\ closed \in SeriesRecs /\ closed.candles = q /\ closed.working = NoCandle
          /\ closed.backup = NoCandle /\ closed.next = s.next /\ closed.started = s.started
          /\ closed.fed = s.fed /\ closed.states = s.states
      <4>1. m \in SeriesRecs /\ NoCandle \in CandleRecs
        BY <2>4, <3>3
      <4>2. closed \in SeriesRecs
        <5> DEFINE k == [m EXCEPT !.backup = NoCandle]
        <5>1. k \in SeriesRecs
          BY <4>1 DEF SeriesRecs
        <5>2. closed = [k EXCEPT !.index = 0]
          BY <3>4
        <5> HIDE DEF k
        <5> QED BY <5>1, <5>2 DEF SeriesRecs
      <4>3. /\ closed.candles = m.candles /\ closed.working = m.working /\ closed.backup = NoCandle
            /\ closed.next = m.next /\ closed.started = m.started
            /\ closed.fed = m.fed /\ closed.states = m.states
        BY <3>4, <4>1 DEF SeriesRecs
      <4> QED BY <3>3, <4>2, <4>3
    <3> QED BY <3>5 DEF q
  <2> HIDE DEF closed
  <2>7. Shape(closed, g, t) /\ Behind(closed)
    BY <1>1, <2>2, <2>3, <2>6, PushedBehind
  <2> QED BY <2>1, <2>7, ComputeFollows
<1> QED BY <1>15, <1>16

(* push_candle, with whatever the exchange may have sent. *)
LEMMA PushCandleKeeps ==
    ASSUME NEW g \in Nat \ {0}, NEW t \in Int, NEW s, Shape(s, g, t), Following(s),
           NEW new, Given(new, g, t)
    PROVE  Shape(PushCandle(s, new, g), g, t) /\ Following(PushCandle(s, new, g))
<1> DEFINE c == IF s.next = NoCandle THEN new ELSE s.next
           moved == [s EXCEPT !.next = new]
<1>1. Given(c, g, t)
  BY DEF Shape
<1>2. /\ Shape(moved, g, t) /\ Following(moved)
      /\ moved.candles = s.candles /\ moved.working = s.working
  BY NextTaken
<1>3. PushCandle(s, new, g) = IF c.open < LastFinalized(s).close THEN moved
                              ELSE IF g > 1 /\ ~c.main THEN Aggregate(moved, c, g) ELSE TakeOwn(moved, c)
  BY DEF PushCandle
<1> HIDE DEF c, moved
<1>4. CASE c.open < LastFinalized(s).close
  BY <1>2, <1>3, <1>4
<1>5. CASE ~(c.open < LastFinalized(s).close)
  <2>1. After(moved.candles, c.open)
    <3>1. s \in SeriesRecs /\ InLine(s.candles, g) /\ Spans(c, 1)
      BY <1>1 DEF Shape, Given
    <3> QED BY <1>2, <1>5, <3>1, LetThrough
  <2>2. CASE g = 1
    <3>1. PushCandle(s, new, g) = TakeOwn(moved, c)
      BY <1>3, <1>5, <2>2
    <3>2. Shape(moved, 1, t) /\ Given(c, 1, t)
      BY <1>1, <1>2, <2>2
    <3>3. Shape(TakeOwn(moved, c), 1, t) /\ Following(TakeOwn(moved, c))
      BY <1>2, <2>1, <3>2, TakeOwnKeeps
    <3> QED BY <2>2, <3>1, <3>3
  <2>3. CASE g # 1
    <3>1. g > 1 /\ ~c.main
      BY <1>1, <2>3 DEF Given
    <3>2. PushCandle(s, new, g) = Aggregate(moved, c, g)
      BY <1>3, <1>5, <3>1
    <3> QED BY <1>1, <1>2, <2>1, <2>3, <3>2, AggregateKeeps
  <2> QED BY <2>2, <2>3
<1> QED BY <1>4, <1>5

(* What may be given now may be given later, and so the shape stays. *)
LEMMA ShapeLater ==
    ASSUME NEW g \in Nat \ {0}, NEW t \in Int, NEW n \in Int, t <= n, NEW s, Shape(s, g, t)
    PROVE  Shape(s, g, n)
<1>1. /\ s \in SeriesRecs /\ s.working \in CandleRecs /\ s.next \in CandleRecs
      /\ s.candles \in Seq(CandleRecs)
  BY DEF Shape, SeriesRecs
<1>2. s.working.open \in Int /\ s.next.open \in Int /\ s.next.close \in Int
  BY <1>1 DEF CandleRecs
<1>3. s.next = NoCandle \/ Given(s.next, g, n)
  <2>1. CASE Given(s.next, g, t)
    BY <1>2, <2>1 DEF Given
  <2> QED BY <2>1 DEF Shape
<1>4. g = 1 => After(s.candles, n) /\ s.working.open <= n
  <2> SUFFICES ASSUME g = 1 PROVE After(s.candles, n) /\ s.working.open <= n
    OBVIOUS
  <2>1. After(s.candles, t) /\ s.working.open <= t
    BY DEF Shape
  <2>2. \A i \in DOMAIN s.candles : s.candles[i].close \in Int
    <3> SUFFICES ASSUME NEW i \in DOMAIN s.candles PROVE s.candles[i].close \in Int
      OBVIOUS
    <3>1. s.candles[i] \in CandleRecs
      BY <1>1
    <3> QED BY <3>1 DEF CandleRecs
  <2> QED BY <1>2, <2>1, <2>2 DEF After
<1> QED BY <1>1, <1>3, <1>4 DEF Shape

(* A series without candles. *)
LEMMA NewSeriesIs ==
    ASSUME NEW g \in Nat \ {0}, NEW t \in Nat
    PROVE  Shape(NewSeries, g, t) /\ Following(NewSeries)
<1>1. NoCandle \in CandleRecs /\ NoCandle.open = -1 /\ NoCandle.close = -1 /\ ~NoCandle.final
  BY DEF NoCandle, CandleRecs
<1>2. /\ NewSeries \in SeriesRecs /\ NewSeries.candles = <<>> /\ NewSeries.working = NoCandle
      /\ NewSeries.backup = NoCandle /\ NewSeries.next = NoCandle /\ ~NewSeries.started
      /\ NewSeries.fed = NothingFed /\ NewSeries.states = <<>>
  BY <1>1 DEF NewSeries, SeriesRecs, FedRecs, NothingFed
<1> HIDE DEF NewSeries
<1>3. InLine(NewSeries.candles, g) /\ After(NewSeries.candles, t)
  BY <1>2 DEF InLine, After
<1>4. Shape(NewSeries, g, t)
  BY <1>1, <1>2, <1>3 DEF Shape, Working, Copied
<1>5. Following(NewSeries)
  <2>1. Len(NewSeries.candles) = 0
    BY <1>2
  <2>2. NumCandles(NewSeries) = 0
    BY <1>2, <2>1, NumIs
  <2> QED BY <1>2, <2>2 DEF Following
<1> QED BY <1>4, <1>5

(* A candle of the exchange, made where a base candle opens. *)
LEMMA CandleGiven ==
    ASSUME NEW g \in Nat \ {0}, NEW t \in Int, NEW k \in Nat, NEW b \in BOOLEAN, NEW v \in Int,
           g = 1 => k * BaseTicks <= t /\ (b => k * BaseTicks + BaseTicks - 1 < t)
    PROVE  Given(Candle(k * BaseTicks, BaseTicks, g = 1, b, v), g, t)
<1> DEFINE a == k * BaseTicks
           e == a + BaseTicks - 1
           c == Candle(a, BaseTicks, g = 1, b, v)
<1>1. a \in Starts /\ a \in Nat /\ BaseTicks \in Nat
  <2>1. a \in Starts /\ BaseTicks \in Nat
    BY SeriesAssumption DEF Starts
  <2> QED BY <2>1, StartsApart
<1>2. e \in Int /\ e = a + 1 * BaseTicks - 1
  <2> HIDE DEF a
  <2> QED BY <1>1
<1> DEFINE m == g = 1
<1>3. c = [open |-> a, close |-> e, main |-> m, final |-> b, volume |-> v] /\ m \in BOOLEAN
  BY DEF Candle
<1>4. g = 1 => a <= t /\ (b => e < t)
  OBVIOUS
<1>7. m <=> g = 1
  OBVIOUS
<1> HIDE DEF a, e, c, m
<1>5. /\ c \in CandleRecs /\ c.open = a /\ c.close = e /\ c.main = m /\ c.final = b
  BY <1>1, <1>2, <1>3 DEF CandleRecs
<1>6. Given(c, g, t)
  BY <1>1, <1>2, <1>4, <1>5, <1>7 DEF Given, Spans
<1> QED BY <1>6 DEF c, a

(* The exchange is at one time, and the candle of that time is open. *)
LEMMA CurrentIs ==
    ASSUME SeriesIInv
    PROVE  /\ Current \in Starts /\ Current <= now /\ Current \in Nat
           /\ Current \div BaseTicks \in Nat /\ Current = (Current \div BaseTicks) * BaseTicks
           /\ goal \in Nat \ {0}
BY StartTimeIs, SeriesAssumption DEF SeriesIInv, Current

LEMMA SeriesStarts == SeriesInit => SeriesIInv
<1> SUFFICES ASSUME SeriesInit PROVE SeriesIInv
  OBVIOUS
<1>1. goal \in Nat \ {0} /\ LoadedCandles \in Nat /\ BaseTicks \in Nat \ {0, 1}
  BY SeriesAssumption DEF SeriesInit
<1>2. LoadedCandles * BaseTicks \in Nat
  BY <1>1
<1>3. now \in Nat
  BY <1>2 DEF SeriesInit
<1>4. closedBy \in Nat
  BY <1>1, <1>3 DEF SeriesInit
<1>5. /\ due \in 0 .. LoadedCandles + 1
      /\ due > 0 => goal = 1 /\ now = LoadedCandles * BaseTicks
  BY <1>1 DEF SeriesInit
<1>6. Current \in Nat
  BY <1>3, StartTimeIs DEF Current
<1>7. Shape(series, goal, Current) /\ Following(series)
  BY <1>1, <1>6, NewSeriesIs DEF SeriesInit
<1> QED BY <1>3, <1>4, <1>5, <1>7 DEF SeriesIInv, SeriesInit

(* A candle that opens before another closes before it opens. *)
LEMMA EarlierCloses ==
    ASSUME NEW k \in Nat, NEW l \in Nat
    PROVE  /\ k * BaseTicks \in Nat /\ l * BaseTicks \in Nat
           /\ k <= l => k * BaseTicks <= l * BaseTicks
           /\ k < l => k * BaseTicks + BaseTicks - 1 < l * BaseTicks
<1>1. BaseTicks \in Nat \ {0}
  BY SeriesAssumption
<1>2. k * BaseTicks \in Nat /\ l * BaseTicks \in Nat
  BY <1>1
<1>3. ASSUME NEW d \in Nat, l = k + d
      PROVE  l * BaseTicks = k * BaseTicks + d * BaseTicks
  BY <1>1, <1>3
<1>4. \A d \in Nat : d * BaseTicks \in Nat /\ (d > 0 => d * BaseTicks >= BaseTicks)
  BY <1>1
<1>5. CASE k <= l
  <2>1. l - k \in Nat /\ l = k + (l - k)
    BY <1>5
  <2> DEFINE d == l - k
             p == d * BaseTicks
             a == k * BaseTicks
             e == l * BaseTicks
  <2>2. e = a + p
    BY <2>1, <1>3
  <2>3. p \in Nat /\ (d > 0 => p >= BaseTicks)
    BY <2>1, <1>4
  <2>4. d > 0 <=> k < l
    BY <1>5
  <2>5. a \in Nat /\ e \in Nat
    BY <1>2
  <2> HIDE DEF d, p, a, e
  <2>6. a <= e /\ (k < l => a + BaseTicks - 1 < e)
    BY <1>1, <2>2, <2>3, <2>4, <2>5
  <2> QED BY <1>2, <2>6 DEF a, e
<1>6. CASE ~(k <= l)
  BY <1>2, <1>6
<1> QED BY <1>5, <1>6

(* A push of a candle that may be given, at one time of the exchange. *)
LEMMA PushKeeps ==
    ASSUME SeriesIInv, NEW k \in Nat, NEW b \in BOOLEAN, NEW v \in Int, NEW m,
           m = (goal = 1),
           goal = 1 => k * BaseTicks <= Current /\ (b => k * BaseTicks + BaseTicks - 1 < Current)
    PROVE  LET c == Candle(k * BaseTicks, BaseTicks, m, b, v)
           IN  /\ Shape(PushCandle(series, c, goal), goal, Current)
               /\ Following(PushCandle(series, c, goal))
<1> DEFINE c == Candle(k * BaseTicks, BaseTicks, goal = 1, b, v)
<1>1. goal \in Nat \ {0} /\ Current \in Int
  BY CurrentIs
<1>2. Given(c, goal, Current)
  BY <1>1, CandleGiven
<1>3. Shape(series, goal, Current) /\ Following(series)
  BY DEF SeriesIInv
<1> HIDE DEF c
<1>4. Shape(PushCandle(series, c, goal), goal, Current) /\ Following(PushCandle(series, c, goal))
  BY <1>1, <1>2, <1>3, PushCandleKeeps
<1> QED BY <1>4 DEF c

LEMMA LoadCandleKeeps == SeriesIInv /\ LoadCandle => SeriesIInv'
<1> SUFFICES ASSUME SeriesIInv, LoadCandle PROVE SeriesIInv'
  OBVIOUS
<1> DEFINE k == LoadedCandles + 1 - due
<1>1. due > 0 /\ goal = 1 /\ now = LoadedCandles * BaseTicks /\ LoadedCandles \in Nat
  BY SeriesAssumption DEF SeriesIInv, LoadCandle
<1>2. due \in 1 .. LoadedCandles + 1 /\ k \in Nat /\ k <= LoadedCandles
      /\ (due > 1 => k < LoadedCandles)
  BY <1>1 DEF SeriesIInv
<1>3. Current = LoadedCandles * BaseTicks
  <2>1. now \in Starts /\ now \in Nat
    BY <1>1 DEF Starts, SeriesIInv
  <2>2. now <= Current /\ Current <= now /\ Current \in Nat
    BY <2>1, StartTimeIs DEF Current
  <2> QED BY <1>1, <2>1, <2>2
<1>4. k * BaseTicks <= Current /\ (due > 1 => k * BaseTicks + BaseTicks - 1 < Current)
  <2> HIDE DEF k
  <2> QED BY <1>1, <1>2, <1>3, EarlierCloses
<1>5. series' = PushCandle(series, Candle(k * BaseTicks, BaseTicks, TRUE, due > 1, 1), 1)
      /\ due' = due - 1 /\ UNCHANGED <<goal, now, traded, closedBy, closing>>
  BY DEF LoadCandle
<1> DEFINE b == due > 1
<1>6. b \in BOOLEAN /\ TRUE = (goal = 1) /\ 1 \in Int
  BY <1>1
<1> HIDE DEF k, b
<1>7. Shape(PushCandle(series, Candle(k * BaseTicks, BaseTicks, TRUE, b, 1), goal), goal, Current)
      /\ Following(PushCandle(series, Candle(k * BaseTicks, BaseTicks, TRUE, b, 1), goal))
  BY <1>2, <1>4, <1>6, PushKeeps DEF b
<1>8. Shape(series', goal', Current') /\ Following(series')
  BY <1>1, <1>5, <1>7 DEF b, Current
<1>9. due' \in 0 .. LoadedCandles + 1
  BY <1>1, <1>2, <1>5
<1> QED BY <1>1, <1>5, <1>8, <1>9 DEF SeriesIInv

LEMMA SeriesTickKeeps == SeriesIInv /\ SeriesTick => SeriesIInv'
<1> SUFFICES ASSUME SeriesIInv, SeriesTick PROVE SeriesIInv'
  OBVIOUS
<1>1. /\ due = 0 /\ due' = 0 /\ now' = now + 1 /\ now \in Nat
      /\ series' = series /\ goal' = goal /\ closedBy' = closedBy
      /\ traded' \in Int /\ closing' \in Int
  BY DEF SeriesTick, SeriesIInv
<1>2. Current \in Starts /\ Current <= now /\ Current \in Nat /\ goal \in Nat \ {0}
  BY CurrentIs
<1>3. Current' = StartTime(now + 1)
  BY <1>1 DEF Current
<1>4. Current' \in Int /\ Current <= Current'
  <2> HIDE DEF Current
  <2>1. now + 1 \in Nat /\ Current <= now + 1
    BY <1>1, <1>2
  <2> QED BY <1>2, <1>3, <2>1, StartTimeIs
<1>5. Shape(series, goal, Current')
  BY <1>2, <1>4, ShapeLater DEF SeriesIInv
<1>6. now' \in Nat
  BY <1>1
<1> QED BY <1>1, <1>5, <1>6 DEF SeriesIInv

LEMMA PushSnapshotKeeps == SeriesIInv /\ PushSnapshot => SeriesIInv'
<1> SUFFICES ASSUME SeriesIInv, PushSnapshot PROVE SeriesIInv'
  OBVIOUS
<1> DEFINE k == Current \div BaseTicks
<1>1. /\ k \in Nat /\ Current = k * BaseTicks /\ Current \in Nat
      /\ traded \in Int
  BY CurrentIs DEF SeriesIInv
<1>2. /\ series' = PushCandle(series, Candle(Current, BaseTicks, goal = 1, FALSE, traded), goal)
      /\ UNCHANGED <<goal, due, now, traded, closedBy, closing>>
  BY DEF PushSnapshot, Kline
<1> HIDE DEF k
<1>3. /\ Shape(PushCandle(series, Candle(k * BaseTicks, BaseTicks, goal = 1, FALSE, traded), goal), goal, Current)
      /\ Following(PushCandle(series, Candle(k * BaseTicks, BaseTicks, goal = 1, FALSE, traded), goal))
  <2>1. ASSUME NEW f \in BOOLEAN, ~f
        PROVE  /\ Shape(PushCandle(series, Candle(k * BaseTicks, BaseTicks, goal = 1, f, traded), goal), goal, Current)
               /\ Following(PushCandle(series, Candle(k * BaseTicks, BaseTicks, goal = 1, f, traded), goal))
    BY <1>1, <2>1, PushKeeps
  <2> QED BY <2>1
<1>4. Current' = Current
  BY <1>2 DEF Current
<1>5. Shape(series', goal', Current') /\ Following(series')
  BY <1>1, <1>2, <1>3, <1>4
<1> QED BY <1>2, <1>5 DEF SeriesIInv

LEMMA PushClosedKeeps == SeriesIInv /\ PushClosed => SeriesIInv'
<1> SUFFICES ASSUME SeriesIInv, PushClosed PROVE SeriesIInv'
  OBVIOUS
<1> DEFINE l == Current \div BaseTicks
<1>1. /\ l \in Nat /\ Current = l * BaseTicks /\ Current \in Nat
      /\ closedBy \in Nat /\ closing \in Int
  BY CurrentIs DEF SeriesIInv
<1>2. /\ closedBy < l
      /\ series' = PushCandle(series, Candle(closedBy * BaseTicks, BaseTicks, goal = 1, TRUE, closing), goal)
      /\ closedBy' = closedBy + 1
      /\ UNCHANGED <<goal, due, now, traded, closing>>
  BY DEF PushClosed, Kline
<1> HIDE DEF l
<1>3. closedBy * BaseTicks <= Current /\ closedBy * BaseTicks + BaseTicks - 1 < Current
  BY <1>1, <1>2, EarlierCloses
<1>4. /\ Shape(PushCandle(series, Candle(closedBy * BaseTicks, BaseTicks, goal = 1, TRUE, closing), goal), goal, Current)
      /\ Following(PushCandle(series, Candle(closedBy * BaseTicks, BaseTicks, goal = 1, TRUE, closing), goal))
  BY <1>1, <1>3, PushKeeps
<1>5. Current' = Current
  BY <1>2 DEF Current
<1>6. Shape(series', goal', Current') /\ Following(series')
  BY <1>2, <1>4, <1>5
<1>7. closedBy' \in Nat
  BY <1>1, <1>2
<1> QED BY <1>2, <1>6, <1>7 DEF SeriesIInv

LEMMA PushTradeKeeps == SeriesIInv /\ PushTrade => SeriesIInv'
<1> SUFFICES ASSUME SeriesIInv, PushTrade PROVE SeriesIInv'
  OBVIOUS
<1>1. /\ goal = 1 /\ traded' = traded + 1 /\ traded \in Int /\ now \in Nat
      /\ series' = ApplyTrade(series, now, 1)
      /\ UNCHANGED <<goal, due, now, closedBy, closing>>
  BY DEF PushTrade, SeriesIInv
<1>2. Shape(series, 1, StartTime(now)) /\ Following(series)
  BY <1>1 DEF SeriesIInv, Current
<1>3. Shape(series', 1, StartTime(now)) /\ Following(series')
  BY <1>1, <1>2, ApplyTradeKeeps
<1>4. Shape(series', goal', Current')
  BY <1>1, <1>3 DEF Current
<1>5. traded' \in Int
  BY <1>1
<1> QED BY <1>1, <1>3, <1>4, <1>5 DEF SeriesIInv

LEMMA SeriesSteps == SeriesIInv /\ [SeriesNext]_seriesVars => SeriesIInv'
<1> SUFFICES ASSUME SeriesIInv, [SeriesNext]_seriesVars PROVE SeriesIInv'
  OBVIOUS
<1>1. CASE LoadCandle
  BY <1>1, LoadCandleKeeps
<1>2. CASE SeriesTick
  BY <1>2, SeriesTickKeeps
<1>3. CASE PushSnapshot
  BY <1>3, PushSnapshotKeeps
<1>4. CASE PushClosed
  BY <1>4, PushClosedKeeps
<1>5. CASE PushTrade
  BY <1>5, PushTradeKeeps
<1>6. CASE UNCHANGED seriesVars
  BY <1>6 DEF seriesVars, SeriesIInv, Current
<1> QED BY <1>1, <1>2, <1>3, <1>4, <1>5, <1>6 DEF SeriesNext

(* The candles of a series of this shape are in order. *)
LEMMA ShapeInOrder ==
    ASSUME SeriesIInv
    PROVE  CandlesInOrder
<1> DEFINE q == series.candles
           w == series.working
           all == q \o (IF w = NoCandle THEN <<>> ELSE <<w>>)
           n == Len(q)
<1>1. /\ goal \in Nat \ {0} /\ q \in Seq(CandleRecs) /\ w \in CandleRecs
      /\ InLine(q, goal) /\ Working(w, q, goal)
  BY CurrentIs DEF SeriesIInv, Shape, SeriesRecs
<1>2. n \in Nat /\ DOMAIN q = 1 .. n
  BY <1>1
<1>3. \A i, j \in 1 .. n : i < j => q[i].close < q[j].open
  BY <1>1, <1>2 DEF InLine
<1>4. w # NoCandle => \A i \in 1 .. n : q[i].close < w.open
  BY <1>1, <1>2 DEF Working, After
<1> HIDE DEF q, w
<1>5. \A i \in 1 .. Len(all) - 1 : all[i].close < all[i + 1].open
  <2>1. CASE w = NoCandle
    <3>1. all = q
      BY <1>1, <2>1
    <3>2. ASSUME NEW i \in 1 .. n - 1 PROVE q[i].close < q[i + 1].open
      <4>1. i \in 1 .. n /\ i + 1 \in 1 .. n /\ i < i + 1
        BY <1>2
      <4> QED BY <1>3, <4>1
    <3> QED BY <3>1, <3>2
  <2>2. CASE w # NoCandle
    <3>1. all = q \o <<w>>
      BY <2>2
    <3>2. Len(all) = n + 1 /\ all[n + 1] = w /\ \A i \in 1 .. n : all[i] = q[i]
      BY <1>1, <1>2, <3>1
    <3> HIDE DEF all
    <3>3. ASSUME NEW i \in 1 .. n PROVE all[i].close < all[i + 1].open
      <4>1. CASE i = n
        BY <1>2, <1>4, <2>2, <3>2, <4>1
      <4>2. CASE i # n
        <5>1. n \in Nat /\ i \in 1 .. n /\ i # n
          BY <1>2, <4>2
        <5> HIDE DEF n
        <5>2. i \in 1 .. n /\ i + 1 \in 1 .. n /\ i < i + 1
          BY <5>1
        <5> QED BY <1>3, <3>2, <5>2
      <4> QED BY <4>1, <4>2
    <3>4. Len(all) - 1 = n
      BY <1>2, <3>2
    <3> QED BY <3>3, <3>4
  <2> QED BY <2>1, <2>2
<1>6. ASSUME NEW i \in 1 .. SeriesCapacity, GetCandle(series, i) # NoCandle
      PROVE  GetCandle(series, i - 1) = NoCandle
                \/ GetCandle(series, i).close < GetCandle(series, i - 1).open
  <2>1. SeriesCapacity \in Nat /\ i \in Nat /\ i # 0
    BY SeriesAssumption
  <2>2. GetCandle(series, i) = IF i >= n THEN NoCandle ELSE q[n - i]
    BY <2>1 DEF GetCandle, q
  <2>3. i < n /\ n - i \in 1 .. n /\ GetCandle(series, i) = q[n - i]
    BY <1>2, <1>6, <2>1, <2>2
  <2>4. CASE i = 1
    <3>1. GetCandle(series, i - 1) = w
      BY <2>4 DEF GetCandle, w
    <3> QED BY <1>4, <2>3, <3>1
  <2>5. CASE i # 1
    <3>1. i - 1 # 0 /\ ~(i - 1 >= n) /\ n - (i - 1) \in 1 .. n /\ n - i < n - (i - 1)
      BY <1>2, <2>1, <2>3, <2>5
    <3>2. GetCandle(series, i - 1) = q[n - (i - 1)]
      BY <3>1 DEF GetCandle, q
    <3> QED BY <1>3, <2>3, <3>1, <3>2
  <2> QED BY <2>4, <2>5
<1> QED BY <1>5, <1>6 DEF CandlesInOrder, q, w

(* The averages of a series that is followed took what is closed. *)
LEMMA FollowingFollows ==
    ASSUME SeriesIInv
    PROVE  IndicatorsFollow
<1> DEFINE q == series.candles
           w == series.working
           f == series.fed.pair
           o == series.fed.alone
           u == series.states
           n == Len(q)
<1>1. /\ goal \in Nat \ {0} /\ series \in SeriesRecs /\ q \in Seq(CandleRecs) /\ w \in CandleRecs
      /\ series.fed \in FedRecs /\ u \in Seq(CandleRecs) /\ InLine(q, goal) /\ Working(w, q, goal)
  BY CurrentIs DEF SeriesIInv, Shape, SeriesRecs
<1>10. f \in Seq(Int) /\ o \in Seq(Int)
  BY <1>1 DEF FedRecs
<1>2. /\ n \in Nat /\ DOMAIN q = 1 .. n /\ Len(f) \in Nat /\ DOMAIN f = 1 .. Len(f)
      /\ Len(o) \in Nat /\ DOMAIN o = 1 .. Len(o)
  BY <1>1, <1>10
<1>3. IF series.started
      THEN /\ n >= 2 /\ Rising(f) /\ Missed(series.fed) /\ Took(f, q, n)
           /\ \A j \in DOMAIN f : f[j] <= q[n].open
           /\ u # <<>> => u[Len(u)] = HeadCandle(series)
      ELSE f = <<>> /\ o = <<>> /\ u = <<>>
  BY DEF SeriesIInv, Following, Taken, NothingFed
(* Each of the two lists is the other, but for one element. *)
<1>4. series.started =>
        /\ \A j \in DOMAIN o : \E i \in DOMAIN f : f[i] = o[j] /\ i # 2
        /\ \A i \in DOMAIN f : i # 2 => \E j \in DOMAIN o : o[j] = f[i]
  <2> SUFFICES ASSUME series.started
               PROVE  /\ \A j \in DOMAIN o : \E i \in DOMAIN f : f[i] = o[j] /\ i # 2
                      /\ \A i \in DOMAIN f : i # 2 => \E j \in DOMAIN o : o[j] = f[i]
    OBVIOUS
  <2>1. /\ Len(f) >= 2 /\ Len(o) = Len(f) - 1 /\ o[1] = f[1]
        /\ \A i \in 2 .. Len(o) : o[i] = f[i + 1]
    BY <1>3 DEF Missed
  <2> HIDE DEF f, o
  <2>2. ASSUME NEW j \in DOMAIN o PROVE \E i \in DOMAIN f : f[i] = o[j] /\ i # 2
    <3>1. CASE j = 1
      <4>1. 1 \in DOMAIN f /\ f[1] = o[j] /\ 1 # 2
        BY <1>2, <2>1, <3>1
      <4> QED BY <4>1
    <3>2. CASE j # 1
      <4>1. j \in 2 .. Len(o) /\ j + 1 \in DOMAIN f /\ j + 1 # 2
        BY <1>2, <2>1, <2>2, <3>2
      <4>2. f[j + 1] = o[j]
        BY <2>1, <4>1
      <4> QED BY <4>1, <4>2
    <3> QED BY <3>1, <3>2
  <2>3. ASSUME NEW i \in DOMAIN f, i # 2 PROVE \E j \in DOMAIN o : o[j] = f[i]
    <3>1. CASE i = 1
      <4>1. 1 \in DOMAIN o /\ o[1] = f[i]
        BY <1>2, <2>1, <3>1
      <4> QED BY <4>1
    <3>2. CASE i # 1
      <4>1. i - 1 \in 2 .. Len(o) /\ i - 1 \in DOMAIN o /\ (i - 1) + 1 = i
        BY <1>2, <2>1, <2>3, <3>2
      <4>2. o[i - 1] = f[(i - 1) + 1]
        BY <2>1, <4>1
      <4> QED BY <4>1, <4>2
    <3> QED BY <3>1, <3>2
  <2> QED BY <2>2, <2>3
<1>5. series.started => Rising(f) /\ Rising(o)
  <2> SUFFICES ASSUME series.started PROVE Rising(f) /\ Rising(o)
    OBVIOUS
  <2>1. Rising(f)
    BY <1>3
  <2>2. /\ Len(f) >= 2 /\ Len(o) = Len(f) - 1 /\ o[1] = f[1]
        /\ \A i \in 2 .. Len(o) : o[i] = f[i + 1]
    BY <1>3 DEF Missed
  <2> HIDE DEF f, o
  <2>3. \A j \in DOMAIN o : o[j] >= 0
    BY <1>4, <2>1 DEF Rising
  <2>4. ASSUME NEW i \in DOMAIN o, NEW j \in DOMAIN o, i < j PROVE o[i] < o[j]
    <3>1. j \in 2 .. Len(o) /\ j + 1 \in DOMAIN f /\ i + 1 \in DOMAIN f /\ 1 \in DOMAIN f
      BY <1>2, <2>2, <2>4
    <3>2. o[j] = f[j + 1]
      BY <2>2, <3>1
    <3>3. CASE i = 1
      <4>1. 1 < j + 1 /\ o[i] = f[1]
        BY <2>2, <3>1, <3>3
      <4> QED BY <2>1, <3>1, <3>2, <4>1 DEF Rising
    <3>4. CASE i # 1
      <4>1. i \in 2 .. Len(o) /\ i + 1 < j + 1
        BY <1>2, <2>4, <3>4
      <4>2. o[i] = f[i + 1]
        BY <2>2, <4>1
      <4> QED BY <2>1, <3>1, <3>2, <4>1, <4>2 DEF Rising
    <3> QED BY <3>3, <3>4
  <2> QED BY <2>1, <2>3, <2>4 DEF Rising
<1>6. Rises(f) /\ Rises(o)
  <2>1. CASE ~series.started
    BY <1>3, <2>1 DEF Rises
  <2>2. CASE series.started
    <3>1. Rising(f) /\ Rising(o)
      BY <1>5, <2>2
    <3> HIDE DEF f, o
    <3>2. \A i \in 1 .. Len(f) - 1 : i \in DOMAIN f /\ i + 1 \in DOMAIN f /\ i < i + 1
      BY <1>2
    <3>3. \A i \in 1 .. Len(o) - 1 : i \in DOMAIN o /\ i + 1 \in DOMAIN o /\ i < i + 1
      BY <1>2
    <3> QED BY <3>1, <3>2, <3>3 DEF Rising, Rises
  <2> QED BY <2>1, <2>2
<1>7. \A j \in DOMAIN f : f[j] # w.open
  <2> SUFFICES ASSUME NEW j \in DOMAIN f, f[j] = w.open PROVE FALSE
    OBVIOUS
  <2> HIDE DEF f, q, w
  <2>2. series.started /\ n >= 2 /\ Rising(f) /\ f[j] <= q[n].open
    BY <1>2, <1>3
  <2>3. f[j] \in Int /\ f[j] >= 0
    BY <1>10, <2>2 DEF Rising
  <2>4. w # NoCandle
    BY <2>3 DEF NoCandle
  <2>5. n \in DOMAIN q
    BY <1>2, <2>2
  <2>6. q[n].close < w.open /\ Spans(q[n], goal)
    BY <1>1, <2>4, <2>5 DEF Working, After, InLine
  <2>7. q[n].open < q[n].close /\ q[n].open \in Nat /\ q[n].close \in Nat
    BY <1>1, <2>6, SpanIs
  <2> QED BY <2>2, <2>3, <2>6, <2>7
<1>8. ~Contains(f, w.open) /\ ~Contains(o, w.open)
  <2>1. CASE ~series.started
    BY <1>3, <2>1 DEF Contains
  <2>2. CASE series.started
    <3> HIDE DEF f, o, w
    <3>1. \A j \in DOMAIN o : o[j] # w.open
      BY <1>4, <1>7, <2>2
    <3> QED BY <1>2, <1>7, <3>1 DEF Contains
  <2> QED BY <2>1, <2>2
<1>9. ASSUME series.started
      PROVE  /\ ~Contains(o, f[2])
             /\ \A i \in 1 .. n : Contains(f, q[i].open) /\ (q[i].open # f[2] => Contains(o, q[i].open))
  <2>1. Rising(f) /\ Took(f, q, n) /\ 2 \in DOMAIN f
    BY <1>2, <1>3, <1>9 DEF Missed
  <2> HIDE DEF f, o, q, n
  <2>2. \A i \in DOMAIN f : i # 2 => f[i] # f[2]
    <3> SUFFICES ASSUME NEW i \in DOMAIN f, i # 2 PROVE f[i] # f[2]
      OBVIOUS
    <3>1. f[i] \in Int /\ f[2] \in Int /\ (i < 2 \/ 2 < i)
      BY <1>2, <1>10, <2>1
    <3> QED BY <2>1, <3>1 DEF Rising
  <2>3. \A j \in DOMAIN o : o[j] # f[2]
    BY <1>4, <1>9, <2>2
  <2>4. ~Contains(o, f[2])
    BY <1>2, <2>3 DEF Contains
  <2>5. ASSUME NEW i \in 1 .. n
        PROVE  Contains(f, q[i].open) /\ (q[i].open # f[2] => Contains(o, q[i].open))
    <3>1. PICK j \in DOMAIN f : f[j] = q[i].open
      BY <2>1 DEF Took
    <3>2. Contains(f, q[i].open)
      BY <1>2, <3>1 DEF Contains
    <3>3. ASSUME q[i].open # f[2] PROVE Contains(o, q[i].open)
      <4>1. PICK l \in DOMAIN o : o[l] = f[j]
        BY <1>4, <1>9, <3>1, <3>3
      <4> QED BY <1>2, <3>1, <4>1 DEF Contains
    <3> QED BY <3>2, <3>3
  <2> QED BY <2>4, <2>5
<1>11. u # <<>> => Last(u) = HeadCandle(series)
  BY <1>3 DEF Last
<1> HIDE DEF f, o, q, w, u, n
<1>12. IndicatorsFollow <=>
        /\ Rises(f) /\ Rises(o)
        /\ ~Contains(f, w.open) /\ ~Contains(o, w.open)
        /\ series.started =>
             /\ ~Contains(o, f[2])
             /\ \A i \in 1 .. n : Contains(f, q[i].open) /\ (q[i].open # f[2] => Contains(o, q[i].open))
        /\ u # <<>> => Last(u) = HeadCandle(series)
  BY DEF IndicatorsFollow, f, o, q, w, u, n
<1> QED BY <1>6, <1>8, <1>9, <1>11, <1>12

(* The closed candles of a series follow one another without overlap, the
   working candle follows them, and get_candle finds them from the newest to
   the oldest: whichever of trades and klines comes first (push_candle,
   apply_trade of candle_series.rs), for a series of any time frame.        *)
THEOREM CandlesStayInOrder == SeriesSpec => []CandlesInOrder
<1>1. SeriesSpec => []SeriesIInv
  BY SeriesStarts, SeriesSteps, PTL DEF SeriesSpec
<1>2. SeriesIInv => CandlesInOrder
  BY ShapeInOrder
<1> QED BY <1>1, <1>2, PTL

(* The indicators take closed candles only, in order and none twice: ema_3 and
   ema_21 every one that is kept, the others all but the second of those
   they were made from; and the newest state was computed from the newest
   candle (initialize_working_state and compute of candle_series.rs).       *)
THEOREM IndicatorsStayWithCandles == SeriesSpec => []IndicatorsFollow
<1>1. SeriesSpec => []SeriesIInv
  BY SeriesStarts, SeriesSteps, PTL DEF SeriesSpec
<1>2. SeriesIInv => IndicatorsFollow
  BY FollowingFollows
<1> QED BY <1>1, <1>2, PTL
=============================================================================
