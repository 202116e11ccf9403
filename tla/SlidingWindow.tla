---------------------------- MODULE SlidingWindow ----------------------------
(***************************************************************************)
(* The ring buffer of src/src/sliding_window.rs and its reversed reading   *)
(* of src/src/series.rs.  Every iterator reads its slots with              *)
(* unwrap_unchecked, "based on the invariants upheld by the SlidingWindow's *)
(* push operation": the invariant that is meant is WindowFilled.           *)
(***************************************************************************)
EXTENDS Naturals, Sequences

CONSTANTS
    Capacity,   \* of the buffer
    Items,      \* what is pushed
    NoItem      \* an empty slot

ASSUME WindowAssumption == Capacity \in Nat \ {0} /\ NoItem \notin Items

VARIABLES
    buffer,     \* the slots
    head,       \* the slot of the oldest item, as the code calls it
    size        \* the number of items

windowVars == <<buffer, head, size>>

Slots == 0 .. Capacity - 1

(* The slot of the item number i, the oldest being 0. *)
SlotOf(i) == (head + i) % Capacity

WindowTypeOK ==
    /\ buffer \in [Slots -> Items \cup {NoItem}]
    /\ head \in Slots
    /\ size \in 0 .. Capacity

WindowInit ==
    /\ buffer = [s \in Slots |-> NoItem]
    /\ head = 0
    /\ size = 0

(* Mutant: the oldest item stays the head of a full buffer. *)
WindowPushKeepsHead(x) ==
    /\ buffer' = [buffer EXCEPT ![SlotOf(size)] = x]
    /\ size' = IF size < Capacity THEN size + 1 ELSE size
    /\ head' = head

(* push: the slot after the newest, which in a full buffer is the oldest. *)
WindowPush(x) ==
    /\ buffer' = [buffer EXCEPT ![SlotOf(size)] = x]
    /\ IF size < Capacity
       THEN size' = size + 1 /\ head' = head
       ELSE size' = size /\ head' = (head + 1) % Capacity

(* pop *)
WindowPop ==
    /\ size > 0
    /\ size' = size - 1
    /\ buffer' = [buffer EXCEPT ![SlotOf(size - 1)] = NoItem]
    /\ UNCHANGED head

WindowNext == (\E x \in Items : WindowPush(x)) \/ WindowPop

WindowSpec == WindowInit /\ [][WindowNext]_windowVars

-----------------------------------------------------------------------------
(* The readers: None is NoItem. *)

WindowGet(i) == IF i >= size THEN NoItem ELSE buffer[SlotOf(i)]

WindowGetRev(i) ==
    IF i >= size THEN NoItem ELSE buffer[(head + size - 1 - i + Capacity) % Capacity]

WindowHead == IF size = 0 THEN NoItem ELSE buffer[SlotOf(size - 1)]

WindowPrev == IF size < 2 THEN NoItem ELSE buffer[SlotOf(size - 2)]

WindowTail == IF size = 0 THEN NoItem ELSE buffer[head]

(* iter, iter_mut *)
WindowIter == [i \in 1 .. size |-> buffer[SlotOf(i - 1)]]

(* iter_rev, iter_rev_mut *)
WindowIterRev == [i \in 1 .. size |-> buffer[(head + size - 1 - (i - 1) + Capacity) % Capacity]]

-----------------------------------------------------------------------------
(* The slots the iterators read unchecked hold an item, and no other does. *)
WindowFilled ==
    \A s \in Slots : buffer[s] # NoItem <=> \E i \in 0 .. size - 1 : s = SlotOf(i)

(* However the window is read, forward, backward, by index or at an end, it
   is the same sequence of items; Series reads it backward, 0 the newest.  *)
WindowReadsAgree ==
    /\ \A i \in 0 .. Capacity :
        /\ WindowGet(i) = IF i < size THEN WindowIter[i + 1] ELSE NoItem
        /\ WindowGetRev(i) = IF i < size THEN WindowIterRev[i + 1] ELSE NoItem
    /\ \A i \in 1 .. size : WindowIterRev[i] = WindowIter[size + 1 - i]
    /\ size > 0 => WindowHead = WindowIter[size] /\ WindowTail = WindowIter[1]
    /\ size > 1 => WindowPrev = WindowIter[size - 1]

Log == INSTANCE BoundedLog WITH log <- WindowIter

(* What is read in the order of the slots is the log of the last Capacity
   items that were pushed and not popped.                                  *)
WindowIsLog == Log!LogSpec
=============================================================================
