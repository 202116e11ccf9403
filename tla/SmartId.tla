-------------------------------- MODULE SmartId --------------------------------
(***************************************************************************)
(* id.rs: the ids this program gives to its trades and orders.  The id of  *)
(* an order packs a trade's, what the order is for, how many times it was  *)
(* replaced and a unique number into 64 bits.  The widths are parameters,  *)
(* so that they overflow where TLC can see it; shifts and masks are        *)
(* products and remainders by powers of two.                               *)
(***************************************************************************)
EXTENDS Integers

CONSTANTS
    HandleSpan,     \* 2^16 in the code
    SequenceSpan,   \* 2^8
    HalfSpan        \* 2^16: a unique number is made of two halves

ASSUME SmartIdAssumption ==
    HandleSpan \in Nat \ {0} /\ SequenceSpan \in Nat \ {0} /\ HalfSpan \in Nat \ {0}

KindSpan == 256
UniqueSpan == HalfSpan * HalfSpan

(* HandleOrderKind and its discriminants. *)
KindCode ==
    [None |-> 0, EntryOrder |-> 1, ExitOrder |-> 2, StoplossOrder |-> 3, SpecialOrder |-> 4,
     StandaloneOrder |-> 5, UnexpectedOrder |-> 6, Unknown |-> 255]

KindOf(code) == IF code \in 0 .. 6 THEN CHOOSE k \in DOMAIN KindCode : KindCode[k] = code ELSE "Unknown"

(* The timestamp is in microseconds; both counters wrap. *)
NewHandleId(now, counter) == ((now % HandleSpan) + counter) % HandleSpan

Packed(handle, code, sequence, unique) ==
    ((handle * KindSpan + code) * SequenceSpan + sequence) * UniqueSpan + unique

NewOrderIdWithUniqueId(handle, kind, unique) == Packed(handle, KindCode[kind], 0, unique)

NewOrderId(handle, kind, now, counter) ==
    Packed(handle, KindCode[kind], 0, (now % HalfSpan) * HalfSpan + (counter % HalfSpan))

SequenceNumber(id) == (id \div UniqueSpan) % SequenceSpan
CodeBits(id) == ((id \div UniqueSpan) \div SequenceSpan) % KindSpan
HandleId(id) == ((id \div UniqueSpan) \div SequenceSpan) \div KindSpan

Decode(id) ==
    [handle |-> HandleId(id), kind |-> KindOf(CodeBits(id)),
     sequence |-> SequenceNumber(id), unique |-> id % UniqueSpan]

WithSequence(id, sequence) ==
    Packed(HandleId(id), CodeBits(id), sequence, id % UniqueSpan)

Overflow == 0 - 1

NewIncrementedId(id) ==
    IF SequenceNumber(id) + 1 < SequenceSpan THEN WithSequence(id, SequenceNumber(id) + 1) ELSE Overflow

DecrementedId(id) ==
    IF SequenceNumber(id) > 0 THEN WithSequence(id, SequenceNumber(id) - 1) ELSE Overflow

OriginalId(id) == WithSequence(id, 0)
=============================================================================
