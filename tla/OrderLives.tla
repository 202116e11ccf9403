----------------------------- MODULE OrderLives -----------------------------
(***************************************************************************)
(* What an exchange promises of the orders it is given, whatever it does   *)
(* inside: an order is opened once and ends at most once, by being filled  *)
(* or cancelled; what is announced of it is what happened, in that order.  *)
(* Many orders may take a step together, and an announcement may be late.  *)
(* Simulator is shown to implement this module.                            *)
(***************************************************************************)
EXTENDS Naturals, SequencesExt

CONSTANT Ids

VARIABLES
    status,   \* what an order is
    feed      \* what was announced of it

vars == <<status, feed>>

Story(s) ==
    CASE s = "none"      -> <<>>
      [] s = "open"      -> <<"New">>
      [] s = "filled"    -> <<"New", "Fill">>
      [] s = "cancelled" -> <<"New", "Cancelled">>

Init ==
    /\ status = [i \in Ids |-> "none"]
    /\ feed = [i \in Ids |-> <<>>]

Lives(i) ==
    \/ status'[i] = status[i]
    \/ status[i] = "none" /\ status'[i] = "open"
    \/ status[i] = "open" /\ status'[i] \in {"filled", "cancelled"}

Hears(i) ==
    \/ feed'[i] = feed[i]
    \/ IsStrictPrefix(feed[i], feed'[i]) /\ IsPrefix(feed'[i], Story(status'[i]))

Next == \A i \in Ids : Lives(i) /\ Hears(i)

Spec == Init /\ [][Next]_vars
=============================================================================
