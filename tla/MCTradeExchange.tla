-------------------------- MODULE MCTradeExchange --------------------------
(* Instances of TradeExchange for TLC. *)
EXTENDS TradeExchange
=============================================================================
