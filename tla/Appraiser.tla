------------------------------- MODULE Appraiser -------------------------------
(***************************************************************************)
(* appraiser.rs, and the rules of a symbol it is built from (model.rs):    *)
(* how prices and quantities are brought to what the exchange takes.       *)
(* Amounts are whole numbers of 1/One; the program's are binary fractions, *)
(* whose errors are left out.                                              *)
(***************************************************************************)
EXTENDS Integers, FiniteSets

One == 1000     \* three digits after the point

(* The filters of a symbol, as the exchange lists them.  Those that nothing
   in the program reads stand for one another as "other".                  *)
FilterRules == [type : {"PRICE_FILTER", "LOT_SIZE", "other"}, min : Nat, max : Nat, step : Nat]

(* deserialize_symbol_rules: of two filters of a type the later one counts;
   no symbol lists two.                                                    *)
RulesOf(filters) ==
    [price |-> CHOOSE f \in filters : f.type = "PRICE_FILTER",
     lot |-> CHOOSE f \in filters : f.type = "LOT_SIZE"]

(* Appraiser::new panics without them. *)
HasRules(filters) ==
    \A type \in {"PRICE_FILTER", "LOT_SIZE"} : \E f \in filters : f.type = type

(* The digits kept, as the unit of the last one: never fewer than two. *)
PrecisionUnit(step) == IF step * 100 < One THEN One \div 1000 ELSE One \div 100

NewAppraiser(filters) ==
    LET rules == RulesOf(filters)
    IN  [rules |-> rules, base |-> PrecisionUnit(rules.lot.step),
         quote |-> PrecisionUnit(rules.price.step)]

(* round_float_to_precision, of amounts that are not negative. *)
RoundTo(x, unit) == ((2 * x + unit) \div (2 * unit)) * unit

RoundQuote(a, price) == RoundTo(price, a.quote)
RoundBase(a, amount) == RoundTo(amount, a.base)

NormalizeQuote(a, price) == RoundQuote(a, price - (price % a.rules.price.step))
NormalizeBase(a, amount) == RoundBase(a, amount - (amount % a.rules.lot.step))

RoundNormalizedQuote(a, price) == RoundQuote(a, NormalizeQuote(a, price))
RoundNormalizedBase(a, amount) == RoundBase(a, NormalizeBase(a, amount))

Within(rule, x) ==
    /\ rule.min = 0 \/ x >= rule.min
    /\ rule.max = 0 \/ x <= rule.max
    /\ rule.step = 0 \/ (x - rule.min) % rule.step = 0

IsValidPrice(a, price) == Within(a.rules.price, price)
IsValidQuantity(a, amount) == Within(a.rules.lot, amount)
=============================================================================
