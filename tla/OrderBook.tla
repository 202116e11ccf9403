------------------------------ MODULE OrderBook ------------------------------
(***************************************************************************)
(* The order book of a coin (src/src/orderbook.rs): it starts from the     *)
(* depth the coin worker asks for and takes the snapshots of the partial   *)
(* depth stream; from it prices for an entry, an exit and a stop are       *)
(* suggested.  Prices and quantities are counted in the ticks and steps of *)
(* the symbol's rules, on which the appraiser's rounding leaves them.      *)
(***************************************************************************)
EXTENDS Integers, Sequences, FiniteSets, SequencesExt

CONSTANTS
    BookSize,   \* SIZED_ORDERBOOK_LENGTH
    Books,      \* what the exchange may show: bids and asks, the best first
    MaxUpdates  \* bound: the snapshots of the exchange

(* A snapshot has BookSize levels a side, in order, and the sides are apart. *)
ASSUME BookAssumption ==
    /\ BookSize \in Nat \ {0}
    /\ \A shown \in Books :
        /\ shown.bids \in [1 .. BookSize -> (Nat \ {0}) \X Nat]
        /\ shown.asks \in [1 .. BookSize -> (Nat \ {0}) \X Nat]
        /\ \A i, j \in 1 .. BookSize :
            i < j => shown.bids[i][1] > shown.bids[j][1] /\ shown.asks[i][1] < shown.asks[j][1]
        /\ shown.bids[1][1] < shown.asks[1][1]

VARIABLES
    book,       \* the OrderBookInner
    snapshots,  \* what the exchange has sent, by update id
    asked,      \* the id of the depth that was asked for
    taken       \* the ids the book has been given

bookVars == <<book, snapshots, asked, taken>>

Level(l) == [price |-> l[1], quantity |-> l[2]]
NoLevel == [price |-> 0, quantity |-> 0]
EmptySide == [i \in 1 .. BookSize |-> NoLevel]

-----------------------------------------------------------------------------
(* max_quantity and min_quantity: the first of the levels before position
   "end" with the largest, the smallest quantity; the first level if there
   is none.                                                                *)
Before(end) == {1} \cup 1 .. end - 1
MaxQuantity(side, end) ==
    CHOOSE i \in Before(end) :
        \A j \in Before(end) : \/ side[j].quantity < side[i].quantity
                               \/ side[j].quantity = side[i].quantity /\ i <= j
MinQuantity(side, end) ==
    CHOOSE i \in Before(end) :
        \A j \in Before(end) : \/ side[j].quantity > side[i].quantity
                               \/ side[j].quantity = side[i].quantity /\ i <= j

(* The update finds these positions in the levels that it is given. *)
LargestOf(levels) == MaxQuantity([i \in DOMAIN levels |-> Level(levels[i])], Len(levels) + 1)
SmallestOf(levels) == MinQuantity([i \in DOMAIN levels |-> Level(levels[i])], Len(levels) + 1)

Overlay(side, levels) ==
    [i \in 1 .. BookSize |-> IF i <= Len(levels) THEN Level(levels[i]) ELSE side[i]]

Depth(side) == FoldLeft(LAMBDA sum, l : sum + l.quantity, 0, side)

SideSummary(side, levels) ==
    [best |-> side[1], edge |-> side[BookSize], depth |-> Depth(side),
     largest |-> LargestOf(levels), smallest |-> SmallestOf(levels)]

(* Mutant: a snapshot is applied whatever its id. *)
UpdateAlways(b, id, bids, asks) ==
    [id |-> id, bids |-> Overlay(b.bids, bids), asks |-> Overlay(b.asks, asks),
     bid |-> SideSummary(Overlay(b.bids, bids), bids),
     ask |-> SideSummary(Overlay(b.asks, asks), asks)]

(* update_partial_20, and update_diff, which is the same but takes as many
   levels as it is given: an older snapshot than the last is dropped.      *)
Update(b, id, bids, asks) ==
    IF b.id >= id THEN b
    ELSE [id |-> id, bids |-> Overlay(b.bids, bids), asks |-> Overlay(b.asks, asks),
          bid |-> SideSummary(Overlay(b.bids, bids), bids),
          ask |-> SideSummary(Overlay(b.asks, asks), asks)]

(* new: from the depth that was asked for, which may be shorter. *)
NewBook(id, bids, asks) ==
    Update([id |-> 0, bids |-> EmptySide, asks |-> EmptySide], id, bids, asks)

-----------------------------------------------------------------------------
(* The levels larger than each one before them. *)
Peaks(side) == {p \in 1 .. BookSize : \A j \in 1 .. p - 1 : side[j].quantity < side[p].quantity}

(* A peak is no wall if it is not much smaller (in percent) than the one
   behind it or no larger than the mean.  0 / 0 is NaN, which is above every
   threshold.                                                              *)
TooLow(side, percent, p) ==
    \/ BookSize * side[p].quantity <= Depth(side)
    \/ \E up \in Peaks(side) :
        /\ p = MaxQuantity(side, up) /\ p < up
        /\ 100 * side[p].quantity >= percent * side[up].quantity

(* walls: the largest level, the largest before it, and so on, until one is
   too low; here without their order.                                      *)
Walls(side, percent) ==
    LET top == MaxQuantity(side, BookSize + 1)
    IN  {top} \cup {p \in Peaks(side) :
            p < top /\ \A r \in Peaks(side) : p <= r /\ r < top => ~TooLow(side, percent, r)}

NoPrice == 0

(* Mutant: the best bid is improved upon too. *)
FrontrunAnyBid(b, p) == b.bids[p].price + 1

(* frontrun_bid_level_price: one tick above a level, not above the next. *)
FrontrunBid(b, p) ==
    IF p > 1 /\ b.bids[p].price + 1 <= b.bids[p - 1].price THEN b.bids[p].price + 1 ELSE NoPrice

(* undercut_ask_level_price *)
UndercutAsk(b, p) ==
    IF p > 1 /\ b.asks[p].price - 1 >= b.asks[p - 1].price THEN b.asks[p].price - 1 ELSE NoPrice

(* undercut_bid_level_price and frontrun_ask_level_price: one tick behind a
   level, not beyond the next one.                                         *)
UndercutBid(b, p) ==
    IF p > 1 /\ p < BookSize /\ b.bids[p].price - 1 >= b.bids[p + 1].price
    THEN b.bids[p].price - 1 ELSE NoPrice
FrontrunAsk(b, p) ==
    IF p > 1 /\ p < BookSize /\ b.asks[p].price + 1 <= b.asks[p + 1].price
    THEN b.asks[p].price + 1 ELSE NoPrice

(* OrderBookTrade and its price. *)
BookTrade(level, better) == [anchor |-> level.price, better |-> better]
PriceOf(t) == IF t.better = NoPrice THEN t.anchor ELSE t.better

(* best_fit_for_bid_quote_by_fit_factor: the first level that is worth so
   many times the quote (the factor is in percent), if there is one.       *)
FirstOf(fits) == {p \in fits : \A j \in fits : p <= j}
BestFitForBid(b, quote, factor) ==
    {BookTrade(b.bids[p], FrontrunBid(b, p)) :
        p \in FirstOf({i \in 1 .. BookSize :
                        100 * b.bids[i].quantity * b.bids[i].price >= factor * quote})}

(* best_fit_for_ask_by_fit_factor *)
BestFitForAsk(b, quantity, factor) ==
    {BookTrade(b.asks[p], UndercutAsk(b, p)) :
        p \in FirstOf({i \in 1 .. BookSize : 100 * b.asks[i].quantity >= factor * quantity})}

(* entry_suggestions_quote and exit_suggestions_qty *)
EntrySuggestions(b, percent) ==
    {BookTrade(b.bids[p], FrontrunBid(b, p)) : p \in Walls(b.bids, percent)}
ExitSuggestions(b, percent) ==
    {BookTrade(b.asks[p], UndercutAsk(b, p)) : p \in Walls(b.asks, percent)}

(* suggested_long_roundtrip_quote: the entry at the best fit, the exit before
   the largest ask, the stop behind the largest bid.                       *)
SuggestRoundtrip(b, quote, factor) ==
    LET bidWall == MaxQuantity(b.bids, BookSize + 1)
        askWall == MaxQuantity(b.asks, BookSize + 1)
    IN  {[entry |-> entry,
          exit |-> BookTrade(b.asks[askWall], UndercutAsk(b, askWall)),
          stop |-> BookTrade(b.bids[bidWall], UndercutBid(b, bidWall))]
            : entry \in BestFitForBid(b, quote, factor)}

-----------------------------------------------------------------------------
(* Coin has no book before the worker has asked for the depth. *)
NoBook == [id |-> 0, bids |-> EmptySide, asks |-> EmptySide]

BookInit == book = NoBook /\ snapshots = <<>> /\ asked = 0 /\ taken = {}

(* The exchange sends a snapshot. *)
SendSnapshot(shown) ==
    /\ Len(snapshots) < MaxUpdates
    /\ snapshots' = Append(snapshots, shown)
    /\ UNCHANGED <<book, asked, taken>>

(* coin_worker.rs: the depth is asked for, and the exchange answers with the
   book it shows now, in any length.                                       *)
AskForDepth(n, m) ==
    /\ book = NoBook /\ snapshots # <<>>
    /\ book' = NewBook(Len(snapshots), SubSeq(Last(snapshots).bids, 1, n),
                                       SubSeq(Last(snapshots).asks, 1, m))
    /\ asked' = Len(snapshots) /\ taken' = {asked'}
    /\ UNCHANGED snapshots

(* Coin::update_orderbook_partial_20.  A snapshot of an earlier connection, or
   one that was sent before the depth was asked for, may come late.        *)
TakeSnapshot(id) ==
    /\ book # NoBook
    /\ book' = Update(book, id, snapshots[id].bids, snapshots[id].asks)
    /\ taken' = taken \cup {id}
    /\ UNCHANGED <<snapshots, asked>>

BookNext ==
    \/ \E shown \in Books : SendSnapshot(shown)
    \/ \E n, m \in 1 .. BookSize : AskForDepth(n, m)
    \/ \E id \in DOMAIN snapshots : TakeSnapshot(id)

BookSpec == BookInit /\ [][BookNext]_bookVars

-----------------------------------------------------------------------------

(* A full snapshot has come after the depth that was asked for. *)
Streaming == book.id > asked

(* Late snapshots do no harm: the book shows, level by level, the newest one
   it was ever given, and its summary is about those levels.               *)
BookIsNewest ==
    /\ \A id \in taken : id <= book.id
    /\ Streaming =>
        /\ book.bids = Overlay(EmptySide, snapshots[book.id].bids)
        /\ book.asks = Overlay(EmptySide, snapshots[book.id].asks)
        /\ book.bid.largest = MaxQuantity(book.bids, BookSize + 1)
        /\ book.ask.smallest = MinQuantity(book.asks, BookSize + 1)

(* What is suggested rests in the book: no entry above the best bid, no exit
   below the best ask, at whichever level and for whichever amount; and what
   is to stand behind a level stands behind the best one.                  *)
NeverCrosses ==
    Streaming => \A percent \in {50, 100}, amount \in {1, 4, 20} :
        /\ \A t \in EntrySuggestions(book, percent) \cup BestFitForBid(book, amount, 150) :
            PriceOf(t) <= book.bid.best.price
        /\ \A t \in ExitSuggestions(book, percent) \cup BestFitForAsk(book, amount, 150) :
            PriceOf(t) >= book.ask.best.price
        /\ \A s \in SuggestRoundtrip(book, amount, 150) : PriceOf(s.entry) < PriceOf(s.exit)
        /\ \A p \in 1 .. BookSize :
            /\ UndercutBid(book, p) < book.bid.best.price
            /\ FrontrunAsk(book, p) = NoPrice \/ FrontrunAsk(book, p) > book.ask.best.price
=============================================================================
