------------------------------ MODULE TradeEngine ------------------------------
(***************************************************************************)
(* src/Trade_Engine/main.cpp: an order that comes in is matched with the   *)
(* resting orders of the other side, and what is left of it rests.  An     *)
(* order carries, as history, its place in the sequence of arrivals.       *)
(* A trade of the report is a trader, a sign, a quantity and a price.      *)
(***************************************************************************)
EXTENDS Integers, Sequences, SequencesExt, Selection

CONSTANTS
  Traders, Quantities, Prices,
  MaxOrders    \* bound: orders on the input

ASSUME MarketAssumption == Quantities \subseteq Nat /\ Prices \subseteq Nat

VARIABLES
  sell, buy,      \* resting orders, the first to be matched first
  tradeResult,    \* what the last order has reported
  arrived         \* history: number of orders so far

marketVars == <<sell, buy, tradeResult, arrived>>

Sides == {"B", "S"}
Order == [trader: Traders, side: Sides, quantity: Nat, price: Prices, seq: Nat]

MarketTypeOK ==
  /\ sell \in Seq(Order) /\ buy \in Seq(Order)
  /\ tradeResult \in Seq([trader: Traders, side: Sides, quantity: Nat, price: Prices])
  /\ arrived \in 0 .. MaxOrders

MarketInit == sell = <<>> /\ buy = <<>> /\ tradeResult = <<>> /\ arrived = 0

-----------------------------------------------------------------------------
(* processAgressor *)

\* Defect: a resting sell order at exactly the price of the buyer does not match.
MatchesStrictly(order, aggressor) ==
  IF aggressor.side = "B" THEN order.price < aggressor.price ELSE order.price >= aggressor.price

Matches(order, aggressor) ==
  IF aggressor.side = "B" THEN order.price <= aggressor.price ELSE order.price >= aggressor.price

\* Defect: the larger of the two.
Larger(a, b) == IF a > b THEN a ELSE b

Smaller(a, b) == IF a < b THEN a ELSE b

\* The best of the two prices, for the aggressor.
BestPrice(order, aggressor) ==
  IF (aggressor.side = "B") = (order.price < aggressor.price) THEN order.price ELSE aggressor.price

\* The first trade of the report with this trader and this price, of whichever side, becomes
\* larger; a new trade is put in front or at the end.
Reported(report, order, count, price, inFront) ==
  LET same(i) == report[i].trader = order.trader /\ report[i].price = price
      trade   == [trader |-> order.trader, side |-> order.side, quantity |-> count, price |-> price]
      first   == CHOOSE i \in DOMAIN report : same(i) /\ \A j \in 1 .. i - 1 : ~same(j)
  IN  IF \E i \in DOMAIN report : same(i) THEN [report EXCEPT ![first].quantity = @ + count]
      ELSE IF inFront THEN <<trade>> \o report ELSE Append(report, trade)

\* One resting order of the other side: it gives what the aggressor still wants, unless its price
\* does not match or the aggressor has nothing left.
Visited(before, order, aggressor) ==
  LET left  == aggressor.quantity - before.traded
      count == Smaller(left, order.quantity)
      price == BestPrice(order, aggressor)
  IN  IF before.over \/ ~Matches(order, aggressor) THEN [before EXCEPT !.given = Append(@, 0)]
      ELSE [given  |-> Append(before.given, count),
            traded |-> before.traded + count,
            report |-> Reported(Reported(before.report, order, count, price, TRUE),
                                aggressor, count, price, FALSE),
            over   |-> count = left]

\* The walk over the resting orders: what each has given, and the report.
Walk(resting, aggressor) ==
  LET walk[i \in 0 .. Len(resting)] ==
        IF i = 0 THEN [given |-> <<>>, traded |-> 0, report |-> <<>>, over |-> FALSE]
        ELSE Visited(walk[i - 1], resting[i], aggressor)
  IN  walk[Len(resting)]

\* remove_if: orders that have given everything.
StillResting(resting, given) ==
  LET rest == [i \in DOMAIN resting |-> [resting[i] EXCEPT !.quantity = @ - given[i]]]
  IN  Selected(rest, {i \in DOMAIN rest : rest[i].quantity > 0})

\* Defect: at the end of the list, whatever the price.
PlaceAtEnd(resting, aggressor) == Len(resting) + 1

\* saveOrder: behind better prices; a sell order also behind its own price, a buy order in front
\* of it.
PlaceOf(resting, aggressor) ==
  LET stops(i) == IF aggressor.side = "S" THEN resting[i].price > aggressor.price
                  ELSE resting[i].price <= aggressor.price
  IN  IF \E i \in DOMAIN resting : stops(i)
      THEN CHOOSE i \in DOMAIN resting : stops(i) /\ \A j \in 1 .. i - 1 : ~stops(j)
      ELSE Len(resting) + 1

Saved(resting, aggressor) ==
  IF aggressor.quantity = 0 THEN resting
  ELSE InsertAt(resting, PlaceOf(resting, aggressor), aggressor)

ProcessAggressor(aggressor) ==
  LET other == IF aggressor.side = "B" THEN sell ELSE buy
      walk  == Walk(other, aggressor)
      left  == [aggressor EXCEPT !.quantity = @ - walk.traded]
  IN  /\ tradeResult' = walk.report
      /\ IF aggressor.side = "B"
         THEN sell' = StillResting(sell, walk.given) /\ buy' = Saved(buy, left)
         ELSE buy' = StillResting(buy, walk.given) /\ sell' = Saved(sell, left)

OrderArrives ==
  /\ arrived < MaxOrders
  /\ \E t \in Traders, s \in Sides, q \in Quantities, p \in Prices :
       ProcessAggressor([trader |-> t, side |-> s, quantity |-> q, price |-> p, seq |-> arrived])
  /\ arrived' = arrived + 1

MarketSpec == MarketInit /\ [][OrderArrives]_marketVars

-----------------------------------------------------------------------------
\* No resting buyer offers what a resting seller asks: what can be matched has been
\* (processAgressor).
NotCrossed == \A i \in DOMAIN buy, j \in DOMAIN sell : buy[i].price < sell[j].price

\* "... matches against resting orders of the opposite side with a best price first", also after
\* orders that are used up have left and others were put between; and of sellers with one price
\* the oldest first (saveOrder, processAgressor).
MatchingOrder ==
  /\ \A i, j \in DOMAIN sell : i < j =>
       \/ sell[i].price < sell[j].price
       \/ sell[i].price = sell[j].price /\ sell[i].seq < sell[j].seq
  /\ \A i, j \in DOMAIN buy : i < j => buy[i].price >= buy[j].price

\* "If there are many resting orders at the best price then resting orders are taken from oldest
\* to newest."
OldestFirst ==
  \A side \in {sell, buy} : \A i, j \in DOMAIN side :
    i < j /\ side[i].price = side[j].price => side[i].seq < side[j].seq

Quantity(report, side) ==
  LET trades == SelectSeq(report, LAMBDA t : t.side = side)
  IN  FoldLeft(LAMBDA n, t : n + t.quantity, 0, trades)

\* "Several trades of one trader with the same side and price, created on one aggressor execution,
\* should be reported as one trade with cumulative size": a trade of the other side is another
\* one, so that as much is reported as bought as is reported as sold (processAgressor).
TradesBalance == Quantity(tradeResult, "B") = Quantity(tradeResult, "S")
===============================================================================
