------------------------------ MODULE AntMarket ------------------------------
(***************************************************************************)
(* The ANT market of x/anteil: orders, the matching of its EndBlocker, the *)
(* daily ANT of its BeginBlocker, and the burning of ANT that x/ident asks *)
(* for.  A position is a string; the market writes it as a decimal number, *)
(* and everything else reads and writes it as a whole one.  Amounts and    *)
(* prices of orders are strings that need not be numbers: what does not    *)
(* parse is 0, but "NaN" parses, and compares with nothing.                *)
(***************************************************************************)
EXTENDS Integers, FiniteSets, FiniteSetsExt

CONSTANTS
  Users,
  OrderIds,          \* numbers, in the order of the store's keys
  OwnerOf,           \* [OrderIds -> Users]: an id is made of owner and second
  Amounts, Prices,   \* of orders: numbers, also negative ones, or NaN
  RewardRate,        \* CitizenAntRewardRate
  AccumulationLimit, \* CitizenAntAccumulationLimit
  Period,            \* CitizenAntDistributionPeriod
  TimeSteps,         \* distances between blocks
  LastTime,          \* bound on the time
  NaN, NoOrder, Never

ASSUME MarketConstants ==
  /\ OrderIds \subseteq Nat /\ IsFiniteSet(OrderIds)
  /\ OwnerOf \in [OrderIds -> Users]
  /\ NaN \notin Int
  /\ Amounts \subseteq Int \cup {NaN} /\ Prices \subseteq Int \cup {NaN}
  /\ RewardRate \in Nat /\ AccumulationLimit \in Nat
  /\ Period \in Nat \ {0}
  /\ TimeSteps \subseteq Nat /\ LastTime \in Nat
  /\ Never \notin Nat

Floats == Int \cup {NaN}

Orders == [side : {"buy", "sell"}, price : Prices, amount : Floats, placed : Amounts,
           status : {"open", "filled", "cancelled"}]
Trades == [buy : OrderIds, sell : OrderIds, amount : Floats, price : Int]
Positions == [written : {"never", "whole"}, ant : Int] \cup [written : {"decimal"}, ant : Floats]

ASSUME NoOrderIsNone == NoOrder \notin Orders

VARIABLES
  orders,       \* by id; "placed", the amount it was placed with, is history
  trades,
  positions,
  recipients,   \* active citizens and validators, who get the daily ANT
  since,        \* time since the last distribution, or Never
  time,         \* since the first block
  phase         \* "between" blocks, "messages", "matching" or "matched"

vars == <<orders, trades, positions, recipients, since, time, phase>>

TypeOK ==
  /\ orders \in [OrderIds -> Orders \cup {NoOrder}]
  /\ trades \subseteq Trades
  /\ positions \in [Users -> Positions]
  /\ recipients \subseteq Users
  /\ since \in 0..Period \cup {Never}
  /\ time \in 0..LastTime
  /\ phase \in {"between", "messages", "matching", "matched"}

Init ==
  /\ orders = [i \in OrderIds |-> NoOrder]
  /\ trades = {}
  /\ positions = [u \in Users |-> [written |-> "never", ant |-> 0]]
  /\ recipients = {}
  /\ since = Never /\ time = 0
  /\ phase = "between"

-----------------------------------------------------------------------------
(* ParseUint fails on a decimal number, and a failure reads as 0.          *)
WholeBalance(position) == IF position.written = "whole" THEN position.ant ELSE 0

(* What DistributeAntToCitizens makes of a recipient's position.           *)
Accrued(position) ==
  LET balance == WholeBalance(position) IN
    IF balance >= AccumulationLimit THEN position
    ELSE [written |-> "whole",
          ant |-> IF balance + RewardRate > AccumulationLimit THEN AccumulationLimit
                  ELSE balance + RewardRate]

(* BurnAntFromUser finds nothing to burn in a decimal balance.             *)
BurnAntFromUser(position) ==
  IF WholeBalance(position) = 0 THEN position ELSE [written |-> "whole", ant |-> 0]

Since(step) ==
  IF since = Never THEN Never ELSE IF since + step < Period THEN since + step ELSE Period

(* Mutant: the distribution comes a unit of time too early.                *)
DueEarly(step) == since = Never \/ since + step >= Period - 1

Due(step) == since = Never \/ since + step >= Period

(* The next block, step later: x/ident's BeginBlocker takes the recipients *)
(* leaving, burning the ANT of those who were citizens, then x/anteil's    *)
(* distributes.                                                            *)
BeginBlocker(step, leaving, citizens) ==
  /\ phase = "between" /\ time + step <= LastTime
  /\ phase' = "messages"
  /\ time' = IF since = Never THEN 0 ELSE time + step
  /\ recipients' = recipients \ leaving
  /\ positions' =
       [u \in Users |->
          IF u \in leaving \cap citizens THEN BurnAntFromUser(positions[u])
          ELSE IF Due(step) /\ u \in recipients \ leaving THEN Accrued(positions[u])
          ELSE positions[u]]
  /\ since' = IF Due(step) THEN 0 ELSE Since(step)
  /\ UNCHANGED <<orders, trades>>

(* x/ident verifies an identity.                                           *)
Join(user) ==
  /\ phase = "messages"
  /\ recipients' = recipients \cup {user}
  /\ UNCHANGED <<orders, trades, positions, since, time, phase>>

(* PlaceOrder: one order per owner and second, and no ANT behind it.       *)
PlaceOrder(id, side, price, amount) ==
  /\ phase = "messages"
  /\ orders[id] = NoOrder
  /\ orders' = [orders EXCEPT ![id] = [side |-> side, price |-> price, amount |-> amount,
                                       placed |-> amount, status |-> "open"]]
  /\ UNCHANGED <<trades, positions, recipients, since, time, phase>>

(* CancelOrder, for an order in any status.                                *)
CancelOrder(id) ==
  /\ phase = "messages"
  /\ orders[id] # NoOrder
  /\ orders' = [orders EXCEPT ![id].status = "cancelled"]
  /\ UNCHANGED <<trades, positions, recipients, since, time, phase>>

-----------------------------------------------------------------------------
Open(side) ==
  {i \in OrderIds : /\ orders[i] # NoOrder
                    /\ orders[i].status = "open" /\ orders[i].side = side}

AtLeast(x, y) == x # NaN /\ y # NaN /\ x >= y

Minus(x, y) == IF NaN \in {x, y} THEN NaN ELSE x - y

(* Mutant: both sides are sorted alike.                                    *)
AheadAscending(i, j) ==
  LET p == orders[i].price  q == orders[j].price
  IN IF p = q \/ NaN \in {p, q} THEN i <= j ELSE p < q

(* The order of matching: high bids and low offers first; sort.Slice       *)
(* leaves up to twelve orders of one price as the store has them.          *)
Ahead(i, j) ==
  LET p == orders[i].price  q == orders[j].price
  IN IF p = q \/ NaN \in {p, q} THEN i <= j
     ELSE IF orders[i].side = "buy" THEN p > q ELSE p < q

(* Sorting moves no order past one whose price is NaN.                     *)
Sorted(side) ==
  LET open == Open(side)
  IN {i \in open : \A j \in open : j < i => orders[j].price # NaN}

First(side) ==
  LET sorted == Sorted(side) IN {i \in sorted : \A j \in sorted : Ahead(i, j)}

(* Mutant: the matching ends only where the bid is below the offer.        *)
MatchingUnlessBelow ==
  {pair \in First("buy") \X First("sell") :
     LET bid == orders[pair[1]].price  offer == orders[pair[2]].price
     IN NaN \in {bid, offer} \/ bid >= offer}

(* The pair that executeMatching trades next, if there is one.             *)
Matching ==
  {pair \in First("buy") \X First("sell") :
     AtLeast(orders[pair[1]].price, orders[pair[2]].price)}

TradeQty(buy, sell) ==
  LET bid == orders[buy].amount  offered == orders[sell].amount
  IN IF AtLeast(offered, bid) \/ NaN \in {bid, offered} THEN bid ELSE offered

(* Mutant: the amount of an order is left as it was placed.                *)
TradedInFull(order, qty) ==
  [order EXCEPT !.status = IF Minus(order.amount, qty) = 0 THEN "filled" ELSE @]

Traded(order, qty) ==
  [order EXCEPT !.amount = Minus(@, qty),
                !.status = IF Minus(order.amount, qty) = 0 THEN "filled" ELSE @]

(* Mutant: the price of the buy order is recorded.                         *)
TradeOfBuyer(buy, sell) ==
  [buy |-> buy, sell |-> sell, amount |-> TradeQty(buy, sell), price |-> orders[buy].price]

Trade(buy, sell) ==
  [buy |-> buy, sell |-> sell, amount |-> TradeQty(buy, sell), price |-> orders[sell].price]

(* updateUserPositions writes the buyer's position, then the seller's.     *)
PositionsAfter(buyer, seller, qty) ==
  [positions EXCEPT ![buyer] = [written |-> "decimal", ant |-> qty],
                    ![seller] = [written |-> "decimal", ant |-> Minus(0, qty)]]

(* executeTrade.  A trade of the same two orders fails it at the end,      *)
(* stops the matching, and leaves everything else written.                 *)
ExecuteTrade(buy, sell) ==
  LET qty == TradeQty(buy, sell)
      exists == \E t \in trades : t.buy = buy /\ t.sell = sell
  IN /\ phase \in {"messages", "matching"}
     /\ <<buy, sell>> \in Matching
     /\ orders' = [orders EXCEPT ![buy] = Traded(@, qty), ![sell] = Traded(@, qty)]
     /\ positions' = PositionsAfter(OwnerOf[buy], OwnerOf[sell], qty)
     /\ trades' = IF exists THEN trades ELSE trades \cup {Trade(buy, sell)}
     /\ phase' = IF exists THEN "matched" ELSE "matching"
     /\ UNCHANGED <<recipients, since, time>>

(* The rest of the EndBlocker.  Open auctions are cancelled, which no code *)
(* creates, and the orders of the market maker are refused, which lack the *)
(* identity hash an order must have.                                       *)
EndBlocker ==
  /\ \/ phase \in {"messages", "matching"} /\ Matching = {}
     \/ phase = "matched"
  /\ phase' = "between"
  /\ UNCHANGED <<orders, trades, positions, recipients, since, time>>

Next ==
  \/ \E step \in TimeSteps : \E leaving \in SUBSET recipients : \E citizens \in SUBSET leaving :
       BeginBlocker(step, leaving, citizens)
  \/ \E u \in Users : Join(u)
  \/ \E i \in OrderIds, side \in {"buy", "sell"}, p \in Prices, n \in Amounts :
       PlaceOrder(i, side, p, n)
  \/ \E i \in OrderIds : CancelOrder(i)
  \/ \E b \in First("buy"), s \in First("sell") : ExecuteTrade(b, s)
  \/ EndBlocker

Spec == Init /\ [][Next]_vars

-----------------------------------------------------------------------------
TradesOf(id) == {t \in trades : t.buy = id \/ t.sell = id}

TotalOf(some) == MapThenSumSet(LAMBDA t : t.amount, some)

(* What is left of an order and what was traded of it add up to what was   *)
(* placed, however often it met another order, filled or cancelled; only   *)
(* an order whose amount is NaN, or that met one, accounts for nothing.    *)
OrdersAccountForTrades ==
  \A i \in OrderIds : orders[i] # NoOrder /\ orders[i].amount # NaN =>
    /\ \A t \in TradesOf(i) : t.amount # NaN
    /\ orders[i].amount + TotalOf(TradesOf(i)) = orders[i].placed

Crossing(buy, sell) == AtLeast(orders[buy].price, orders[sell].price)

(* No block that leaves only numbers in the open orders leaves two behind  *)
(* that could trade: neither the sorting nor the early end of the          *)
(* matching, nor an error in it, skips any.                                *)
BookUncrossed ==
  phase = "between" /\ (\A i \in Open("buy") \cup Open("sell") :
                          NaN \notin {orders[i].price, orders[i].amount}) =>
    \A b \in Open("buy"), s \in Open("sell") : ~Crossing(b, s)

(* A trade fails, and with it the matching of the block, only over two     *)
(* open orders that both have the amount NaN: any other trade fills one of *)
(* its orders, so that the same two do not meet again.                     *)
OnlyNaNStopsMatching ==
  phase = "matched" =>
    \E b \in Open("buy"), s \in Open("sell") :
      orders[b].amount = NaN /\ orders[s].amount = NaN

(* Nobody trades at a price worse than his order's, and the price is the   *)
(* seller's.                                                               *)
TradesWithinLimits ==
  \A t \in trades : /\ t.price = orders[t.sell].price
                     /\ AtLeast(orders[t.buy].price, t.price)

(* Daily ANT keeps to the rate and to the limit, whatever the distances of *)
(* the blocks and whoever comes, goes and trades in between.  The first    *)
(* block distributes too, before there is anybody to receive it.           *)
AccrualWithinSchedule ==
  \A u \in Users : positions[u].written = "whole" =>
    /\ positions[u].ant <= RewardRate * (time \div Period)
    /\ positions[u].ant <= AccumulationLimit
=============================================================================
