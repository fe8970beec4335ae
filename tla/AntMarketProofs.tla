--------------------------- MODULE AntMarketProofs ---------------------------
(***************************************************************************)
(* What the ANT market promises, for every number of users and orders, all *)
(* prices and amounts, and any distances of the blocks: what the matching  *)
(* leaves in the book, what it writes into orders and trades, and how much *)
(* daily ANT there can be.                                                 *)
(***************************************************************************)
EXTENDS AntMarket, FoldTheorems

-----------------------------------------------------------------------------
(* Type correctness.                                                       *)

LEMMA PlacedOrder ==
  ASSUME TypeOK, NEW i \in OrderIds, orders[i] # NoOrder
  PROVE  /\ orders[i] \in Orders
         /\ orders[i].side \in {"buy", "sell"} /\ orders[i].price \in Prices
         /\ orders[i].price \in Floats /\ orders[i].amount \in Floats
         /\ orders[i].placed \in Floats
         /\ orders[i].status \in {"open", "filled", "cancelled"}
<1>1. orders[i] \in Orders
  BY DEF TypeOK
<1>2. Prices \subseteq Floats /\ Amounts \subseteq Floats
  BY MarketConstants DEF Floats
<1>. QED BY <1>1, <1>2 DEF Orders

LEMMA OpenOrder ==
  ASSUME NEW side, NEW i \in Open(side)
  PROVE  /\ i \in OrderIds /\ orders[i] # NoOrder
         /\ orders[i].status = "open" /\ orders[i].side = side
BY DEF Open

LEMMA Differences ==
  ASSUME NEW x \in Floats, NEW y \in Floats
  PROVE  /\ Minus(x, y) \in Floats
         /\ Minus(x, y) # NaN => x \in Int /\ y \in Int /\ Minus(x, y) = x - y
         /\ x = NaN \/ y = NaN => Minus(x, y) = NaN
         /\ Minus(x, y) = 0 <=> x = y /\ x # NaN
BY MarketConstants DEF Minus, Floats

(* What a trade is made of: two different open orders whose prices are     *)
(* numbers, and an amount that fills one of them, unless both it and what  *)
(* it leaves of the two are NaN.                                           *)
LEMMA TradedPair ==
  ASSUME TypeOK, NEW b, NEW s, <<b, s>> \in Matching
  PROVE  /\ b \in Open("buy") /\ s \in Open("sell")
         /\ b \in OrderIds /\ s \in OrderIds /\ b # s
         /\ orders[b] \in Orders /\ orders[s] \in Orders
         /\ orders[b] # NoOrder /\ orders[s] # NoOrder
         /\ orders[b].status = "open" /\ orders[s].status = "open"
         /\ orders[b].price \in Int /\ orders[s].price \in Int
         /\ orders[b].price >= orders[s].price
         /\ TradeQty(b, s) \in Floats
         /\ TradeQty(b, s) # NaN =>
              TradeQty(b, s) = orders[b].amount \/ TradeQty(b, s) = orders[s].amount
<1>1. b \in Open("buy") /\ s \in Open("sell") /\ AtLeast(orders[b].price, orders[s].price)
  BY DEF Matching, First, Sorted
<1>2. /\ b \in OrderIds /\ s \in OrderIds
      /\ orders[b] # NoOrder /\ orders[s] # NoOrder
      /\ orders[b].status = "open" /\ orders[s].status = "open"
      /\ orders[b].side = "buy" /\ orders[s].side = "sell"
  BY <1>1, OpenOrder
<1>3. /\ orders[b] \in Orders /\ orders[s] \in Orders
      /\ orders[b].amount \in Floats /\ orders[s].amount \in Floats
      /\ orders[b].price \in Floats /\ orders[s].price \in Floats
  BY <1>2, PlacedOrder
<1>4. /\ orders[b].price \in Int /\ orders[s].price \in Int
      /\ orders[b].price >= orders[s].price
  BY <1>1, <1>3 DEF AtLeast, Floats
<1>5. /\ TradeQty(b, s) \in Floats
      /\ TradeQty(b, s) = orders[b].amount \/ TradeQty(b, s) = orders[s].amount
  BY <1>3 DEF TradeQty
<1>. QED BY <1>1, <1>2, <1>3, <1>4, <1>5

LEMMA TradedOrder ==
  ASSUME NEW order \in Orders, NEW qty \in Floats
  PROVE  /\ Traded(order, qty) \in Orders
         /\ Traded(order, qty).amount = Minus(order.amount, qty)
         /\ Traded(order, qty).side = order.side
         /\ Traded(order, qty).price = order.price
         /\ Traded(order, qty).placed = order.placed
         /\ Traded(order, qty).status =
              IF order.amount = qty /\ qty # NaN THEN "filled" ELSE order.status
<1>1. order.amount \in Floats
  BY DEF Orders
<1>2. /\ Minus(order.amount, qty) \in Floats
      /\ Minus(order.amount, qty) = 0 <=> order.amount = qty /\ qty # NaN
  BY <1>1, Differences
<1>. QED BY <1>2 DEF Traded, Orders

(* The orders after a trade.                                               *)
LEMMA OrdersTraded ==
  ASSUME TypeOK, NEW b, NEW s, ExecuteTrade(b, s)
  PROVE  LET qty == TradeQty(b, s)
         IN  /\ orders'[b] = Traded(orders[b], qty) /\ orders'[s] = Traded(orders[s], qty)
             /\ \A i \in OrderIds \ {b, s} : orders'[i] = orders[i]
             /\ orders' \in [OrderIds -> Orders \cup {NoOrder}]
<1>. DEFINE qty == TradeQty(b, s)
<1>1. <<b, s>> \in Matching
  BY DEF ExecuteTrade
<1>2. /\ b \in OrderIds /\ s \in OrderIds /\ b # s
      /\ orders[b] \in Orders /\ orders[s] \in Orders
      /\ qty \in Floats
  BY <1>1, TradedPair
<1>3. orders' = [orders EXCEPT ![b] = Traded(@, qty), ![s] = Traded(@, qty)]
  BY DEF ExecuteTrade
<1>. HIDE DEF qty
<1>4. Traded(orders[b], qty) \in Orders /\ Traded(orders[s], qty) \in Orders
  BY <1>2, TradedOrder
<1>5. orders \in [OrderIds -> Orders \cup {NoOrder}]
  BY DEF TypeOK
<1>6. orders'[b] = Traded(orders[b], qty) /\ orders'[s] = Traded(orders[s], qty)
  BY <1>2, <1>3, <1>5
<1>7. \A i \in OrderIds \ {b, s} : orders'[i] = orders[i]
  BY <1>3, <1>5
<1>8. orders' \in [OrderIds -> Orders \cup {NoOrder}]
  BY <1>2, <1>3, <1>4, <1>5
<1>. QED BY <1>6, <1>7, <1>8 DEF qty

LEMMA PositionTyped ==
  ASSUME NEW p \in Positions
  PROVE  Accrued(p) \in Positions /\ BurnAntFromUser(p) \in Positions
<1>1. RewardRate \in Nat /\ AccumulationLimit \in Nat
  BY MarketConstants
<1>2. WholeBalance(p) \in Int
  BY DEF WholeBalance, Positions
<1>3. Accrued(p) \in Positions
  BY <1>1, <1>2 DEF Accrued, Positions
<1>4. BurnAntFromUser(p) \in Positions
  BY DEF BurnAntFromUser, Positions
<1>. QED BY <1>3, <1>4

LEMMA InitTyped == Init => TypeOK
<1>. SUFFICES ASSUME Init PROVE TypeOK
  OBVIOUS
<1>1. time \in 0..LastTime
  <2>1. LastTime \in Nat
    BY MarketConstants
  <2>. QED BY <2>1 DEF Init
<1>2. [written |-> "never", ant |-> 0] \in Positions
  BY DEF Positions
<1>. QED BY <1>1, <1>2 DEF Init, TypeOK

(* The clocks at a block: not before the first one, and not past a period. *)
LEMMA ClocksTyped ==
  ASSUME TypeOK, NEW step \in TimeSteps, NEW leaving, NEW citizens,
         BeginBlocker(step, leaving, citizens)
  PROVE  /\ step \in Nat /\ time \in Nat /\ Period \in Nat \ {0}
         /\ since # Never => since \in Nat
         /\ since' \in 0..Period \cup {Never} /\ time' \in 0..LastTime
<1>1. TimeSteps \subseteq Nat /\ LastTime \in Nat /\ Period \in Nat \ {0}
  BY MarketConstants
<1>2. /\ since \in 0..Period \cup {Never} /\ time \in 0..LastTime
  BY DEF TypeOK
<1>3. /\ time + step <= LastTime
      /\ time' = IF since = Never THEN 0 ELSE time + step
      /\ since' = IF Due(step) THEN 0 ELSE Since(step)
  BY DEF BeginBlocker
<1>4. step \in Nat /\ time \in Nat /\ (since # Never => since \in Nat /\ since <= Period)
  BY <1>1, <1>2
<1>5. time' \in 0..LastTime
  BY <1>1, <1>3, <1>4
<1>6. since' \in 0..Period \cup {Never}
  <2>1. CASE Due(step)
    BY <1>1, <1>3, <2>1
  <2>2. CASE ~Due(step)
    BY <1>1, <1>3, <1>4, <2>2 DEF Due, Since
  <2>. QED BY <2>1, <2>2
<1>. QED BY <1>1, <1>4, <1>5, <1>6

LEMMA StepTyped == TypeOK /\ [Next]_vars => TypeOK'
<1>. SUFFICES ASSUME TypeOK, [Next]_vars PROVE TypeOK'
  OBVIOUS
<1>1. ASSUME NEW step \in TimeSteps, NEW leaving \in SUBSET recipients,
             NEW citizens \in SUBSET leaving, BeginBlocker(step, leaving, citizens)
      PROVE  TypeOK'
  <2>1. since' \in 0..Period \cup {Never} /\ time' \in 0..LastTime
    BY <1>1, ClocksTyped
  <2>2. \A u \in Users : /\ positions[u] \in Positions
                         /\ Accrued(positions[u]) \in Positions
                         /\ BurnAntFromUser(positions[u]) \in Positions
    BY PositionTyped DEF TypeOK
  <2>3. positions' \in [Users -> Positions]
    BY <1>1, <2>2 DEF BeginBlocker
  <2>4. /\ recipients' \subseteq Users /\ phase' = "messages"
        /\ orders' = orders /\ trades' = trades
    BY <1>1 DEF BeginBlocker, TypeOK
  <2>. QED BY <2>1, <2>3, <2>4 DEF TypeOK
<1>2. ASSUME NEW u \in Users, Join(u) PROVE TypeOK'
  BY <1>2 DEF Join, TypeOK
<1>3. ASSUME NEW i \in OrderIds, NEW side \in {"buy", "sell"}, NEW p \in Prices,
             NEW n \in Amounts, PlaceOrder(i, side, p, n)
      PROVE  TypeOK'
  <2>1. n \in Floats
    BY MarketConstants DEF Floats
  <2>2. [side |-> side, price |-> p, amount |-> n, placed |-> n, status |-> "open"] \in Orders
    BY <2>1 DEF Orders
  <2>3. orders' \in [OrderIds -> Orders \cup {NoOrder}]
    BY <1>3, <2>2 DEF PlaceOrder, TypeOK
  <2>. QED BY <1>3, <2>3 DEF PlaceOrder, TypeOK
<1>4. ASSUME NEW i \in OrderIds, CancelOrder(i) PROVE TypeOK'
  <2>1. orders[i] \in Orders
    BY <1>4, PlacedOrder DEF CancelOrder
  <2>2. [orders[i] EXCEPT !.status = "cancelled"] \in Orders
    BY <2>1 DEF Orders
  <2>3. orders' = [orders EXCEPT ![i] = [orders[i] EXCEPT !.status = "cancelled"]]
    BY <1>4 DEF CancelOrder
  <2>4. orders' \in [OrderIds -> Orders \cup {NoOrder}]
    BY <2>2, <2>3 DEF TypeOK
  <2>. QED BY <1>4, <2>4 DEF CancelOrder, TypeOK
<1>5. ASSUME NEW b \in First("buy"), NEW s \in First("sell"), ExecuteTrade(b, s)
      PROVE  TypeOK'
  <2>1. orders' \in [OrderIds -> Orders \cup {NoOrder}]
    BY <1>5, OrdersTraded
  <2>2. <<b, s>> \in Matching
    BY <1>5 DEF ExecuteTrade
  <2>3. /\ b \in OrderIds /\ s \in OrderIds
        /\ TradeQty(b, s) \in Floats /\ orders[s].price \in Int
    BY <2>2, TradedPair
  <2>4. Trade(b, s) \in Trades
    BY <2>3 DEF Trade, Trades
  <2>5. trades' \subseteq Trades
    BY <1>5, <2>4 DEF ExecuteTrade, TypeOK
  <2>6. positions' \in [Users -> Positions]
    <3>1. /\ [written |-> "decimal", ant |-> TradeQty(b, s)] \in Positions
          /\ [written |-> "decimal", ant |-> Minus(0, TradeQty(b, s))] \in Positions
      <4>. 0 \in Floats
        BY DEF Floats
      <4>1. Minus(0, TradeQty(b, s)) \in Floats
        BY <2>3, Differences
      <4>. QED BY <2>3, <4>1 DEF Positions
    <3>2. positions \in [Users -> Positions]
      BY DEF TypeOK
    <3>. QED BY <1>5, <3>1, <3>2 DEF ExecuteTrade, PositionsAfter
  <2>7. phase' \in {"matched", "matching"} /\ UNCHANGED <<recipients, since, time>>
    BY <1>5 DEF ExecuteTrade
  <2>. QED BY <2>1, <2>5, <2>6, <2>7 DEF TypeOK
<1>6. CASE EndBlocker
  BY <1>6 DEF EndBlocker, TypeOK
<1>7. CASE UNCHANGED vars
  BY <1>7 DEF vars, TypeOK
<1>. QED BY <1>1, <1>2, <1>3, <1>4, <1>5, <1>6, <1>7 DEF Next

(* The market keeps its types: whatever the orders say, every trade is at  *)
(* a price that is a number, and no clock passes its bound.                *)
THEOREM TypeCorrect == Spec => []TypeOK
BY InitTyped, StepTyped, PTL DEF Spec

-----------------------------------------------------------------------------
(* Sums over trades.                                                       *)

LEMMA TotalsAreSums ==
  ASSUME NEW S, IsFiniteSet(S), \A t \in S : t.amount \in Int
  PROVE  TotalOf(S) = SumFunctionOnSet([t \in S |-> t.amount], S)
<1>. DEFINE f == [t \in S |-> t.amount]
            Counts(g) == g = [T \in SUBSET S |->
                                IF T = {} THEN 0
                                ELSE (CHOOSE x \in T : TRUE).amount
                                       + g[T \ {CHOOSE x \in T : TRUE}]]
            count == CHOOSE g : Counts(g)
<1>1. TotalOf(S) = count[S]
  BY Zenon DEF TotalOf, MapThenSumSet, MapThenFoldSet
<1>2. Summable(f, S)
  BY DEF Summable
<1>3. ASSUME NEW g PROVE Counts(g) <=> Sums(g, f, S)
  <2>1. ASSUME NEW T \in SUBSET S, T # {}
        PROVE  f[CHOOSE x \in T : TRUE] = (CHOOSE x \in T : TRUE).amount
    BY <2>1
  <2>2. [T \in SUBSET S |-> IF T = {} THEN 0
                            ELSE (CHOOSE x \in T : TRUE).amount
                                   + g[T \ {CHOOSE x \in T : TRUE}]]
        = [T \in SUBSET S |-> IF T = {} THEN 0
                              ELSE f[CHOOSE x \in T : TRUE]
                                     + g[T \ {CHOOSE x \in T : TRUE}]]
    <3>. HIDE DEF f
    <3>. QED BY <2>1
  <2>. QED BY <2>2 DEF Sums
<1>4. \E g : Counts(g)
  <2>1. \E g \in [SUBSET S -> Int] : Sums(g, f, S)
    BY <1>2, SumsExist
  <2>. HIDE DEF Counts
  <2>. QED BY <1>3, <2>1
<1>5. Counts(count)
  <2>. HIDE DEF Counts
  <2>. QED BY <1>4, Zenon
<1>6. Sums(count, f, S)
  BY <1>3, <1>5
<1>. HIDE DEF count, f
<1>7. SumFunctionOnSet(f, S) = count[S]
  BY <1>2, <1>6, SumsAreSums
<1>. QED BY <1>1, <1>7 DEF f

LEMMA TotalOfNone == TotalOf({}) = 0
<1>. DEFINE f == [t \in {} |-> t.amount]
<1>1. TotalOf({}) = SumFunctionOnSet(f, {})
  BY FS_EmptySet, TotalsAreSums
<1>. HIDE DEF f
<1>. QED BY <1>1, SumEmpty

LEMMA TotalOfOneMore ==
  ASSUME NEW S, IsFiniteSet(S), \A t \in S : t.amount \in Int,
         NEW x, x \notin S, x.amount \in Int
  PROVE  /\ TotalOf(S) \in Int
         /\ TotalOf(S \cup {x}) = TotalOf(S) + x.amount
<1>. DEFINE f == [t \in S |-> t.amount]
            T == S \cup {x}
            h == [t \in T |-> t.amount]
<1>1. IsFiniteSet(T) /\ \A t \in T : t.amount \in Int
  BY FS_AddElement
<1>2. /\ T \ {x} = S /\ x \in T
      /\ \A t \in S : f[t] = h[t] /\ f[t] \in Int
      /\ \A t \in T : h[t] \in Int
      /\ h[x] = x.amount
  BY <1>1
<1>3. TotalOf(S) = SumFunctionOnSet(f, S)
  BY TotalsAreSums
<1>. HIDE DEF f
<1>4. TotalOf(T) = SumFunctionOnSet(h, T)
  <2>. HIDE DEF T
  <2>. QED BY <1>1, TotalsAreSums
<1>. HIDE DEF T, h
<1>5. Summable(h, T) /\ Summable(f, S) /\ SumFunctionOnSet(f, S) \in Int
  BY <1>1, <1>2, SumType DEF Summable
<1>6. SumFunctionOnSet(h, T) = h[x] + SumFunctionOnSet(h, T \ {x})
  BY <1>2, <1>5, SumRemove
<1>7. SumFunctionOnSet(h, S) = SumFunctionOnSet(f, S)
  BY <1>2, <1>5, SumAgree
<1>8. TotalOf(T) = TotalOf(S) + x.amount /\ TotalOf(S) \in Int
  <2>1. T \ {x} = S /\ h[x] = x.amount
    BY <1>2
  <2>2. TotalOf(T) = x.amount + TotalOf(S)
    BY <1>3, <1>4, <1>6, <1>7, <2>1
  <2>. QED BY <1>3, <1>5, <2>2
<1>. QED BY <1>8 DEF T

-----------------------------------------------------------------------------
(* The book.                                                               *)

(* Of two orders that have traded with each other one is filled, or both   *)
(* have the amount NaN; an order that is not open will not be again, and   *)
(* one of NaN will not be a number: so the same two meet again, and stop   *)
(* the matching of a block, only over NaN.                                 *)
BothNaN(i, j) == orders[i].amount = NaN /\ orders[j].amount = NaN

TradeIsKnown(t) ==
  /\ orders[t.buy] # NoOrder /\ orders[t.sell] # NoOrder
  /\ \/ orders[t.buy].status # "open" \/ orders[t.sell].status # "open"
     \/ BothNaN(t.buy, t.sell)
  /\ t.price = orders[t.sell].price
  /\ orders[t.buy].price \in Int /\ t.price <= orders[t.buy].price

Booked ==
  /\ TypeOK
  /\ IsFiniteSet(trades)
  /\ \A t \in trades : TradeIsKnown(t)
  /\ OnlyNaNStopsMatching
  /\ BookUncrossed
  /\ OrdersAccountForTrades

NumbersOnly ==
  \A i \in Open("buy") \cup Open("sell") : NaN \notin {orders[i].price, orders[i].amount}

LEMMA PricesAreNumbers ==
  ASSUME TypeOK, NumbersOnly, NEW side \in {"buy", "sell"}
  PROVE  /\ Sorted(side) = Open(side)
         /\ \A i \in Open(side) : /\ i \in OrderIds /\ i \in Nat
                                  /\ orders[i].price \in Int /\ orders[i].side = side
<1>1. \A i \in Open(side) : orders[i].price # NaN
  BY DEF NumbersOnly
<1>2. \A i \in Open(side) : /\ i \in OrderIds /\ i \in Nat
                           /\ orders[i].price \in Floats /\ orders[i].side = side
  BY OpenOrder, PlacedOrder, MarketConstants
<1>. QED BY <1>1, <1>2 DEF Sorted, Floats

LEMMA AheadIsTotal ==
  ASSUME TypeOK, NumbersOnly, NEW side \in {"buy", "sell"}, Open(side) # {}
  PROVE  \E i \in Open(side) : \A j \in Open(side) : Ahead(i, j)
<1>. DEFINE S == Open(side)
            R == {p \in S \X S : Ahead(p[1], p[2])}
<1>1. \A i \in S : /\ i \in OrderIds /\ i \in Nat /\ orders[i].price \in Int
                   /\ orders[i].side = side
  BY PricesAreNumbers
<1>2. IsFiniteSet(S)
  BY MarketConstants, FS_Subset DEF Open
<1>3. \A i, j \in S : <<i, j>> \in R <=> Ahead(i, j)
  OBVIOUS
<1>. HIDE DEF S, R
<1>4. \A i, j \in S : Ahead(i, j) \/ Ahead(j, i)
  BY <1>1, MarketConstants DEF Ahead
<1>5. \A i, j, k \in S : Ahead(i, j) /\ Ahead(j, k) => Ahead(i, k)
  BY <1>1, MarketConstants DEF Ahead
<1>6. \E i \in S : \A j \in S : <<i, j>> \in R
  <2>1. \A i, j \in S : <<i, j>> \in R \/ <<j, i>> \in R
    BY <1>3, <1>4, Zenon
  <2>2. \A i, j, k \in S : <<i, j>> \in R /\ <<j, k>> \in R => <<i, k>> \in R
    BY <1>3, <1>5, Zenon
  <2>3. S # {}
    BY DEF S
  <2>. QED BY <1>2, <2>1, <2>2, <2>3, FiniteMinimum
<1>7. \E i \in S : \A j \in S : Ahead(i, j)
  BY <1>3, <1>6, Zenon
<1>. QED BY <1>7 DEF S

(* If any two orders cross, the two that come first do: no sorting and no  *)
(* early end of the loop leaves a pair behind.                             *)
LEMMA NoMatchNoCross ==
  ASSUME TypeOK, NumbersOnly, Matching = {},
         NEW b \in Open("buy"), NEW s \in Open("sell")
  PROVE  ~Crossing(b, s)
<1>1. PICK x \in Open("buy") : \A j \in Open("buy") : Ahead(x, j)
  BY AheadIsTotal
<1>2. PICK y \in Open("sell") : \A j \in Open("sell") : Ahead(y, j)
  BY AheadIsTotal
<1>3. /\ orders[b].price \in Int /\ orders[s].price \in Int
      /\ orders[x].price \in Int /\ orders[y].price \in Int
      /\ orders[x].side = "buy" /\ orders[y].side = "sell"
  BY PricesAreNumbers
<1>4. orders[x].price >= orders[b].price /\ orders[y].price <= orders[s].price
  <2>1. Ahead(x, b) /\ Ahead(y, s)
    BY <1>1, <1>2
  <2>2. orders[x].price >= orders[b].price
    BY <1>3, <2>1, MarketConstants DEF Ahead
  <2>3. orders[y].price <= orders[s].price
    BY <1>3, <2>1, MarketConstants DEF Ahead
  <2>. QED BY <2>2, <2>3
<1>5. x \in First("buy") /\ y \in First("sell")
  BY <1>1, <1>2, PricesAreNumbers DEF First
<1>6. ~AtLeast(orders[x].price, orders[y].price)
  <2>1. AtLeast(orders[x].price, orders[y].price) => <<x, y>> \in Matching
    BY <1>5 DEF Matching
  <2>. QED BY <2>1
<1>7. ~(orders[x].price >= orders[y].price)
  BY <1>3, <1>6, MarketConstants DEF AtLeast
<1>. QED BY <1>3, <1>4, <1>7 DEF Crossing, AtLeast

LEMMA InitBooked == Init => Booked
<1>. SUFFICES ASSUME Init PROVE Booked
  OBVIOUS
<1>1. /\ trades = {} /\ phase = "between" /\ \A i \in OrderIds : orders[i] = NoOrder
  BY DEF Init
<1>2. \A side : Open(side) = {}
  BY <1>1 DEF Open
<1>3. BookUncrossed /\ OrdersAccountForTrades /\ OnlyNaNStopsMatching
  BY <1>1, <1>2 DEF BookUncrossed, OrdersAccountForTrades, OnlyNaNStopsMatching
<1>. QED BY <1>1, <1>3, InitTyped, FS_EmptySet DEF Booked

(* What a step may do with an order there is: its price and the amount it  *)
(* was placed with stay, it does not open again, and NaN stays NaN.        *)
Evolves(i) ==
  orders[i] # NoOrder =>
    /\ orders'[i] # NoOrder
    /\ orders'[i].price = orders[i].price /\ orders'[i].placed = orders[i].placed
    /\ orders[i].status # "open" => orders'[i].status # "open"
    /\ orders[i].amount = NaN => orders'[i].amount = NaN

LEMMA TradesStayKnown ==
  ASSUME Booked, \A i \in OrderIds : Evolves(i), NEW t \in trades
  PROVE  TradeIsKnown(t)'
<1>1. t.buy \in OrderIds /\ t.sell \in OrderIds /\ TradeIsKnown(t)
  BY DEF Booked, TypeOK, Trades
<1>. QED BY <1>1 DEF TradeIsKnown, Evolves, BothNaN

LEMMA TradesOfTyped ==
  ASSUME Booked, NEW i \in OrderIds, orders[i] # NoOrder, orders[i].amount # NaN
  PROVE  /\ IsFiniteSet(TradesOf(i)) /\ TotalOf(TradesOf(i)) \in Int
         /\ \A t \in TradesOf(i) : t.amount \in Int
<1>1. IsFiniteSet(TradesOf(i))
  BY FS_Subset DEF Booked, TradesOf
<1>2. \A t \in TradesOf(i) : t.amount \in Int
  BY DEF Booked, TypeOK, Trades, TradesOf, OrdersAccountForTrades, Floats
<1>. DEFINE f == [t \in TradesOf(i) |-> t.amount]
<1>3. TotalOf(TradesOf(i)) = SumFunctionOnSet(f, TradesOf(i))
  BY <1>1, <1>2, TotalsAreSums
<1>4. \A t \in TradesOf(i) : f[t] \in Int
  BY <1>2
<1>. HIDE DEF f
<1>5. SumFunctionOnSet(f, TradesOf(i)) \in Int
  BY <1>1, <1>4, SumType DEF Summable
<1>. QED BY <1>1, <1>2, <1>3, <1>5

LEMMA PlaceOrderKeepsBook ==
  ASSUME Booked, TypeOK', NEW i \in OrderIds, NEW side, NEW p, NEW n \in Floats,
         PlaceOrder(i, side, p, n)
  PROVE  Booked'
<1>1. /\ phase = "messages" /\ phase' = phase /\ trades' = trades /\ orders[i] = NoOrder
      /\ orders' = [orders EXCEPT ![i] = [side |-> side, price |-> p, amount |-> n,
                                          placed |-> n, status |-> "open"]]
      /\ orders \in [OrderIds -> Orders \cup {NoOrder}]
  BY DEF PlaceOrder, Booked, TypeOK
<1>2. /\ \A j \in OrderIds \ {i} : orders'[j] = orders[j]
      /\ orders'[i].amount = n /\ orders'[i].placed = n
  BY <1>1
<1>3. \A j \in OrderIds : Evolves(j)
  BY <1>1, <1>2 DEF Evolves
<1>4. \A t \in trades' : TradeIsKnown(t)'
  BY <1>1, <1>3, TradesStayKnown
<1>5. TradesOf(i) = {}
  BY <1>1 DEF TradesOf, Booked, TradeIsKnown
<1>6. OrdersAccountForTrades'
  <2>. SUFFICES ASSUME NEW j \in OrderIds, orders'[j] # NoOrder, orders'[j].amount # NaN
                PROVE  /\ \A t \in TradesOf(j) : t.amount # NaN
                       /\ orders'[j].amount + TotalOf(TradesOf(j)) = orders'[j].placed
    BY <1>1 DEF OrdersAccountForTrades, TradesOf
  <2>1. CASE j = i
    <3>1. n \in Int
      BY <1>2, <2>1 DEF Floats
    <3>2. TotalOf(TradesOf(j)) = 0 /\ TradesOf(j) = {}
      BY <1>5, <2>1, TotalOfNone
    <3>3. orders'[j].amount = n /\ orders'[j].placed = n
      BY <1>2, <2>1
    <3>. QED BY <3>1, <3>2, <3>3
  <2>2. CASE j # i
    BY <1>2, <2>2 DEF Booked, OrdersAccountForTrades
  <2>. QED BY <2>1, <2>2
<1>7. OnlyNaNStopsMatching' /\ BookUncrossed'
  BY <1>1 DEF BookUncrossed, OnlyNaNStopsMatching
<1>8. IsFiniteSet(trades')
  BY <1>1 DEF Booked
<1>. QED BY <1>4, <1>6, <1>7, <1>8 DEF Booked

LEMMA CancelOrderKeepsBook ==
  ASSUME Booked, TypeOK', NEW i \in OrderIds, CancelOrder(i)
  PROVE  Booked'
<1>1. /\ phase = "messages" /\ phase' = phase /\ trades' = trades /\ orders[i] # NoOrder
      /\ orders' = [orders EXCEPT ![i] = [orders[i] EXCEPT !.status = "cancelled"]]
      /\ orders \in [OrderIds -> Orders \cup {NoOrder}]
  BY DEF CancelOrder, Booked, TypeOK
<1>2. orders[i] \in Orders
  BY <1>1, PlacedOrder DEF Booked
<1>3. /\ \A j \in OrderIds \ {i} : orders'[j] = orders[j]
      /\ orders'[i].amount = orders[i].amount /\ orders'[i].placed = orders[i].placed
      /\ orders'[i].price = orders[i].price /\ orders'[i].status = "cancelled"
      /\ orders'[i] \in Orders
  BY <1>1, <1>2 DEF Orders
<1>4. \A j \in OrderIds : Evolves(j)
  <2>1. orders'[i] # NoOrder
    BY <1>3, NoOrderIsNone
  <2>. QED BY <1>3, <2>1 DEF Evolves
<1>5. \A t \in trades' : TradeIsKnown(t)'
  BY <1>1, <1>4, TradesStayKnown
<1>6. OrdersAccountForTrades'
  <2>. SUFFICES ASSUME NEW j \in OrderIds, orders'[j] # NoOrder, orders'[j].amount # NaN
                PROVE  /\ \A t \in TradesOf(j) : t.amount # NaN
                       /\ orders'[j].amount + TotalOf(TradesOf(j)) = orders'[j].placed
    BY <1>1 DEF OrdersAccountForTrades, TradesOf
  <2>. QED BY <1>1, <1>3 DEF Booked, OrdersAccountForTrades
<1>7. OnlyNaNStopsMatching' /\ BookUncrossed'
  BY <1>1 DEF BookUncrossed, OnlyNaNStopsMatching
<1>8. IsFiniteSet(trades')
  BY <1>1 DEF Booked
<1>. QED BY <1>5, <1>6, <1>7, <1>8 DEF Booked

LEMMA ExecuteTradeKeepsBook ==
  ASSUME Booked, TypeOK', NEW b, NEW s, ExecuteTrade(b, s)
  PROVE  Booked'
<1>. DEFINE qty == TradeQty(b, s)
<1>1. <<b, s>> \in Matching
  BY DEF ExecuteTrade
<1>2. /\ b \in OrderIds /\ s \in OrderIds /\ b # s
      /\ b \in Open("buy") /\ s \in Open("sell")
      /\ orders[b] \in Orders /\ orders[s] \in Orders
      /\ orders[b] # NoOrder /\ orders[s] # NoOrder
      /\ orders[b].status = "open" /\ orders[s].status = "open"
      /\ orders[b].price \in Int /\ orders[s].price \in Int
      /\ orders[b].price >= orders[s].price
      /\ qty \in Floats
      /\ qty # NaN => qty = orders[b].amount \/ qty = orders[s].amount
      /\ orders[b].amount \in Floats /\ orders[s].amount \in Floats
  BY <1>1, TradedPair, PlacedOrder DEF Booked
<1>3. /\ orders'[b] = Traded(orders[b], qty) /\ orders'[s] = Traded(orders[s], qty)
      /\ \A i \in OrderIds \ {b, s} : orders'[i] = orders[i]
  BY OrdersTraded DEF Booked
<1>. PICK new : new = Trade(b, s)
  OBVIOUS
<1>4. /\ new.buy = b /\ new.sell = s /\ new.amount = qty
      /\ new.price = orders[s].price
  BY DEF Trade
<1>5. /\ phase' = IF \E t \in trades : t.buy = b /\ t.sell = s THEN "matched" ELSE "matching"
      /\ trades' = IF \E t \in trades : t.buy = b /\ t.sell = s THEN trades
                   ELSE trades \cup {new}
  BY DEF ExecuteTrade
<1>. HIDE DEF qty
<1>6. /\ orders'[b] # NoOrder /\ orders'[s] # NoOrder
      /\ orders'[b].price = orders[b].price /\ orders'[s].price = orders[s].price
      /\ orders'[b].placed = orders[b].placed /\ orders'[s].placed = orders[s].placed
      /\ orders'[b].amount = Minus(orders[b].amount, qty)
      /\ orders'[s].amount = Minus(orders[s].amount, qty)
      /\ orders'[b].side = orders[b].side /\ orders'[s].side = orders[s].side
      /\ orders'[b].status =
           IF orders[b].amount = qty /\ qty # NaN THEN "filled" ELSE orders[b].status
      /\ orders'[s].status =
           IF orders[s].amount = qty /\ qty # NaN THEN "filled" ELSE orders[s].status
  <2>1. Traded(orders[b], qty) \in Orders /\ Traded(orders[s], qty) \in Orders
    BY <1>2, TradedOrder
  <2>2. orders'[b] # NoOrder /\ orders'[s] # NoOrder
    BY <1>3, <2>1, NoOrderIsNone
  <2>3. /\ orders'[b].price = orders[b].price /\ orders'[b].placed = orders[b].placed
        /\ orders'[b].amount = Minus(orders[b].amount, qty)
        /\ orders'[b].side = orders[b].side
        /\ orders'[b].status =
             IF orders[b].amount = qty /\ qty # NaN THEN "filled" ELSE orders[b].status
    <3>1. /\ Traded(orders[b], qty).price = orders[b].price
          /\ Traded(orders[b], qty).placed = orders[b].placed
          /\ Traded(orders[b], qty).amount = Minus(orders[b].amount, qty)
          /\ Traded(orders[b], qty).side = orders[b].side
          /\ Traded(orders[b], qty).status =
               IF orders[b].amount = qty /\ qty # NaN THEN "filled" ELSE orders[b].status
      BY <1>2, TradedOrder, Zenon
    <3>. QED BY <1>3, <3>1, Zenon
  <2>4. /\ orders'[s].price = orders[s].price /\ orders'[s].placed = orders[s].placed
        /\ orders'[s].amount = Minus(orders[s].amount, qty)
        /\ orders'[s].side = orders[s].side
        /\ orders'[s].status =
             IF orders[s].amount = qty /\ qty # NaN THEN "filled" ELSE orders[s].status
    <3>1. /\ Traded(orders[s], qty).price = orders[s].price
          /\ Traded(orders[s], qty).placed = orders[s].placed
          /\ Traded(orders[s], qty).amount = Minus(orders[s].amount, qty)
          /\ Traded(orders[s], qty).side = orders[s].side
          /\ Traded(orders[s], qty).status =
               IF orders[s].amount = qty /\ qty # NaN THEN "filled" ELSE orders[s].status
      BY <1>2, TradedOrder, Zenon
    <3>. QED BY <1>3, <3>1, Zenon
  <2>. QED BY <2>2, <2>3, <2>4
<1>7. /\ orders[b].amount = NaN => orders'[b].amount = NaN
      /\ orders[s].amount = NaN => orders'[s].amount = NaN
      /\ qty = NaN => orders'[b].amount = NaN /\ orders'[s].amount = NaN
  BY <1>2, <1>6, Differences
<1>8. \A i \in OrderIds : Evolves(i)
  <2>1. Evolves(b) /\ Evolves(s)
    BY <1>2, <1>6, <1>7 DEF Evolves
  <2>2. \A i \in OrderIds \ {b, s} : Evolves(i)
    BY <1>3 DEF Evolves
  <2>. QED BY <2>1, <2>2
<1>9. \A t \in trades : TradeIsKnown(t)'
  BY <1>8, TradesStayKnown
<1>10. CASE \E t \in trades : t.buy = b /\ t.sell = s
  <2>1. trades' = trades /\ phase' = "matched"
    BY <1>5, <1>10
  <2>2. orders[b].amount = NaN /\ orders[s].amount = NaN
    BY <1>2, <1>10 DEF Booked, TradeIsKnown, BothNaN
  <2>3. qty = NaN
    BY <1>2, <2>2 DEF qty, TradeQty
  <2>4. /\ orders'[b].amount = NaN /\ orders'[s].amount = NaN
        /\ orders'[b].status = "open" /\ orders'[s].status = "open"
    BY <1>2, <1>6, <1>7, <2>2, <2>3
  <2>5. (\E i \in Open("buy"), j \in Open("sell") :
           orders[i].amount = NaN /\ orders[j].amount = NaN)'
    <3>1. b \in Open("buy")' /\ s \in Open("sell")'
      BY <1>2, <1>6, <2>4, OpenOrder DEF Open
    <3>. QED BY <2>4, <3>1
  <2>6. OnlyNaNStopsMatching' /\ BookUncrossed'
    BY <2>1, <2>5 DEF OnlyNaNStopsMatching, BookUncrossed
  <2>7. OrdersAccountForTrades'
    <3>. SUFFICES ASSUME NEW j \in OrderIds, orders'[j] # NoOrder, orders'[j].amount # NaN
                  PROVE  /\ \A t \in TradesOf(j) : t.amount # NaN
                         /\ orders'[j].amount + TotalOf(TradesOf(j)) = orders'[j].placed
      BY <2>1 DEF OrdersAccountForTrades, TradesOf
    <3>1. orders'[j] = orders[j]
      BY <1>3, <2>4
    <3>. QED BY <3>1 DEF Booked, OrdersAccountForTrades
  <2>. QED BY <1>9, <2>1, <2>6, <2>7 DEF Booked
<1>11. CASE ~\E t \in trades : t.buy = b /\ t.sell = s
  <2>1. new \notin trades
    BY <1>4, <1>11
  <2>2. trades' = trades \cup {new} /\ phase' = "matching"
    BY <1>5, <1>11
  <2>3. TradeIsKnown(new)'
    <3>1. \/ orders'[b].status # "open" \/ orders'[s].status # "open"
          \/ orders'[b].amount = NaN /\ orders'[s].amount = NaN
      BY <1>2, <1>6, <1>7
    <3>. QED BY <1>2, <1>4, <1>6, <3>1 DEF TradeIsKnown, BothNaN
  <2>4. OrdersAccountForTrades'
    <3>. SUFFICES ASSUME NEW j \in OrderIds, orders'[j] # NoOrder, orders'[j].amount # NaN
                  PROVE  /\ \A t \in TradesOf(j)' : t.amount # NaN
                         /\ orders'[j].amount + TotalOf(TradesOf(j)') = orders'[j].placed
      BY DEF OrdersAccountForTrades
    <3>1. CASE j = b \/ j = s
      <4>1. TradesOf(j)' = TradesOf(j) \cup {new}
        BY <1>4, <2>2, <3>1 DEF TradesOf
      <4>2. /\ orders'[j].amount = Minus(orders[j].amount, qty)
            /\ orders'[j].placed = orders[j].placed
            /\ orders[j].amount \in Floats /\ orders[j] # NoOrder
        BY <1>2, <1>6, <3>1
      <4>3. /\ orders[j].amount \in Int /\ qty \in Int
            /\ orders'[j].amount = orders[j].amount - qty
        BY <1>2, <4>2, Differences
      <4>4. orders[j].amount # NaN
        BY <4>3, MarketConstants
      <4>5. /\ IsFiniteSet(TradesOf(j)) /\ TotalOf(TradesOf(j)) \in Int
            /\ \A t \in TradesOf(j) : t.amount \in Int
            /\ orders[j].amount + TotalOf(TradesOf(j)) = orders[j].placed
        BY <4>2, <4>4, TradesOfTyped DEF Booked, OrdersAccountForTrades
      <4>6. new \notin TradesOf(j) /\ new.amount \in Int
        BY <1>4, <2>1, <4>3 DEF TradesOf
      <4>7. TotalOf(TradesOf(j) \cup {new}) = TotalOf(TradesOf(j)) + qty
        BY <1>4, <4>5, <4>6, TotalOfOneMore
      <4>8. \A t \in TradesOf(j) \cup {new} : t.amount # NaN
        BY <4>5, <4>6, MarketConstants
      <4>9. orders'[j].amount + (TotalOf(TradesOf(j)) + qty) = orders'[j].placed
        BY <4>2, <4>3, <4>5
      <4>. QED BY <4>1, <4>7, <4>8, <4>9
    <3>2. CASE j # b /\ j # s
      <4>1. TradesOf(j)' = TradesOf(j) /\ orders'[j] = orders[j]
        BY <1>3, <1>4, <2>2, <3>2 DEF TradesOf
      <4>. QED BY <4>1 DEF Booked, OrdersAccountForTrades
    <3>. QED BY <3>1, <3>2
  <2>5. IsFiniteSet(trades')
    BY <2>2, FS_AddElement DEF Booked
  <2>6. OnlyNaNStopsMatching' /\ BookUncrossed'
    BY <2>2 DEF BookUncrossed, OnlyNaNStopsMatching
  <2>. QED BY <1>9, <2>2, <2>3, <2>4, <2>5, <2>6 DEF Booked
<1>. QED BY <1>10, <1>11

LEMMA StepBooked == Booked /\ [Next]_vars => Booked'
<1>. SUFFICES ASSUME Booked, [Next]_vars PROVE Booked'
  OBVIOUS
<1>1. TypeOK /\ TypeOK'
  BY StepTyped DEF Booked
<1>2. ASSUME orders' = orders, trades' = trades, OnlyNaNStopsMatching',
             phase' = "between" => BookUncrossed'
      PROVE  Booked'
  <2>1. \A t \in trades' : TradeIsKnown(t)'
    BY <1>2 DEF Booked, TradeIsKnown, BothNaN
  <2>2. OrdersAccountForTrades'
    BY <1>2 DEF Booked, OrdersAccountForTrades, TradesOf
  <2>3. BookUncrossed'
    BY <1>2 DEF BookUncrossed
  <2>. QED BY <1>1, <1>2, <2>1, <2>2, <2>3 DEF Booked
<1>3. ASSUME NEW step \in TimeSteps, NEW leaving \in SUBSET recipients,
             NEW citizens \in SUBSET leaving, BeginBlocker(step, leaving, citizens)
      PROVE  Booked'
  BY <1>2, <1>3 DEF BeginBlocker, OnlyNaNStopsMatching
<1>4. ASSUME NEW u \in Users, Join(u) PROVE Booked'
  BY <1>2, <1>4 DEF Join, OnlyNaNStopsMatching
<1>5. ASSUME NEW i \in OrderIds, NEW side \in {"buy", "sell"}, NEW p \in Prices,
             NEW n \in Amounts, PlaceOrder(i, side, p, n)
      PROVE  Booked'
  <2>1. n \in Floats
    BY MarketConstants DEF Floats
  <2>. QED BY <1>1, <1>5, <2>1, PlaceOrderKeepsBook
<1>6. ASSUME NEW i \in OrderIds, CancelOrder(i) PROVE Booked'
  BY <1>1, <1>6, CancelOrderKeepsBook
<1>7. ASSUME NEW b \in First("buy"), NEW s \in First("sell"), ExecuteTrade(b, s)
      PROVE  Booked'
  BY <1>1, <1>7, ExecuteTradeKeepsBook
<1>8. CASE EndBlocker
  <2>1. /\ phase' = "between" /\ orders' = orders /\ trades' = trades
        /\ Matching = {} \/ phase = "matched"
    BY <1>8 DEF EndBlocker
  <2>2. BookUncrossed'
    <3>. SUFFICES ASSUME NumbersOnly, NEW b \in Open("buy"), NEW s \in Open("sell")
                  PROVE  ~Crossing(b, s)
      BY <2>1 DEF BookUncrossed, NumbersOnly, Open, Crossing
    <3>1. phase # "matched"
      BY DEF Booked, OnlyNaNStopsMatching, NumbersOnly
    <3>. QED BY <1>1, <2>1, <3>1, NoMatchNoCross
  <2>3. OnlyNaNStopsMatching'
    BY <2>1 DEF OnlyNaNStopsMatching
  <2>. QED BY <1>2, <2>1, <2>2, <2>3
<1>9. CASE UNCHANGED vars
  <2>1. orders' = orders /\ trades' = trades /\ phase' = phase
    BY <1>9 DEF vars
  <2>2. phase' = "between" => BookUncrossed'
    BY <2>1 DEF Booked, BookUncrossed, Open, Crossing
  <2>3. OnlyNaNStopsMatching'
    BY <2>1 DEF Booked, OnlyNaNStopsMatching, Open
  <2>. QED BY <1>2, <2>1, <2>2, <2>3 DEF Booked
<1>. QED BY <1>3, <1>4, <1>5, <1>6, <1>7, <1>8, <1>9 DEF Next

LEMMA AlwaysBooked == Spec => []Booked
BY InitBooked, StepBooked, PTL DEF Spec

(* No trade is at a price worse than the limit of either order, whatever   *)
(* happens to the orders afterwards.                                       *)
THEOREM TradesStayWithinLimits == Spec => []TradesWithinLimits
<1>1. Booked => TradesWithinLimits
  <2>. SUFFICES ASSUME Booked, NEW t \in trades
                PROVE  /\ t.price = orders[t.sell].price
                       /\ AtLeast(orders[t.buy].price, t.price)
    BY DEF TradesWithinLimits
  <2>1. TradeIsKnown(t) /\ t.price \in Int
    BY DEF Booked, TypeOK, Trades
  <2>. QED BY <2>1, MarketConstants DEF TradeIsKnown, AtLeast
<1>. QED BY <1>1, AlwaysBooked, PTL

(* Between blocks no two orders of the book could trade, as long as the    *)
(* open orders have numbers for prices and amounts.                        *)
THEOREM BookStaysUncrossed == Spec => []BookUncrossed
<1>1. Booked => BookUncrossed
  BY DEF Booked
<1>. QED BY <1>1, AlwaysBooked, PTL

(* The matching of a block runs to its end unless two open orders both     *)
(* have the amount NaN: a trade is stored under the ids of its two orders, *)
(* and no other two trade twice (executeTrade, SetTrade).                  *)
THEOREM MatchingFailsOnNaNOnly == Spec => []OnlyNaNStopsMatching
<1>1. Booked => OnlyNaNStopsMatching
  BY DEF Booked
<1>. QED BY <1>1, AlwaysBooked, PTL

(* What is left of an order and what its trades took add up to what was    *)
(* placed, over all the blocks that it takes, if NaN is not among them.    *)
THEOREM OrdersAlwaysAccount == Spec => []OrdersAccountForTrades
<1>1. Booked => OrdersAccountForTrades
  BY DEF Booked
<1>. QED BY <1>1, AlwaysBooked, PTL

-----------------------------------------------------------------------------
(* The daily ANT.                                                          *)

(* After k distributions nobody has more than k times the rate, and k      *)
(* periods have passed, as well as the time since the last of them.        *)
Distributed(k) ==
  /\ Period * k + since <= time
  /\ \A u \in Users : WholeBalance(positions[u]) <= RewardRate * k

Accounted ==
  /\ TypeOK
  /\ \A u \in Users : WholeBalance(positions[u]) <= AccumulationLimit
  /\ since = Never =>
       /\ phase = "between" /\ recipients = {}
       /\ \A u \in Users : WholeBalance(positions[u]) = 0
  /\ since # Never => \E k \in Nat : Distributed(k)

LEMMA BalanceTyped ==
  ASSUME TypeOK, NEW u \in Users
  PROVE  positions[u] \in Positions /\ WholeBalance(positions[u]) \in Int
BY DEF TypeOK, Positions, WholeBalance

LEMMA NewBalances ==
  ASSUME NEW p \in Positions, NEW c \in Nat, WholeBalance(p) <= c,
         WholeBalance(p) <= AccumulationLimit
  PROVE  /\ WholeBalance(Accrued(p)) <= c + RewardRate
         /\ WholeBalance(Accrued(p)) <= AccumulationLimit
         /\ WholeBalance(BurnAntFromUser(p)) <= c
         /\ WholeBalance(BurnAntFromUser(p)) <= AccumulationLimit
<1>1. RewardRate \in Nat /\ AccumulationLimit \in Nat /\ WholeBalance(p) \in Int
  BY MarketConstants DEF WholeBalance, Positions
<1>2. CASE WholeBalance(p) >= AccumulationLimit
  BY <1>1, <1>2 DEF Accrued, BurnAntFromUser, WholeBalance
<1>3. CASE ~(WholeBalance(p) >= AccumulationLimit)
  <2>. DEFINE n == IF WholeBalance(p) + RewardRate > AccumulationLimit THEN AccumulationLimit
                   ELSE WholeBalance(p) + RewardRate
  <2>1. Accrued(p) = [written |-> "whole", ant |-> n]
    BY <1>3 DEF Accrued
  <2>2. WholeBalance(Accrued(p)) = n
    BY <2>1 DEF WholeBalance
  <2>3. n <= c + RewardRate /\ n <= AccumulationLimit
    BY <1>1
  <2>4. BurnAntFromUser(p) = p \/ WholeBalance(BurnAntFromUser(p)) = 0
    BY DEF BurnAntFromUser, WholeBalance
  <2>5. /\ WholeBalance(BurnAntFromUser(p)) <= c
        /\ WholeBalance(BurnAntFromUser(p)) <= AccumulationLimit
    BY <1>1, <2>4
  <2>. QED BY <2>2, <2>3, <2>5
<1>. QED BY <1>2, <1>3

LEMMA BlockAccounts ==
  ASSUME Accounted, TypeOK', NEW step \in TimeSteps, NEW leaving \in SUBSET recipients,
         NEW citizens \in SUBSET leaving, BeginBlocker(step, leaving, citizens)
  PROVE  Accounted'
<1>1. /\ step \in Nat /\ time \in Nat /\ Period \in Nat \ {0}
      /\ since # Never => since \in Nat
  BY ClocksTyped DEF Accounted
<1>2. /\ RewardRate \in Nat /\ AccumulationLimit \in Nat /\ Never \notin Nat
  BY MarketConstants
<1>3. /\ phase' = "messages"
      /\ time' = IF since = Never THEN 0 ELSE time + step
      /\ since' = IF Due(step) THEN 0 ELSE Since(step)
      /\ positions' =
           [u \in Users |->
              IF u \in leaving \cap citizens THEN BurnAntFromUser(positions[u])
              ELSE IF Due(step) /\ u \in recipients \ leaving THEN Accrued(positions[u])
              ELSE positions[u]]
  BY DEF BeginBlocker
<1>4. CASE since = Never
  <2>1. recipients = {} /\ \A u \in Users : WholeBalance(positions[u]) = 0
    BY <1>4 DEF Accounted
  <2>2. time' = 0 /\ since' = 0 /\ since' # Never
    BY <1>2, <1>3, <1>4 DEF Due
  <2>3. \A u \in Users : positions'[u] = positions[u]
    BY <1>3, <2>1
  <2>4. \A u \in Users : WholeBalance(positions'[u]) = 0
    BY <2>1, <2>3
  <2>5. Period * 0 = 0 /\ RewardRate * 0 = 0
    BY <1>1, <1>2
  <2>6. Distributed(0)'
    BY <2>2, <2>4, <2>5 DEF Distributed, WholeBalance
  <2>7. (\A u \in Users : WholeBalance(positions[u]) <= AccumulationLimit)'
    BY <1>2, <2>4 DEF WholeBalance
  <2>. QED BY <2>2, <2>6, <2>7 DEF Accounted
<1>5. CASE since # Never
  <2>1. PICK k \in Nat : Distributed(k)
    BY <1>5 DEF Accounted
  <2>2. /\ Period * k \in Nat /\ RewardRate * k \in Nat
        /\ Period * (k + 1) = Period * k + Period
        /\ RewardRate * (k + 1) = RewardRate * k + RewardRate
    BY <1>1, <1>2
  <2>3. /\ since \in Nat /\ Period * k + since <= time /\ time' = time + step
    BY <1>1, <1>3, <1>5, <2>1 DEF Distributed
  <2>4. ASSUME NEW u \in Users
        PROVE  /\ WholeBalance(positions'[u]) <= AccumulationLimit
               /\ WholeBalance(positions'[u]) <= RewardRate * k + RewardRate
               /\ ~Due(step) => WholeBalance(positions'[u]) <= RewardRate * k
    <3>1. /\ positions[u] \in Positions /\ WholeBalance(positions[u]) \in Int
          /\ WholeBalance(positions[u]) <= RewardRate * k
          /\ WholeBalance(positions[u]) <= AccumulationLimit
      BY <2>1, BalanceTyped DEF Accounted, Distributed
    <3>2. /\ WholeBalance(Accrued(positions[u])) <= RewardRate * k + RewardRate
          /\ WholeBalance(Accrued(positions[u])) <= AccumulationLimit
          /\ WholeBalance(BurnAntFromUser(positions[u])) <= RewardRate * k
          /\ WholeBalance(BurnAntFromUser(positions[u])) <= AccumulationLimit
          /\ WholeBalance(BurnAntFromUser(positions[u])) \in Int
      <4>1. WholeBalance(BurnAntFromUser(positions[u])) \in Int
        BY <3>1, PositionTyped DEF WholeBalance, Positions
      <4>. QED BY <2>2, <3>1, <4>1, NewBalances
    <3>3. \/ positions'[u] = BurnAntFromUser(positions[u])
          \/ Due(step) /\ positions'[u] = Accrued(positions[u])
          \/ positions'[u] = positions[u]
      BY <1>3
    <3>. QED BY <1>2, <2>2, <3>1, <3>2, <3>3
  <2>5. (\A u \in Users : WholeBalance(positions[u]) <= AccumulationLimit)'
    BY <2>4 DEF WholeBalance
  <2>6. CASE Due(step)
    <3>1. since' = 0 /\ since + step >= Period
      BY <1>3, <1>5, <2>6 DEF Due
    <3>2. Period * (k + 1) + since' <= time'
      BY <1>1, <2>2, <2>3, <3>1
    <3>3. \A u \in Users : WholeBalance(positions'[u]) <= RewardRate * (k + 1)
      BY <2>2, <2>4
    <3>4. Distributed(k + 1)'
      BY <3>2, <3>3 DEF Distributed, WholeBalance
    <3>5. k + 1 \in Nat /\ since' # Never
      BY <1>2, <3>1
    <3>. QED BY <2>5, <3>4, <3>5 DEF Accounted
  <2>7. CASE ~Due(step)
    <3>1. since' = since + step
      BY <1>1, <1>3, <1>5, <2>3, <2>7 DEF Due, Since
    <3>2. Period * k + since' <= time'
      BY <1>1, <2>2, <2>3, <3>1
    <3>3. Distributed(k)'
      BY <2>4, <2>7, <3>2 DEF Distributed, WholeBalance
    <3>4. since' # Never
      BY <1>1, <1>2, <2>3, <3>1
    <3>. QED BY <2>5, <3>3, <3>4 DEF Accounted
  <2>. QED BY <2>6, <2>7
<1>. QED BY <1>4, <1>5

LEMMA StepAccounted == Accounted /\ [Next]_vars => Accounted'
<1>. SUFFICES ASSUME Accounted, [Next]_vars PROVE Accounted'
  OBVIOUS
<1>1. TypeOK /\ TypeOK'
  BY StepTyped DEF Accounted
<1>2. ASSUME phase # "between", since' = since, time' = time, positions' = positions
      PROVE  Accounted'
  BY <1>1, <1>2 DEF Accounted, Distributed, WholeBalance
<1>3. ASSUME NEW step \in TimeSteps, NEW leaving \in SUBSET recipients,
             NEW citizens \in SUBSET leaving, BeginBlocker(step, leaving, citizens)
      PROVE  Accounted'
  BY <1>1, <1>3, BlockAccounts
<1>4. ASSUME NEW u \in Users, Join(u) PROVE Accounted'
  BY <1>2, <1>4 DEF Join
<1>5. ASSUME NEW i \in OrderIds, NEW side \in {"buy", "sell"}, NEW p \in Prices,
             NEW n \in Amounts, PlaceOrder(i, side, p, n)
      PROVE  Accounted'
  BY <1>2, <1>5 DEF PlaceOrder
<1>6. ASSUME NEW i \in OrderIds, CancelOrder(i) PROVE Accounted'
  BY <1>2, <1>6 DEF CancelOrder
<1>7. ASSUME NEW b \in First("buy"), NEW s \in First("sell"), ExecuteTrade(b, s)
      PROVE  Accounted'
  <2>1. phase # "between" /\ since' = since /\ time' = time
        /\ positions' = PositionsAfter(OwnerOf[b], OwnerOf[s], TradeQty(b, s))
    BY <1>7 DEF ExecuteTrade
  <2>2. since # Never
    BY <2>1 DEF Accounted
  <2>3. PICK k \in Nat : Distributed(k)
    BY <2>2 DEF Accounted
  <2>4. RewardRate * k \in Nat /\ AccumulationLimit \in Nat
    BY MarketConstants
  <2>5. ASSUME NEW u \in Users
        PROVE  \/ WholeBalance(positions'[u]) = 0
               \/ positions'[u] = positions[u]
    <3>1. positions \in [Users -> Positions]
      BY <1>1 DEF TypeOK
    <3>. QED BY <2>1, <3>1 DEF PositionsAfter, WholeBalance
  <2>6. \A u \in Users : /\ WholeBalance(positions'[u]) <= RewardRate * k
                         /\ WholeBalance(positions'[u]) <= AccumulationLimit
    BY <2>3, <2>4, <2>5 DEF Accounted, Distributed
  <2>7. Distributed(k)'
    BY <2>1, <2>3, <2>6 DEF Distributed, WholeBalance
  <2>8. (\A u \in Users : WholeBalance(positions[u]) <= AccumulationLimit)'
    BY <2>6 DEF WholeBalance
  <2>. QED BY <1>1, <2>1, <2>2, <2>7, <2>8 DEF Accounted
<1>8. CASE EndBlocker
  BY <1>2, <1>8 DEF EndBlocker
<1>9. CASE UNCHANGED vars
  BY <1>9 DEF vars, Accounted, TypeOK, Distributed, WholeBalance
<1>. QED BY <1>3, <1>4, <1>5, <1>6, <1>7, <1>8, <1>9 DEF Next

(* Nobody has more daily ANT than the periods that have passed allow, nor  *)
(* more than the limit, whatever the distances of the blocks.              *)
THEOREM AccrualAlwaysWithinSchedule == Spec => []AccrualWithinSchedule
<1>1. Init => Accounted
  <2>. SUFFICES ASSUME Init PROVE Accounted
    OBVIOUS
  <2>1. \A u \in Users : WholeBalance(positions[u]) = 0
    BY DEF Init, WholeBalance
  <2>2. AccumulationLimit \in Nat
    BY MarketConstants
  <2>. QED BY <2>1, <2>2, InitTyped DEF Init, Accounted
<1>2. Accounted => AccrualWithinSchedule
  <2>. SUFFICES ASSUME Accounted, NEW u \in Users, positions[u].written = "whole"
                PROVE  /\ positions[u].ant <= RewardRate * (time \div Period)
                       /\ positions[u].ant <= AccumulationLimit
    BY DEF AccrualWithinSchedule
  <2>1. /\ WholeBalance(positions[u]) = positions[u].ant /\ positions[u].ant \in Int
        /\ positions[u].ant <= AccumulationLimit
    BY BalanceTyped DEF Accounted, WholeBalance
  <2>2. /\ Period \in Nat \ {0} /\ RewardRate \in Nat /\ time \in Nat
        /\ since # Never => since \in Nat
    <3>1. Period \in Nat \ {0} /\ RewardRate \in Nat /\ LastTime \in Nat
      BY MarketConstants
    <3>2. since \in 0..Period \cup {Never} /\ time \in 0..LastTime
      BY DEF Accounted, TypeOK
    <3>. QED BY <3>1, <3>2
  <2>. DEFINE q == time \div Period
  <2>3. q \in Nat /\ time < Period * q + Period
    <3>1. q \in Nat /\ time = Period * q + (time % Period) /\ time % Period \in 0..(Period - 1)
      BY <2>2
    <3>. QED BY <2>2, <3>1
  <2>. HIDE DEF q
  <2>4. CASE since = Never
    <3>1. positions[u].ant = 0
      BY <2>1, <2>4 DEF Accounted
    <3>2. RewardRate * q \in Nat
      BY <2>2, <2>3
    <3>. QED BY <2>1, <3>1, <3>2 DEF q
  <2>5. CASE since # Never
    <3>1. PICK k \in Nat : Distributed(k)
      BY <2>5 DEF Accounted
    <3>2. positions[u].ant <= RewardRate * k /\ Period * k <= time
      <4>1. Period * k \in Nat
        BY <2>2
      <4>. QED BY <2>1, <2>2, <2>5, <3>1, <4>1 DEF Distributed
    <3>3. k <= q
      <4>1. Period * k < Period * (q + 1)
        BY <2>2, <2>3, <3>2
      <4>. QED BY <2>2, <2>3, <4>1
    <3>4. RewardRate * k <= RewardRate * q
      BY <2>2, <2>3, <3>3
    <3>5. positions[u].ant <= RewardRate * q
      <4>1. RewardRate * k \in Nat /\ RewardRate * q \in Nat
        BY <2>2, <2>3
      <4>. QED BY <2>1, <3>2, <3>4, <4>1
    <3>. QED BY <2>1, <3>5 DEF q
  <2>. QED BY <2>4, <2>5
<1>. QED BY <1>1, <1>2, StepAccounted, PTL DEF Spec
=============================================================================
