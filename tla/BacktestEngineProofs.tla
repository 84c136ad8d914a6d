------------------------ MODULE BacktestEngineProofs ------------------------
(***************************************************************************)
(* Theorems about BacktestEngine, for every universe, every set of candles *)
(* and every configuration: types, stops and cooldowns first, then the     *)
(* books, where the ledger, the analysis replayed from its fills and the   *)
(* values the engine keeps for a strategy always tell the same.            *)
(***************************************************************************)
EXTENDS BacktestEngine, SequenceTheorems, DataLemmas, TLAPS

USE LedgerAssumption

-----------------------------------------------------------------------------
(* The inductive invariant behind TypeOK, StopsHonoured, CooldownRespected. *)

(* A symbol whose turn has not come holds nothing and was never traded.     *)
LaterUntouched ==
    \A k \in DOMAIN universe : k > turn \/ (k = turn /\ at = "open") =>
        /\ ledger.positions[universe[k].symbol].quantity = 0
        /\ \A n \in DOMAIN ledger.fills : ledger.fills[n].symbol # universe[k].symbol

(* Mean reversion trades when its indicators are known only.                *)
ReversionReady ==
    kind = "mean_reversion" =>
        /\ at \in {"decide", "execute"} /\ Position.quantity > 0 => IndicatorsKnown(index)
        /\ at = "execute" /\ intents # <<>> => IndicatorsKnown(index)

(* Once a stop is hit the batch is the sale of everything, until it is done.*)
StopPending ==
    at = "execute" /\ Position.quantity > 0 /\ StopHit(values) /\ ~Bought
    => intents = <<MarketSell(Symbol, Position.quantity)>>

(* A trend batch is one order: everything is sold, or bought after the      *)
(* cooldown.                                                                *)
TrendBatch ==
    kind = "trend" /\ at = "execute" =>
        \/ intents = <<>>
        \/ Position.quantity > 0 /\ intents = <<MarketSell(Symbol, Position.quantity)>>
        \/ ~CoolingDown(index, values) /\ intents = <<MarketBuy(Symbol, EntryAllocation)>>

(* The last exit of the trend strategy is no earlier than any sale.         *)
SalesKnown ==
    kind = "trend" /\ at \in {"decide", "execute"} =>
        /\ values.lastExit <= index
        /\ \A n \in DOMAIN ledger.fills :
             ledger.fills[n].symbol = Symbol /\ ledger.fills[n].side = "sell" =>
                 values.lastExit # -1 /\ ledger.fills[n].time <= values.lastExit + 1

IInv ==
    /\ TypeOK /\ LaterUntouched /\ ReversionReady /\ StopPending
    /\ TrendBatch /\ SalesKnown /\ CooldownRespected

-----------------------------------------------------------------------------
(* What AnalysisMatchesLedger, ProfitAddsUp and ValuesFollowPosition rest   *)
(* on besides.                                                              *)

Analysed == AnalyzeLedger(ledger.initial, ledger.fills)

(* What was paid is either realised or the cost of what is held.            *)
CostsFollowCash ==
    /\ Analysed \in [cash : Int, realized : Int,
                     quantities : [Symbols -> Nat], costs : [Symbols -> Int]]
    /\ \A s \in Symbols : ledger.positions[s].quantity = 0 => Analysed.costs[s] = 0
    /\ Analysed.realized - SumFunctionOnSet(Analysed.costs, Symbols)
           = ledger.cash - ledger.initial

(* The fills add up to what is held. *)
FillsAddUp ==
    \A s \in Symbols : HeldAfter(s, Len(ledger.fills)) = ledger.positions[s].quantity

BooksInv == AnalysisMatchesLedger /\ CostsFollowCash /\ FillsAddUp /\ ValuesFollowPosition

-----------------------------------------------------------------------------
(* Arithmetic. *)

(* Products of naturals are naturals. *)
LEMMA NatProduct == \A a, b \in Nat : a * b \in Nat
  BY Z3

(* Products of positive numbers are positive. *)
LEMMA PositiveProduct == \A a, b \in Nat \ {0} : a * b \in Nat \ {0}
  BY Z3

(* A positive multiple of more than b is at least b. *)
LEMMA MultipleAtLeast ==
  ASSUME NEW a \in Nat \ {0}, NEW b \in Nat, NEW c \in Nat
  PROVE  a * (b + c) \in Nat /\ a * (b + c) >= b
  <1>1. (a - 1) * b \in Nat /\ a * c \in Nat
    BY NatProduct
  <1>2. a * (b + c) = (a - 1) * b + b + a * c
    BY Z3
  <1> QED
    BY <1>1, <1>2

(* More than c candles after e is more than c after anything up to e + 1, *)
(* seen from one candle later. *)
LEMMA LongAfter ==
  ASSUME NEW i \in Nat, NEW e \in Nat, NEW t \in Nat, NEW c \in Nat,
         t <= e + 1, i - e > c
  PROVE  (i + 1) - t > c
  OBVIOUS

(* A rounded quotient of naturals is a natural. *)
LEMMA RoundDivNat ==
  ASSUME NEW n \in Nat, NEW d \in Nat \ {0}
  PROVE  RoundDiv(n, d) \in Nat
  <1>1. n \div d \in Nat
    BY Z3
  <1> QED
    BY <1>1 DEF RoundDiv

-----------------------------------------------------------------------------
(* The ledger and the execution model. *)

Ledgers == [initial : Capitals, cash : Nat, fills : Seq(Fill),
            positions : [Symbols -> [quantity : Nat, average : Nat]]]

(* The amounts of a fill. *)
LEMMA Amounts ==
  ASSUME NEW f, f.quantity \in Nat, f.price \in Nat
  PROVE  /\ Notional(f) \in Nat /\ Fee(f) \in Nat
         /\ Fee(f) <= Notional(f)
  <1> DEFINE amount == f.quantity * f.price
  <1>1. amount \in Nat
    BY NatProduct
  <1>2. One * amount \in Nat /\ FeeRate * amount \in Nat
    BY <1>1, NatProduct
  <1>3. FeeRate * amount <= One * amount
    <2>1. (One - FeeRate) * amount \in Nat
      BY <1>1, NatProduct
    <2> HIDE DEF amount
    <2> QED
      BY <1>1, <2>1, Z3
  <1>4. Notional(f) = One * amount /\ Fee(f) = FeeRate * amount
    BY Z3 DEF Notional, Fee
  <1> QED
    BY <1>2, <1>3, <1>4

(* The ledger takes every fill the execution model lets through. *)
LEMMA FillableAccepted ==
  ASSUME NEW ledgr \in Ledgers, NEW f, f.symbol \in Symbols, f.side \in {"buy", "sell"},
         f.quantity \in Nat, f.price \in Nat, Fillable(f, ledgr)
  PROVE  Accepts(ledgr, f)
  <1>1. Notional(f) \in Nat /\ Fee(f) \in Nat /\ Fee(f) <= Notional(f)
    BY Amounts
  <1>2. ledgr.cash \in Nat /\ ledgr.positions[f.symbol].quantity \in Nat
    BY DEF Ledgers
  <1>3. CashAfter(ledgr, f) >= 0
    BY <1>1, <1>2 DEF CashAfter, Fillable
  <1>4. QuantityAfter(ledgr, f) >= 0
    BY <1>2 DEF QuantityAfter, Fillable
  <1> QED
    BY <1>1, <1>2, <1>3, <1>4 DEF Accepts, Fillable

(* A fill the ledger accepts leaves a ledger: no balance becomes negative. *)
LEMMA ApplyType ==
  ASSUME NEW ledgr \in Ledgers, NEW f \in Fill, Accepts(ledgr, f)
  PROVE  Apply(ledgr, f) \in Ledgers
  <1>1. Notional(f) \in Nat /\ Fee(f) \in Nat
    BY Amounts DEF Fill
  <1>2. /\ ledgr.cash \in Nat /\ ledgr.positions[f.symbol].quantity \in Nat
        /\ ledgr.positions[f.symbol].average \in Nat
    BY DEF Ledgers, Fill
  <1>3. CashAfter(ledgr, f) \in Nat
    BY <1>1, <1>2 DEF CashAfter, Accepts
  <1>4. QuantityAfter(ledgr, f) \in Nat
    BY <1>2 DEF QuantityAfter, Accepts, Fill
  <1>5. AverageAfter(ledgr, f) \in Nat
    <2>1. CASE f.side = "buy"
      <3>1. QuantityAfter(ledgr, f) \in Nat \ {0}
        BY <1>2, <2>1 DEF QuantityAfter, Fill
      <3>2. /\ ledgr.positions[f.symbol].quantity * ledgr.positions[f.symbol].average \in Nat
            /\ f.quantity * f.price \in Nat
        BY <1>2, NatProduct DEF Fill
      <3>3. ledgr.positions[f.symbol].quantity * ledgr.positions[f.symbol].average
              + f.quantity * f.price \in Nat
        BY <3>2
      <3> QED
        BY <2>1, <3>1, <3>3, RoundDivNat DEF AverageAfter
    <2>2. CASE f.side # "buy"
      BY <1>2, <2>2 DEF AverageAfter
    <2> QED
      BY <2>1, <2>2
  <1>6. Append(ledgr.fills, f) \in Seq(Fill)
    BY DEF Ledgers
  <1> DEFINE after == [quantity |-> QuantityAfter(ledgr, f),
                       average  |-> AverageAfter(ledgr, f)]
  <1>7. after \in [quantity : Nat, average : Nat]
    BY <1>4, <1>5
  <1> HIDE DEF after
  <1> QED
    BY <1>3, <1>6, <1>7 DEF Apply, Ledgers, Fill, after

-----------------------------------------------------------------------------
(* Types. *)

(* The symbols of the strategy. *)
LEMMA UniverseType ==
  ASSUME TypeOK
  PROVE  /\ DOMAIN universe = 1..Len(universe) /\ Len(universe) \in Nat
         /\ turn \in DOMAIN universe /\ turn \in Nat
         /\ \A k \in DOMAIN universe :
              universe[k] \in [symbol : Symbols, weight : 1..One, length : Nat \ {0, 1}]
         /\ \A k, l \in DOMAIN universe : universe[k].symbol = universe[l].symbol => k = l
  <1> DEFINE Member == [symbol : Symbols, weight : 1..One, length : Nat \ {0, 1}]
  <1>1. /\ universe \in Seq(Member) /\ turn \in 1..Len(universe)
        /\ \A k, l \in DOMAIN universe : universe[k].symbol = universe[l].symbol => k = l
    BY BacktestEngineAssumption DEF TypeOK
  <1> HIDE DEF Member
  <1>2. DOMAIN universe = 1..Len(universe) /\ Len(universe) \in Nat
    BY <1>1
  <1>3. \A k \in DOMAIN universe : universe[k] \in Member
    BY <1>1, <1>2, ElementOfSeq
  <1>4. turn \in DOMAIN universe /\ turn \in Nat
    BY <1>1, <1>2
  <1> QED
    BY <1>1, <1>2, <1>3, <1>4 DEF Member

(* The symbol whose turn it is. *)
LEMMA HereType ==
  ASSUME TypeOK
  PROVE  /\ universe[turn] \in [symbol : Symbols, weight : 1..One, length : Nat \ {0, 1}]
         /\ Symbol \in Symbols
         /\ Position \in [quantity : Nat, average : Nat]
         /\ ledger \in Ledgers
  BY UniverseType DEF TypeOK, Symbol, Position, Ledgers

(* Every price of a candle is a natural. *)
LEMMA CandleType ==
  ASSUME NEW c \in Candles \cup {NoCandle}
  PROVE  c.open \in Nat /\ c.high \in Nat /\ c.low \in Nat /\ c.close \in Nat
  BY BacktestEngineAssumption DEF NoCandle

(* The price of an order. *)
LEMMA PriceType ==
  ASSUME TypeOK, NEW i \in Intent
  PROVE  EligiblePrice(i, next, slippage) \in Nat
  <1>1. next.open \in Nat /\ slippage \in 0..One
    BY CandleType, BacktestEngineAssumption DEF TypeOK
  <1>2. i.limit \in Nat /\ i.side \in {"buy", "sell"}
    BY DEF Intent
  <1>3. ASSUME NEW side \in {"buy", "sell"} PROVE MarketPrice(side, next.open, slippage) \in Nat
    <2> DEFINE factor == IF side = "buy" THEN One + slippage ELSE One - slippage
    <2>1. factor \in Nat
      BY <1>1
    <2>2. next.open * factor \in Nat
      BY <1>1, <2>1, NatProduct
    <2> QED
      BY <2>2, RoundDivNat DEF MarketPrice
  <1>4. CASE i.limit = 0
    BY <1>2, <1>3, <1>4 DEF EligiblePrice
  <1>5. CASE i.limit # 0 /\ i.side = "buy"
    BY <1>1, <1>2, <1>5 DEF EligiblePrice, Smaller
  <1>6. CASE i.limit # 0 /\ i.side = "sell"
    BY <1>1, <1>2, <1>6 DEF EligiblePrice, Larger
  <1> QED
    BY <1>2, <1>4, <1>5, <1>6

(* The quantity of an order; only a sale may come without a price. *)
LEMMA QuantityType ==
  ASSUME TypeOK, NEW i \in Intent, i.symbol \in Symbols, NEW price \in Nat,
         price # 0 \/ i.side = "sell"
  PROVE  Quantity(i, universe[turn].weight, price, ledger) \in Nat
  <1>0. i.quantity \in Nat /\ i.allocation \in Nat /\ i.side \in {"buy", "sell"}
    BY DEF Intent
  <1>1. /\ universe[turn].weight \in Nat /\ ledger.cash \in Nat
        /\ ledger.positions[i.symbol].quantity \in Nat
    BY HereType DEF Ledgers
  <1>2. ledger.cash * i.allocation * universe[turn].weight \in Nat
    BY <1>0, <1>1, NatProduct
  <1>3. One + FeeRate \in Nat \ {0}
    OBVIOUS
  <1>4. i.side = "buy" => price * (One + FeeRate) * One * One \in Nat \ {0}
    BY <1>3, PositiveProduct
  <1>5. ledger.positions[i.symbol].quantity * i.allocation \in Nat
    BY <1>0, <1>1, NatProduct
  <1> QED
    BY <1>0, <1>2, <1>4, <1>5, RoundDivNat DEF Quantity

(* What is executed is a fill, and the ledger takes it. *)
LEMMA FillType ==
  ASSUME TypeOK, at = "execute", intents # <<>>, Filled(Head(intents)),
         FillOf(Head(intents)).price > 0
  PROVE  /\ Head(intents) \in Intent
         /\ FillOf(Head(intents)) \in Fill
         /\ FillOf(Head(intents)).symbol = Symbol
         /\ FillOf(Head(intents)).time = index + 1
         /\ FillOf(Head(intents)).side = Head(intents).side
         /\ Accepts(ledger, FillOf(Head(intents)))
  <1> DEFINE i == Head(intents)
             f == FillOf(i)
  <1>1. i \in Intent
    BY DEF TypeOK
  <1>2. f.price = EligiblePrice(i, next, slippage) /\ f.price \in Nat \ {0}
    BY <1>1, PriceType DEF FillOf, FillAt
  <1>3. Symbol \in Symbols /\ i.symbol \in Symbols /\ i.side \in {"buy", "sell"}
    BY <1>1, HereType DEF Intent
  <1>4. f.quantity \in Nat \ {0}
    <2>1. f.quantity = Quantity(i, universe[turn].weight, f.price, ledger)
      BY <1>2 DEF FillOf, FillAt
    <2>2. f.quantity > 0
      BY DEF Filled, Fillable
    <2> QED
      BY <1>1, <1>2, <1>3, <2>1, <2>2, QuantityType
  <1>5. f \in Fill
    <2>1. f = [symbol |-> f.symbol, side |-> f.side, price |-> f.price, time |-> f.time,
               quantity |-> f.quantity]
      BY DEF FillOf, FillAt
    <2>2. f.symbol = Symbol /\ f.side = i.side /\ f.time = index + 1
      BY DEF FillOf, FillAt
    <2>3. index + 1 \in Nat
      BY DEF TypeOK
    <2> HIDE DEF f
    <2> QED
      BY <1>2, <1>3, <1>4, <2>1, <2>2, <2>3 DEF Fill
  <1>6. Accepts(ledger, f)
    BY <1>5, HereType, FillableAccepted DEF Filled, Fill
  <1> QED
    BY <1>1, <1>5, <1>6 DEF FillOf, FillAt

(* What Execute does, in terms of the fill. *)
LEMMA ExecuteEffect ==
  ASSUME TypeOK, Execute
  PROVE  LET f == FillOf(Head(intents))
             fills == ledger.fills
         IN  /\ f \in Fill /\ f.symbol = Symbol /\ f.time = index + 1
             /\ f.side = Head(intents).side /\ Head(intents) \in Intent
             /\ ledger' \in Ledgers /\ Symbol' = Symbol /\ Symbol \in Symbols
             /\ Position'.quantity = QuantityAfter(ledger, f)
             /\ Position'.average = AverageAfter(ledger, f)
             /\ \A s \in Symbols \ {Symbol} : ledger'.positions[s] = ledger.positions[s]
             /\ DOMAIN fills = 1..Len(fills) /\ Len(fills) \in Nat
             /\ DOMAIN ledger'.fills = 1..(Len(fills) + 1)
             /\ \A n \in 1..Len(fills) : ledger'.fills[n] = fills[n]
             /\ ledger'.fills[Len(fills) + 1] = f
             /\ values' = AfterFill(values, index, f, Position'.quantity)
             /\ \A n \in 1..Len(fills) : fills[n] \in Fill
  <1> DEFINE f == FillOf(Head(intents))
             fills == ledger.fills
  <1>1. /\ intents # <<>> /\ at = "execute" /\ Filled(Head(intents)) /\ f.price > 0
        /\ ledger' = Apply(ledger, f) /\ values' = AfterFill(values, index, f, QuantityAfter(ledger, f))
        /\ UNCHANGED <<universe, turn>>
    BY DEF Execute, config, loops
  <1>2. /\ Head(intents) \in Intent /\ f \in Fill /\ f.symbol = Symbol
        /\ f.time = index + 1 /\ f.side = Head(intents).side /\ Accepts(ledger, f)
    BY <1>1, FillType
  <1>3. ledger \in Ledgers /\ Symbol \in Symbols
    BY HereType
  <1>4. Symbol' = Symbol
    BY <1>1 DEF Symbol
  <1> HIDE DEF f
  <1>5. ledger' \in Ledgers
    BY <1>1, <1>2, <1>3, ApplyType
  <1>6. /\ ledger'.positions = [ledger.positions EXCEPT
                ![Symbol] = [quantity |-> QuantityAfter(ledger, f),
                             average  |-> AverageAfter(ledger, f)]]
        /\ ledger'.fills = Append(fills, f)
    BY <1>1, <1>2, <1>3 DEF Apply, Ledgers
  <1>7. fills \in Seq(Fill) /\ ledger.positions \in [Symbols -> [quantity : Nat, average : Nat]]
    BY <1>3 DEF Ledgers
  <1>8. /\ Position'.quantity = QuantityAfter(ledger, f)
        /\ Position'.average = AverageAfter(ledger, f)
    BY <1>3, <1>4, <1>6, <1>7 DEF Position
  <1>9. \A s \in Symbols \ {Symbol} : ledger'.positions[s] = ledger.positions[s]
    BY <1>6, <1>7
  <1>10. /\ DOMAIN fills = 1..Len(fills) /\ Len(fills) \in Nat
         /\ DOMAIN ledger'.fills = 1..(Len(fills) + 1)
         /\ \A n \in 1..Len(fills) : ledger'.fills[n] = fills[n]
         /\ ledger'.fills[Len(fills) + 1] = f
         /\ \A n \in 1..Len(fills) : fills[n] \in Fill
    <2> HIDE DEF fills
    <2> QED
      BY <1>2, <1>6, <1>7, ElementOfSeq
  <1> QED
    BY <1>1, <1>2, <1>3, <1>4, <1>5, <1>8, <1>9, <1>10 DEF f

(* The values a strategy is given. *)
LEMMA BeforeDecisionType ==
  ASSUME TypeOK
  PROVE  BeforeDecision \in Values
  <1> DEFINE peak == Larger(values.peak, candle.close)
  <1>1. values \in Values /\ candle.close \in Nat
    BY CandleType DEF TypeOK
  <1>2. peak \in Nat
    BY <1>1 DEF Values, Larger
  <1>3. BeforeDecision \in {values, [values EXCEPT !.holding = @ + 1, !.peak = peak]}
    BY DEF BeforeDecision, Prepared
  <1> HIDE DEF peak
  <1>4. values.holding + 1 \in Nat
    BY <1>1 DEF Values
  <1>5. [values EXCEPT !.holding = @ + 1, !.peak = peak] \in Values
    BY <1>1, <1>2, <1>4, Zenon DEF Values
  <1> QED
    BY <1>1, <1>3, <1>5

(* The values a fill leaves. *)
LEMMA AfterFillType ==
  ASSUME TypeOK, NEW f \in Fill, NEW quantity
  PROVE  AfterFill(values, index, f, quantity) \in Values
  <1> DEFINE peak == Larger(values.peak, f.price)
             bought == [values EXCEPT !.entries = @ + 1, !.lastEntry = f.price,
                                      !.peak = peak, !.holding = 0]
             flat == [values EXCEPT !.entries = 0, !.holding = 0, !.peak = 0,
                                    !.lastExit = index]
  <1>1. values \in Values /\ index \in Nat /\ f.price \in Nat
    BY DEF TypeOK, Fill
  <1>2. peak \in Nat
    BY <1>1 DEF Values, Larger
  <1>3. AfterFill(values, index, f, quantity) \in {bought, values, flat}
    BY DEF AfterFill
  <1> HIDE DEF peak
  <1>4. bought \in Values
    <2>1. values.entries + 1 \in Nat
      BY <1>1 DEF Values
    <2>2. ASSUME NEW entries \in Nat, NEW price \in Nat, peak \in Nat
          PROVE  [values EXCEPT !.entries = entries, !.lastEntry = price,
                                !.peak = peak, !.holding = 0] \in Values
      BY <1>1, <2>2 DEF Values
    <2> QED
      BY <1>1, <1>2, <2>1, <2>2, Zenon
  <1>5. flat \in Values
    BY <1>1 DEF Values
  <1> QED
    BY <1>1, <1>3, <1>4, <1>5

(* The types hold initially. *)
LEMMA InitType == Init => TypeOK
  <1> SUFFICES ASSUME Init PROVE TypeOK
    OBVIOUS
  <1>1. universe \in Seq([symbol : Symbols, weight : 1..One, length : Nat \ {0, 1}])
        /\ universe # <<>>
    BY BacktestEngineAssumption DEF Init
  <1>2. 1 \in 1..Len(universe)
    BY <1>1, Z3
  <1>3. values \in Values
    BY DEF Init, NoValues, Values
  <1>4. ledger \in Ledgers
    <2>1. PICK cash \in Capitals : ledger = NewLedger(cash)
      BY DEF Init
    <2>2. cash \in Nat
      BY BacktestEngineAssumption
    <2>3. [s \in Symbols |-> Flat] \in [Symbols -> [quantity : Nat, average : Nat]]
      BY DEF Flat
    <2>4. <<>> \in Seq(Fill)
      OBVIOUS
    <2> QED
      BY <2>1, <2>2, <2>3, <2>4 DEF NewLedger, Ledgers
  <1> QED
    BY <1>2, <1>3, <1>4 DEF Init, TypeOK, Ledgers

(* Every step keeps the types. *)
LEMMA NextType == TypeOK /\ [Next]_vars => TypeOK'
  <1> SUFFICES ASSUME TypeOK, [Next]_vars PROVE TypeOK'
    OBVIOUS
  <1>1. CASE OpenSymbol
    <2>1. values' \in Values
      BY <1>1 DEF OpenSymbol, NoValues, Values
    <2> QED
      BY <1>1, <2>1 DEF OpenSymbol, TypeOK, config
  <1>2. CASE Decide
    <2>1. values' \in Values
      BY <1>2, BeforeDecisionType DEF Decide, DecideOn
    <2>2. at' \in {"execute", "raised"} /\ (at' = "execute" => intents' \in Seq(Intent))
      BY <1>2 DEF Decide, DecideOn
    <2>3. next' \in Candles
      BY <1>2 DEF Decide, DecideOn
    <2> QED
      BY <1>2, <2>1, <2>2, <2>3 DEF Decide, DecideOn, TypeOK, config
  <1>3. CASE Drop
    BY <1>3 DEF Drop, TypeOK, config, loops
  <1>4. CASE Execute
    <2>1. ledger' \in Ledgers
      BY <1>4, ExecuteEffect
    <2>2. values' \in Values
      BY <1>4, ExecuteEffect, AfterFillType
    <2>3. intents' \in Seq(Intent)
      BY <1>4 DEF Execute, TypeOK
    <2> QED
      BY <1>4, <2>1, <2>2, <2>3 DEF Execute, TypeOK, config, loops, Ledgers
  <1>5. CASE Raise
    BY <1>5 DEF Raise, TypeOK, config, loops
  <1>6. CASE NextCandle
    BY <1>6 DEF NextCandle, TypeOK, config
  <1>7. CASE SymbolDone
    <2>2. Len(universe) \in Nat /\ turn \in 1..Len(universe)
      BY UniverseType
    <2>3. turn' = turn \/ (turn' = turn + 1 /\ turn < Len(universe))
      BY <1>7 DEF SymbolDone
    <2>4. turn' \in 1..Len(universe)
      BY <2>2, <2>3
    <2> QED
      BY <1>7, <2>4 DEF SymbolDone, TypeOK, config
  <1>8. CASE UNCHANGED vars
    BY <1>8 DEF vars, TypeOK, config, loops
  <1> QED
    BY <1>1, <1>2, <1>3, <1>4, <1>5, <1>6, <1>7, <1>8 DEF Next, Terminated

-----------------------------------------------------------------------------
(* Symbols whose turn has not come. *)

(* Every step but Execute leaves the ledger alone. *)
LEMMA LedgerUnchanged ==
  [Next]_vars => Execute \/ UNCHANGED <<kind, slippage, universe, ledger>>
  BY DEF Next, Terminated, vars, config, loops, OpenSymbol, Decide, DecideOn, Drop, Raise,
         NextCandle, SymbolDone

(* A later symbol stays untouched: a fill is of the symbol whose turn it is. *)
LEMMA NextLater == TypeOK /\ LaterUntouched /\ [Next]_vars => LaterUntouched'
  <1> SUFFICES ASSUME TypeOK, LaterUntouched, [Next]_vars,
                      NEW k \in DOMAIN universe',
                      (k > turn \/ (k = turn /\ at = "open"))'
               PROVE  (/\ ledger.positions[universe[k].symbol].quantity = 0
                       /\ \A n \in DOMAIN ledger.fills :
                            ledger.fills[n].symbol # universe[k].symbol)'
    BY DEF LaterUntouched
  <1>1. universe' = universe
    BY LedgerUnchanged DEF Execute, config
  <1>2. turn \in Nat /\ k \in Nat /\ turn \in DOMAIN universe /\ k \in DOMAIN universe
    BY <1>1, UniverseType
  <1>3. k > turn \/ (k = turn /\ at = "open")
    <2>1. CASE SymbolDone
      BY <1>2, <2>1 DEF SymbolDone
    <2>2. CASE ~SymbolDone
      BY <1>2, <2>2 DEF Next, Terminated, vars, loops, OpenSymbol, Decide, DecideOn, Drop, Execute,
                        Raise, NextCandle
    <2> QED
      BY <2>1, <2>2
  <1>4. /\ ledger.positions[universe[k].symbol].quantity = 0
        /\ \A n \in DOMAIN ledger.fills : ledger.fills[n].symbol # universe[k].symbol
    BY <1>1, <1>3 DEF LaterUntouched
  <1>5. CASE UNCHANGED ledger
    BY <1>1, <1>4, <1>5
  <1>6. CASE Execute
    <2> DEFINE f == FillOf(Head(intents))
    <2>1. k # turn
      BY <1>2, <1>3, <1>6 DEF Execute
    <2>2. universe[k].symbol # Symbol /\ universe[k].symbol \in Symbols
      BY <1>2, <2>1, UniverseType DEF Symbol
    <2>3. ledger'.positions[universe[k].symbol].quantity = 0
      BY <1>4, <1>6, <2>2, ExecuteEffect
    <2>4. \A n \in DOMAIN ledger'.fills : ledger'.fills[n].symbol # universe[k].symbol
      <3>1. /\ f.symbol = Symbol
            /\ DOMAIN ledger.fills = 1..Len(ledger.fills) /\ Len(ledger.fills) \in Nat
            /\ DOMAIN ledger'.fills = 1..(Len(ledger.fills) + 1)
            /\ \A n \in 1..Len(ledger.fills) : ledger'.fills[n] = ledger.fills[n]
            /\ ledger'.fills[Len(ledger.fills) + 1] = f
        BY <1>6, ExecuteEffect
      <3> HIDE DEF f
      <3> QED
        BY <1>4, <2>2, <3>1
    <2> QED
      BY <1>1, <2>3, <2>4
  <1> QED
    BY <1>5, <1>6, LedgerUnchanged

(* Mean reversion never holds or orders before its indicators are known. *)
LEMMA NextReady ==
  TypeOK /\ LaterUntouched /\ ReversionReady /\ [Next]_vars => ReversionReady'
  <1> SUFFICES ASSUME TypeOK, LaterUntouched, ReversionReady, [Next]_vars,
                      kind' = "mean_reversion"
               PROVE  (/\ at \in {"decide", "execute"} /\ Position.quantity > 0
                            => IndicatorsKnown(index)
                       /\ at = "execute" /\ intents # <<>> => IndicatorsKnown(index))'
    BY DEF ReversionReady
  <1>1. kind = "mean_reversion" /\ universe' = universe
    BY LedgerUnchanged DEF Execute, config
  <1>2. CASE OpenSymbol
    <2>1. turn \in DOMAIN universe
      BY UniverseType
    <2>2. Position.quantity = 0 /\ Position' = Position
      BY <1>1, <1>2, <2>1 DEF LaterUntouched, OpenSymbol, Position, Symbol
    <2> QED
      BY <1>2, <2>2 DEF OpenSymbol
  <1>3. CASE Decide
    <2>1. Position' = Position /\ index' = index /\ at = "decide"
      BY <1>1, <1>3 DEF Decide, DecideOn, Position, Symbol
    <2>2. ~IndicatorsKnown(index) => intents' = <<>>
      BY <1>1, <1>3 DEF Decide, DecideOn, Generate, ReversionIntents
    <2> QED
      BY <1>1, <2>1, <2>2 DEF ReversionReady, IndicatorsKnown
  <1>4. CASE Drop \/ Execute
    BY <1>1, <1>4 DEF Drop, Execute, loops, ReversionReady, IndicatorsKnown
  <1>5. CASE NextCandle
    <2>1. Position' = Position /\ index' = index + 1 /\ intents' = <<>> /\ at = "execute"
      BY <1>1, <1>5 DEF NextCandle, Position, Symbol
    <2>2. index \in Nat /\ RsiPeriod \in Nat /\ BollingerPeriod \in Nat
      BY StrategiesAssumption DEF TypeOK
    <2> QED
      BY <1>1, <2>1, <2>2 DEF ReversionReady, IndicatorsKnown
  <1>6. CASE Raise \/ SymbolDone
    BY <1>6 DEF Raise, SymbolDone
  <1>7. CASE UNCHANGED vars
    BY <1>1, <1>7 DEF vars, loops, ReversionReady, IndicatorsKnown, Position, Symbol
  <1> QED
    BY <1>2, <1>3, <1>4, <1>5, <1>6, <1>7 DEF Next, Terminated

-----------------------------------------------------------------------------
(* Stops. *)

(* The sale of everything is always filled: what is held can be sold. *)
LEMMA SellAllFilled ==
  ASSUME TypeOK, Position.quantity > 0
  PROVE  LET i == MarketSell(Symbol, Position.quantity)
         IN  /\ Filled(i)
             /\ FillOf(i).quantity = Position.quantity /\ FillOf(i).side = "sell"
  <1> DEFINE i == MarketSell(Symbol, Position.quantity)
             f == FillOf(i)
  <1>1. Position.quantity \in Nat
    BY HereType
  <1>2. /\ i.quantity = Position.quantity /\ i.side = "sell" /\ i.limit = 0
    BY DEF MarketSell
  <1>3. f.quantity = Position.quantity /\ f.side = "sell" /\ f.symbol = Symbol
    <2> HIDE DEF i
    <2>1. \A weight, price : Quantity(i, weight, price, ledger) = Position.quantity
      BY <1>1, <1>2 DEF Quantity
    <2> QED
      BY <1>2, <2>1 DEF FillOf, FillAt
  <1>4. Fillable(f, ledger)
    <2> HIDE DEF f
    <2> QED
      BY <1>1, <1>3 DEF Fillable, Position
  <1>5. Reached(i, next)
    <2> HIDE DEF i
    <2> QED
      BY <1>2 DEF Reached
  <1> QED
    BY <1>3, <1>4, <1>5 DEF Filled

(* A strategy whose stop is hit asks for the sale of everything. *)
LEMMA StopAsked ==
  ASSUME TypeOK, ReversionReady, at = "decide", Position.quantity > 0,
         NEW signal \in Signals, StopHit(BeforeDecision)
  PROVE  Generate(kind, Symbol, index, candle, Position, BeforeDecision, signal)
             = <<MarketSell(Symbol, Position.quantity)>>
  <1>1. kind \in {"trend", "mean_reversion", "grid"}
    BY BacktestEngineAssumption DEF TypeOK
  <1>2. CASE kind = "trend"
    BY <1>2 DEF Generate, TrendIntents, TrendExits, StopHit
  <1>3. CASE kind = "mean_reversion"
    <2>1. IndicatorsKnown(index)
      BY <1>3 DEF ReversionReady
    <2> QED
      BY <1>3, <2>1 DEF Generate, ReversionIntents, ReversionExits, StopHit
  <1>4. CASE kind = "grid"
    BY <1>4 DEF Generate, GridIntents, StopHit
  <1> QED
    BY <1>1, <1>2, <1>3, <1>4

(* A hit stop stays on its way until the position is gone. *)
LEMMA NextStop ==
  TypeOK /\ ReversionReady /\ StopPending /\ [Next]_vars => StopPending'
  <1> SUFFICES ASSUME TypeOK, ReversionReady, StopPending, [Next]_vars,
                      at' = "execute", Position'.quantity > 0, StopHit(values)', ~Bought'
               PROVE  intents' = <<MarketSell(Symbol', Position'.quantity)>>
    BY DEF StopPending, MarketSell
  <1>1. CASE Decide
    <2>1. /\ Position' = Position /\ Symbol' = Symbol /\ candle' = candle /\ kind' = kind
          /\ values' = BeforeDecision /\ at = "decide"
      BY <1>1 DEF Decide, DecideOn, config, Position, Symbol
    <2>2. StopHit(BeforeDecision)
      BY <2>1 DEF StopHit, FallenBy
    <2> QED
      BY <1>1, <2>1, <2>2, StopAsked DEF Decide, DecideOn
  <1>2. CASE Drop
    <2>1. /\ Position' = Position /\ Symbol' = Symbol /\ UNCHANGED <<candle, kind, values>>
          /\ at = "execute" /\ intents # <<>> /\ ~Filled(Head(intents))
      BY <1>2 DEF Drop, config, loops, Position, Symbol
    <2>2. StopHit(values) /\ ~Bought
      BY <1>2, <2>1 DEF StopHit, FallenBy, Bought, Drop, loops
    <2>3. intents = <<MarketSell(Symbol, Position.quantity)>>
      BY <2>1, <2>2 DEF StopPending
    <2>4. Filled(MarketSell(Symbol, Position.quantity))
      BY <2>1, SellAllFilled
    <2> QED
      BY <2>1, <2>3, <2>4
  <1>3. CASE Execute
    <2> DEFINE f == FillOf(Head(intents))
    <2>0. /\ UNCHANGED <<candle, kind, index>> /\ at = "execute" /\ intents # <<>>
      BY <1>3 DEF Execute, config, loops
    <2>1. /\ f \in Fill /\ f.symbol = Symbol /\ f.time = index + 1 /\ Symbol' = Symbol
          /\ Position'.quantity = QuantityAfter(ledger, f)
          /\ Position'.average = AverageAfter(ledger, f)
          /\ DOMAIN ledger.fills = 1..Len(ledger.fills) /\ Len(ledger.fills) \in Nat
          /\ DOMAIN ledger'.fills = 1..(Len(ledger.fills) + 1)
          /\ \A n \in 1..Len(ledger.fills) : ledger'.fills[n] = ledger.fills[n]
          /\ ledger'.fills[Len(ledger.fills) + 1] = f
          /\ values' = AfterFill(values, index, f, Position'.quantity)
      BY <1>3, ExecuteEffect
    <2>2. Position.quantity \in Nat
      BY HereType
    <2> HIDE DEF f
    <2>3. f.side = "sell"
      <3>1. ASSUME f.side = "buy" PROVE Bought'
        <4>1. /\ Len(ledger.fills) + 1 \in DOMAIN ledger'.fills
              /\ f.symbol = Symbol' /\ f.time = index' + 1
          BY <2>0, <2>1
        <4>2. \E n \in DOMAIN ledger'.fills :
                /\ ledger'.fills[n].symbol = Symbol' /\ ledger'.fills[n].side = "buy"
                /\ ledger'.fills[n].time = index' + 1
          BY <2>1, <3>1, <4>1
        <4> QED
          BY <4>2 DEF Bought
      <3> QED
        BY <2>1, <3>1 DEF Fill
    <2>4. values' = values /\ Position'.average = Position.average /\ Position.quantity > 0
      BY <2>1, <2>2, <2>3 DEF AfterFill, AverageAfter, QuantityAfter, Position, Fill
    <2>5. StopHit(values) /\ ~Bought
      <3>1. StopHit(values)
        BY <2>0, <2>4 DEF StopHit, FallenBy
      <3>2. ASSUME Bought PROVE Bought'
        BY <2>0, <2>1, <3>2 DEF Bought
      <3> QED
        BY <3>1, <3>2
    <2>6. Head(intents) = MarketSell(Symbol, Position.quantity)
      BY <2>0, <2>4, <2>5 DEF StopPending
    <2>7. f.quantity = Position.quantity
      BY <2>4, <2>6, SellAllFilled DEF f
    <2> QED
      BY <2>1, <2>2, <2>3, <2>7 DEF QuantityAfter, Position
  <1>4. CASE OpenSymbol \/ Raise \/ NextCandle \/ SymbolDone
    BY <1>4 DEF OpenSymbol, Raise, NextCandle, SymbolDone
  <1>5. CASE UNCHANGED vars
    BY <1>5 DEF vars, config, loops, StopPending, StopHit, FallenBy, Bought, Position, Symbol
  <1> QED
    BY <1>1, <1>2, <1>3, <1>4, <1>5 DEF Next, Terminated

-----------------------------------------------------------------------------
(* The cooldown. *)

(* A decision leaves the last exit alone. *)
LEMMA LastExitKept == TypeOK => BeforeDecision.lastExit = values.lastExit
  <1> SUFFICES ASSUME TypeOK PROVE BeforeDecision.lastExit = values.lastExit
    OBVIOUS
  <1>1. values \in Values
    BY DEF TypeOK
  <1>2. \A h, p : [values EXCEPT !.holding = h, !.peak = p].lastExit = values.lastExit
    BY <1>1 DEF Values
  <1> QED
    BY <1>2 DEF BeforeDecision, Prepared

(* The trend strategy asks for one thing at a time. *)
LEMMA NextTrendBatch == TypeOK /\ TrendBatch /\ [Next]_vars => TrendBatch'
  <1> SUFFICES ASSUME TypeOK, TrendBatch, [Next]_vars, kind' = "trend", at' = "execute",
                      intents' # <<>>
               PROVE  (\/ /\ Position.quantity > 0
                          /\ intents = <<MarketSell(Symbol, Position.quantity)>>
                       \/ /\ ~CoolingDown(index, values)
                          /\ intents = <<MarketBuy(Symbol, EntryAllocation)>>)'
    BY DEF TrendBatch
  <1>1. kind = "trend"
    BY LedgerUnchanged DEF Execute, config
  <1>2. CASE Decide
    <2>1. /\ Position' = Position /\ Symbol' = Symbol /\ index' = index
          /\ values' = BeforeDecision
      BY <1>2 DEF Decide, DecideOn, config, Position, Symbol
    <2>2. PICK signal \in Signals :
            intents' = TrendIntents(Symbol, index, candle.close, Position, values', signal)
      BY <1>1, <1>2, <2>1 DEF Decide, DecideOn, Generate
    <2>3. \/ Position.quantity > 0 /\ intents' = <<MarketSell(Symbol, Position.quantity)>>
          \/ /\ ~CoolingDown(index, values')
             /\ intents' = <<MarketBuy(Symbol, EntryAllocation)>>
      BY <2>2 DEF TrendIntents
    <2> QED
      BY <2>1, <2>3 DEF CoolingDown, MarketSell, MarketBuy
  <1>3. CASE Drop \/ Execute
    <2>1. intents' = Tail(intents) /\ intents # <<>> /\ at = "execute"
      BY <1>3 DEF Drop, Execute
    <2>2. \E order : intents = <<order>>
      BY <1>1, <2>1 DEF TrendBatch
    <2> QED
      BY <2>1, <2>2
  <1>4. CASE OpenSymbol \/ Raise \/ NextCandle \/ SymbolDone
    BY <1>4 DEF OpenSymbol, Raise, NextCandle, SymbolDone
  <1>5. CASE UNCHANGED vars
    BY <1>1, <1>5 DEF vars, config, loops, TrendBatch, CoolingDown, Position, Symbol
  <1> QED
    BY <1>2, <1>3, <1>4, <1>5 DEF Next, Terminated

(* A sale of the trend strategy sells everything, and is remembered. *)
LEMMA TrendSale ==
  ASSUME TypeOK, TrendBatch, kind = "trend", Execute,
         FillOf(Head(intents)).side = "sell"
  PROVE  Position'.quantity = 0 /\ values'.lastExit = index
  <1> DEFINE f == FillOf(Head(intents))
  <1>1. at = "execute" /\ intents # <<>>
    BY DEF Execute
  <1>2. /\ f \in Fill /\ f.symbol = Symbol /\ f.side = Head(intents).side
        /\ Position'.quantity = QuantityAfter(ledger, f)
        /\ values' = AfterFill(values, index, f, Position'.quantity)
    BY ExecuteEffect
  <1>3. Position.quantity > 0 /\ Head(intents) = MarketSell(Symbol, Position.quantity)
    <2>1. Head(intents).side = "sell"
      BY <1>2
    <2>2. MarketBuy(Symbol, EntryAllocation).side = "buy"
      BY DEF MarketBuy
    <2> QED
      BY <1>1, <2>1, <2>2 DEF TrendBatch
  <1>4. f.quantity = Position.quantity
    BY <1>3, SellAllFilled
  <1>5. Position'.quantity = 0
    <2>1. Position.quantity \in Nat
      BY HereType
    <2> HIDE DEF f
    <2> QED
      BY <1>2, <1>4, <2>1 DEF QuantityAfter, Position, f
  <1>6. values'.lastExit = index
    <2>1. values \in Values
      BY DEF TypeOK
    <2>2. [values EXCEPT !.entries = 0, !.holding = 0, !.peak = 0,
                         !.lastExit = index].lastExit = index
      BY <2>1 DEF Values
    <2> QED
      BY <1>2, <1>5, <2>2 DEF AfterFill
  <1> QED
    BY <1>5, <1>6

(* A purchase leaves the last exit alone. *)
LEMMA PurchaseKeepsExit ==
  ASSUME TypeOK, Execute, FillOf(Head(intents)).side = "buy"
  PROVE  values'.lastExit = values.lastExit
  <1>1. values \in Values
    BY DEF TypeOK
  <1>2. \A e, l, p : [values EXCEPT !.entries = e, !.lastEntry = l, !.peak = p,
                                    !.holding = 0].lastExit = values.lastExit
    BY <1>1 DEF Values
  <1>3. values' = AfterFill(values, index, FillOf(Head(intents)), Position'.quantity)
    BY ExecuteEffect
  <1> QED
    BY <1>2, <1>3 DEF AfterFill

(* The last exit covers every sale of the symbol. *)
LEMMA NextSales ==
  TypeOK /\ LaterUntouched /\ TrendBatch /\ SalesKnown /\ [Next]_vars => SalesKnown'
  <1> SUFFICES ASSUME TypeOK, LaterUntouched, TrendBatch, SalesKnown, [Next]_vars,
                      kind' = "trend", at' \in {"decide", "execute"}
               PROVE  (/\ values.lastExit <= index
                       /\ \A n \in DOMAIN ledger.fills :
                            ledger.fills[n].symbol = Symbol /\ ledger.fills[n].side = "sell" =>
                              /\ values.lastExit # -1
                              /\ ledger.fills[n].time <= values.lastExit + 1)'
    BY DEF SalesKnown
  <1>1. kind = "trend" /\ universe' = universe
    BY LedgerUnchanged DEF Execute, config
  <1>2. index \in Nat /\ values.lastExit \in Nat \cup {-1}
    BY DEF TypeOK, Values
  <1>3. CASE OpenSymbol
    <2>1. turn \in DOMAIN universe
      BY UniverseType
    <2>2. \A n \in DOMAIN ledger.fills : ledger.fills[n].symbol # Symbol
      BY <1>3, <2>1 DEF LaterUntouched, OpenSymbol, Symbol
    <2>3. ledger' = ledger /\ Symbol' = Symbol /\ values'.lastExit = -1 /\ index' = 0
      BY <1>3 DEF OpenSymbol, config, Symbol, NoValues
    <2> QED
      BY <2>2, <2>3
  <1>4. CASE Decide \/ Drop \/ NextCandle
    <2>1. /\ ledger' = ledger /\ Symbol' = Symbol /\ index' \in {index, index + 1}
          /\ at \in {"decide", "execute"}
      BY <1>4 DEF Decide, DecideOn, Drop, NextCandle, config, loops, Symbol
    <2>2. values'.lastExit = values.lastExit
      BY <1>4, LastExitKept DEF Decide, DecideOn, Drop, NextCandle
    <2> QED
      BY <1>1, <1>2, <2>1, <2>2 DEF SalesKnown
  <1>5. CASE Execute
    <2> DEFINE f == FillOf(Head(intents))
               fills == ledger.fills
    <2>1. /\ f \in Fill /\ f.time = index + 1 /\ Symbol' = Symbol
          /\ DOMAIN fills = 1..Len(fills) /\ Len(fills) \in Nat
          /\ DOMAIN ledger'.fills = 1..(Len(fills) + 1)
          /\ \A n \in 1..Len(fills) : ledger'.fills[n] = fills[n]
          /\ ledger'.fills[Len(fills) + 1] = f
          /\ \A n \in 1..Len(fills) : fills[n] \in Fill
      BY <1>5, ExecuteEffect
    <2>2. index' = index /\ at = "execute"
      BY <1>5 DEF Execute, loops
    <2>3. \A n \in 1..Len(fills) :
            fills[n].symbol = Symbol /\ fills[n].side = "sell" =>
              values.lastExit # -1 /\ fills[n].time <= values.lastExit + 1
      BY <1>1, <2>1, <2>2 DEF SalesKnown
    <2>4. values.lastExit <= index
      BY <1>1, <2>2 DEF SalesKnown
    <2>5. \A n \in 1..Len(fills) : fills[n].time \in Nat
      BY <2>1 DEF Fill
    <2>6. CASE f.side = "buy"
      <3>1. values'.lastExit = values.lastExit
        BY <1>5, <2>6, PurchaseKeepsExit
      <3> HIDE DEF f, fills
      <3>2. \A n \in 1..(Len(fills) + 1) : n = Len(fills) + 1 \/ n \in 1..Len(fills)
        BY <2>1
      <3> QED
        BY <2>1, <2>2, <2>3, <2>4, <2>6, <3>1, <3>2
    <2>7. CASE f.side = "sell"
      <3>1. values'.lastExit = index
        BY <1>1, <1>5, <2>7, TrendSale
      <3> HIDE DEF f, fills
      <3>2. \A n \in 1..(Len(fills) + 1) : n = Len(fills) + 1 \/ n \in 1..Len(fills)
        BY <2>1
      <3>3. \A n \in 1..Len(fills) :
              fills[n].symbol = Symbol /\ fills[n].side = "sell" => fills[n].time <= index + 1
        BY <1>2, <2>3, <2>4, <2>5
      <3> QED
        BY <1>2, <2>1, <2>2, <3>1, <3>2, <3>3
    <2> QED
      BY <2>1, <2>6, <2>7 DEF Fill
  <1>6. CASE Raise \/ SymbolDone
    BY <1>6 DEF Raise, SymbolDone
  <1>7. CASE UNCHANGED vars
    BY <1>1, <1>7 DEF vars, config, loops, SalesKnown, Symbol
  <1> QED
    BY <1>3, <1>4, <1>5, <1>6, <1>7 DEF Next, Terminated

(* A purchase comes more than the cooldown after every sale before it. *)
LEMMA NextCooldown ==
  TypeOK /\ TrendBatch /\ SalesKnown /\ CooldownRespected /\ [Next]_vars
    => CooldownRespected'
  <1> SUFFICES ASSUME TypeOK, TrendBatch, SalesKnown, CooldownRespected, [Next]_vars,
                      kind' = "trend"
               PROVE  (\A n, m \in DOMAIN ledger.fills :
                         /\ n < m /\ ledger.fills[n].symbol = ledger.fills[m].symbol
                         /\ ledger.fills[n].side = "sell" /\ ledger.fills[m].side = "buy"
                         => ledger.fills[m].time - ledger.fills[n].time > Cooldown)'
    BY DEF CooldownRespected
  <1>1. kind = "trend"
    BY LedgerUnchanged DEF Execute, config
  <1>2. CASE UNCHANGED ledger
    BY <1>1, <1>2 DEF CooldownRespected
  <1>3. CASE Execute
    <2> DEFINE f == FillOf(Head(intents))
               fills == ledger.fills
    <2>1. /\ f \in Fill /\ f.time = index + 1 /\ f.symbol = Symbol
          /\ f.side = Head(intents).side
          /\ DOMAIN fills = 1..Len(fills) /\ Len(fills) \in Nat
          /\ DOMAIN ledger'.fills = 1..(Len(fills) + 1)
          /\ \A n \in 1..Len(fills) : ledger'.fills[n] = fills[n]
          /\ ledger'.fills[Len(fills) + 1] = f
          /\ \A n \in 1..Len(fills) : fills[n] \in Fill
      BY <1>3, ExecuteEffect
    <2>2. /\ index \in Nat /\ values.lastExit \in Nat \cup {-1} /\ Cooldown \in Nat
          /\ at = "execute" /\ intents # <<>>
      BY <1>3, StrategiesAssumption DEF TypeOK, Values, Execute
    <2>3. \A n \in 1..Len(fills) : fills[n].time \in Nat
      BY <2>1 DEF Fill
    <2>4. ASSUME f.side = "buy", NEW n \in 1..Len(fills), fills[n].symbol = f.symbol,
                 fills[n].side = "sell"
          PROVE  f.time - fills[n].time > Cooldown
      <3>1. ~CoolingDown(index, values)
        <4>1. Head(intents).side = "buy"
          BY <2>1, <2>4
        <4>2. MarketSell(Symbol, Position.quantity).side = "sell"
          BY DEF MarketSell
        <4> QED
          BY <1>1, <2>2, <4>1, <4>2 DEF TrendBatch
      <3>2. values.lastExit # -1 /\ fills[n].time <= values.lastExit + 1
        BY <1>1, <2>1, <2>2, <2>4 DEF SalesKnown
      <3>3. index - values.lastExit > Cooldown
        BY <2>2, <3>1, <3>2 DEF CoolingDown
      <3>4. f.time = index + 1 /\ fills[n].time \in Nat
        BY <2>1, <2>3
      <3>5. values.lastExit \in Nat
        BY <2>2, <3>2
      <3> HIDE DEF f, fills
      <3> QED
        BY <2>2, <3>2, <3>3, <3>4, <3>5, LongAfter
    <2>5. \A n, m \in 1..Len(fills) :
            /\ n < m /\ fills[n].symbol = fills[m].symbol
            /\ fills[n].side = "sell" /\ fills[m].side = "buy"
            => fills[m].time - fills[n].time > Cooldown
      BY <1>1, <2>1 DEF CooldownRespected
    <2> HIDE DEF f, fills
    <2>6. \A n, m \in 1..(Len(fills) + 1) :
            n < m => n \in 1..Len(fills) /\ (m = Len(fills) + 1 \/ m \in 1..Len(fills))
      BY <2>1
    <2> QED
      BY <2>1, <2>4, <2>5, <2>6
  <1> QED
    BY <1>2, <1>3, LedgerUnchanged

-----------------------------------------------------------------------------
(* The ledger never refuses. *)

(* A quotient is at least 1 when the dividend is not below the divisor. *)
LEMMA RoundDivPositive ==
  ASSUME NEW n \in Nat, NEW d \in Nat \ {0}, n >= d
  PROVE  RoundDiv(n, d) \in Nat \ {0}
  <1>1. n \div d \in Nat \ {0}
    BY Z3
  <1> QED
    BY <1>1 DEF RoundDiv

(* A purchase always has a price. *)
LEMMA PurchasePrice ==
  ASSUME TypeOK, at = "execute", NEW i \in Intent, i.side = "buy"
  PROVE  EligiblePrice(i, next, slippage) # 0
  <1>1. next.open \in Nat \ {0} /\ slippage \in Nat
    BY BacktestEngineAssumption DEF TypeOK
  <1>2. i.limit \in Nat
    BY DEF Intent
  <1>3. MarketPrice("buy", next.open, slippage) # 0
    <2>1. next.open * (One + slippage) \in Nat /\ next.open * (One + slippage) >= One
      BY <1>1, MultipleAtLeast
    <2>2. RoundDiv(next.open * (One + slippage), One) # 0
      BY <2>1, RoundDivPositive
    <2> QED
      BY <2>2 DEF MarketPrice
  <1> QED
    BY <1>1, <1>2, <1>3 DEF EligiblePrice, Smaller

(* What is filled is taken. *)
LEMMA FilledAccepted == TypeOK => LedgerAccepts
  <1> SUFFICES ASSUME TypeOK, at = "execute", intents # <<>>, Filled(Head(intents))
               PROVE  Accepts(ledger, FillOf(Head(intents)))
    BY DEF LedgerAccepts
  <1> DEFINE i == Head(intents)
             f == FillOf(i)
  <1>1. i \in Intent
    BY DEF TypeOK
  <1>2. /\ Symbol \in Symbols /\ i.symbol \in Symbols /\ i.side \in {"buy", "sell"}
        /\ ledger \in Ledgers
    BY <1>1, HereType DEF Intent
  <1>3. f.price = EligiblePrice(i, next, slippage) /\ f.price \in Nat
    BY <1>1, PriceType DEF FillOf, FillAt
  <1>4. f.price # 0 \/ i.side = "sell"
    BY <1>1, <1>2, <1>3, PurchasePrice
  <1>5. f.quantity \in Nat
    <2>1. f.quantity = Quantity(i, universe[turn].weight, f.price, ledger)
      BY <1>3 DEF FillOf, FillAt
    <2> QED
      BY <1>1, <1>2, <1>3, <1>4, <2>1, QuantityType
  <1>6. f.symbol = Symbol /\ f.side = i.side /\ Fillable(f, ledger)
    BY DEF FillOf, FillAt, Filled
  <1> HIDE DEF f
  <1> QED
    BY <1>2, <1>3, <1>5, <1>6, FillableAccepted DEF f

-----------------------------------------------------------------------------
(* The inductive invariant. *)

(* It holds initially: nothing is held, nothing was traded. *)
LEMMA InitInv == Init => IInv
  <1> SUFFICES ASSUME Init PROVE IInv
    OBVIOUS
  <1>1. TypeOK
    BY InitType
  <1>2. /\ at = "open" /\ ledger.fills = <<>>
        /\ \A s \in Symbols : ledger.positions[s].quantity = 0
    <2>1. PICK cash \in Capitals : ledger = NewLedger(cash)
      BY DEF Init
    <2> QED
      BY <2>1 DEF Init, NewLedger, Flat
  <1>3. \A k \in DOMAIN universe : universe[k].symbol \in Symbols
    BY <1>1, UniverseType
  <1>4. LaterUntouched
    BY <1>2, <1>3 DEF LaterUntouched
  <1>5. ReversionReady /\ StopPending /\ TrendBatch /\ SalesKnown
    BY <1>2 DEF ReversionReady, StopPending, TrendBatch, SalesKnown
  <1>6. CooldownRespected
    BY <1>2 DEF CooldownRespected
  <1> QED
    BY <1>1, <1>4, <1>5, <1>6 DEF IInv

(* Every step keeps it. *)
LEMMA NextInv == IInv /\ [Next]_vars => IInv'
  BY NextType, NextLater, NextReady, NextStop, NextTrendBatch, NextSales, NextCooldown
     DEF IInv

(* IInv is invariant. *)
THEOREM Invariance == Spec => []IInv
  BY InitInv, NextInv, PTL DEF Spec

(* The ledger keeps its type: neither cash nor inventory is ever negative   *)
(* (backtest/ledger.py:35-57).                                              *)
THEOREM LedgerTypeCorrect == Spec => []TypeOK
  <1>1. IInv => TypeOK
    BY DEF IInv
  <1> QED
    BY <1>1, Invariance, PTL

(* No position outlives a candle that closed at or below its stop           *)
(* (strategies/trend.py:43-58, mean_reversion.py:67-70, grid.py:72-78).     *)
THEOREM StopsAlwaysHonoured == Spec => []StopsHonoured
  <1>1. IInv => StopsHonoured
    BY DEF IInv, StopPending, StopsHonoured
  <1> QED
    BY <1>1, Invariance, PTL

(* The trend strategy keeps its cooldown between an exit and the next entry *)
(* of the same symbol, however the orders in between were filled or dropped *)
(* (strategies/trend.py:27-32, backtest/engine.py:131-152).                 *)
THEOREM CooldownAlwaysRespected == Spec => []CooldownRespected
  <1>1. IInv => CooldownRespected
    BY DEF IInv
  <1> QED
    BY <1>1, Invariance, PTL

(* The execution model never lets through what the ledger would refuse      *)
(* (backtest/execution.py:29-33, backtest/ledger.py:36-51).                 *)
THEOREM LedgerNeverRefuses == Spec => []LedgerAccepts
  <1>1. IInv => LedgerAccepts
    BY FilledAccepted DEF IInv
  <1> QED
    BY <1>1, Invariance, PTL

-----------------------------------------------------------------------------
(* The indices a fold goes through. *)

(* The greatest of some of the first n indices. *)
LEMMA MaxOfIndices ==
  ASSUME NEW n \in Nat, NEW s \in SUBSET (1..n), s # {}
  PROVE  Max(s) \in s /\ \A m \in s : Max(s) >= m
  <1>1. s \in SUBSET (0..n)
    OBVIOUS
  <1>2. \E x \in s : \A m \in s : x >= m
    BY <1>1, GreatestOfNat
  <1> QED
    BY <1>2 DEF Max

(* The first n + 1 indices without the last one. *)
LEMMA LastIndex ==
  ASSUME NEW n \in Nat
  PROVE  /\ 1..(n + 1) # {} /\ Max(1..(n + 1)) = n + 1
         /\ (1..(n + 1)) \ {n + 1} = 1..n
  <1>1. n + 1 \in Nat /\ 1..(n + 1) # {} /\ 1..(n + 1) \in SUBSET (1..(n + 1))
    OBVIOUS
  <1>2. /\ Max(1..(n + 1)) \in 1..(n + 1)
        /\ \A j \in 1..(n + 1) : Max(1..(n + 1)) >= j
    BY <1>1, MaxOfIndices
  <1>3. n + 1 \in 1..(n + 1)
    OBVIOUS
  <1>4. ASSUME NEW k PROVE k \in (1..(n + 1)) \ {n + 1} <=> k \in 1..n
    OBVIOUS
  <1> QED
    BY <1>1, <1>2, <1>3, <1>4

(* Any of the first n + 1 indices without the greatest are of the first n. *)
LEMMA WithoutLast ==
  ASSUME NEW n \in Nat, NEW s \in SUBSET (1..(n + 1)), s # {}
  PROVE  s \ {Max(s)} \in SUBSET (1..n)
  <1>1. Max(s) \in s /\ \A m \in s : Max(s) >= m
    <2>1. n + 1 \in Nat
      OBVIOUS
    <2> QED
      BY <2>1, MaxOfIndices
  <1>2. ASSUME NEW m \in s \ {Max(s)} PROVE m \in 1..n
    <2>1. m \in 1..(n + 1) /\ Max(s) \in 1..(n + 1) /\ Max(s) >= m /\ Max(s) # m
      BY <1>1
    <2> QED
      BY <2>1
  <1> QED
    BY <1>2

-----------------------------------------------------------------------------
(* What a strategy asks for are orders. *)

(* Sorting gives a sequence of the elements. *)
LEMMA AscendingType ==
  ASSUME NEW S \in SUBSET Nat, IsFiniteSet(S)
  PROVE  Ascending(S) \in Seq(S) /\ Reverse(Ascending(S)) \in Seq(S)
  <1>1. PICK n \in Nat : n = Cardinality(S)
    BY FS_CardinalityType
  <1>2. \E f \in [1..n -> S] : \A i, j \in DOMAIN f : i < j => f[i] < f[j]
    <2>1. PICK f \in [1..n -> S] : \A i, j \in 1..n : i < j => f[i] < f[j]
      BY <1>1, OrderExists
    <2> QED
      BY <2>1
  <1> DEFINE a == Ascending(S)
  <1>3. a \in [1..n -> S]
    BY <1>1, <1>2 DEF Ascending
  <1> HIDE DEF a
  <1>4. a \in Seq(S) /\ Len(a) = n
    BY <1>3
  <1>5. Reverse(a) = [i \in 1..n |-> a[(n - i) + 1]]
    BY <1>4 DEF Reverse
  <1>6. \A i \in 1..n : (n - i) + 1 \in 1..n
    OBVIOUS
  <1>7. Reverse(a) \in [1..n -> S]
    BY <1>3, <1>5, <1>6
  <1>8. Reverse(a) \in Seq(S)
    BY <1>7
  <1> QED
    BY <1>4, <1>8 DEF a

Crossing == [side : {"buy", "sell"}, level : Nat]

(* The levels of the grid are finitely many prices. *)
LEMMA LevelsType ==
  Levels \in SUBSET Nat /\ IsFiniteSet(Levels)
  <1> DEFINE step == RoundDiv(UpperBound - LowerBound, GridCount)
  <1>1. step \in Nat /\ LowerBound \in Nat /\ GridCount \in Nat
    <2>1. UpperBound - LowerBound \in Nat /\ GridCount \in Nat \ {0} /\ LowerBound \in Nat
      BY StrategiesAssumption
    <2> QED
      BY <2>1, RoundDivNat
  <1>2. ASSUME NEW i \in 0..GridCount PROVE Level(i) \in Nat
    <2>1. i \in Nat /\ step * i \in Nat
      BY <1>1, NatProduct
    <2>2. Level(i) = LowerBound + step * i
      BY DEF Level
    <2> HIDE DEF step
    <2> QED
      BY <1>1, <2>1, <2>2
  <1>3. Levels \in SUBSET Nat
    BY <1>2 DEF Levels
  <1>4. IsFiniteSet(0..GridCount)
    BY <1>1, FS_Interval
  <1> DEFINE f == [i \in 0..GridCount |-> Level(i)]
  <1>5. IsFiniteSet({f[x] : x \in 0..GridCount})
    BY <1>4, ImageOfFinite
  <1>6. Levels = {f[x] : x \in 0..GridCount}
    BY DEF Levels
  <1> QED
    BY <1>3, <1>5, <1>6

(* What a candle crosses. *)
LEMMA CrossedType ==
  ASSUME NEW c
  PROVE  CrossedLevels(c) \in Seq(Crossing)
  <1>1. ASSUME NEW side \in {"buy", "sell"}, NEW levels \in Seq(Nat)
        PROVE  Crossings(side, levels) \in Seq(Crossing)
    <2>1. PICK n \in Nat : levels \in [1..n -> Nat]
      <3>1. levels \in [1..Len(levels) -> Nat] /\ Len(levels) \in Nat
        OBVIOUS
      <3> QED
        BY <3>1
    <2>2. Crossings(side, levels) \in [1..n -> Crossing]
      BY <2>1 DEF Crossings, Crossing
    <2> QED
      BY <2>2
  <1>2. ASSUME NEW S \in SUBSET Levels
        PROVE  Ascending(S) \in Seq(Nat) /\ Reverse(Ascending(S)) \in Seq(Nat)
    <2>1. S \in SUBSET Nat /\ IsFiniteSet(S)
      BY LevelsType, FS_Subset
    <2>2. Ascending(S) \in Seq(S) /\ Reverse(Ascending(S)) \in Seq(S)
      BY <2>1, AscendingType
    <2>3. ASSUME NEW q \in Seq(S) PROVE q \in Seq(Nat)
      <3>1. PICK n \in Nat : q \in [1..n -> S]
        <4>1. q \in [1..Len(q) -> S] /\ Len(q) \in Nat
          OBVIOUS
        <4> QED
          BY <4>1
      <3>2. q \in [1..n -> Nat]
        BY <2>1, <3>1
      <3> QED
        BY <3>2
    <2> QED
      BY <2>2, <2>3
  <1>3. ASSUME NEW start, NEW end
        PROVE  CrossedOn(start, end) \in Seq(Crossing)
    <2> DEFINE down == {l \in Levels : end <= l /\ l < start}
               up == {l \in Levels : start < l /\ l <= end}
    <2>1. down \in SUBSET Levels /\ up \in SUBSET Levels
      OBVIOUS
    <2>2. CrossedOn(start, end) =
            Crossings("buy", Reverse(Ascending(down))) \o Crossings("sell", Ascending(up))
      BY DEF CrossedOn
    <2> HIDE DEF down, up
    <2>3. /\ Crossings("buy", Reverse(Ascending(down))) \in Seq(Crossing)
          /\ Crossings("sell", Ascending(up)) \in Seq(Crossing)
      BY <2>1, <1>1, <1>2
    <2> QED
      BY <2>2, <2>3
  <1> DEFINE path == Path(c)
             leg(k) == CrossedOn(path[k], path[k + 1])
  <1>4. CrossedLevels(c) = CrossedOn(path[1], path[2]) \o CrossedOn(path[2], path[3])
                             \o CrossedOn(path[3], path[4])
    BY DEF CrossedLevels
  <1> HIDE DEF path
  <1>5. /\ CrossedOn(path[1], path[2]) \in Seq(Crossing)
        /\ CrossedOn(path[2], path[3]) \in Seq(Crossing)
        /\ CrossedOn(path[3], path[4]) \in Seq(Crossing)
    BY <1>3
  <1> QED
    BY <1>4, <1>5

(* What a batch has come to: the orders so far, what they buy and what they leave. *)
Batch == [inventory : Nat, held : Nat, intents : Seq(Intent)]

(* A crossing adds an order, or nothing. *)
LEMMA TakeType ==
  ASSUME NEW symbol \in Symbols, NEW size \in Nat, NEW b \in Batch, NEW x \in Crossing
  PROVE  TakeCrossing(symbol, size, b, x) \in Batch
  <1>1. CapitalPerGrid \in 1..One
    BY StrategiesAssumption
  <1>2. x.side \in {"buy", "sell"} /\ x.level \in Nat
    BY DEF Crossing
  <1>3. BuyAt(symbol, x.level) \in Intent
    BY <1>1, <1>2 DEF BuyAt, Intent
  <1>4. size > 0 => SellAt(symbol, size, x.level) \in Intent
    <2>1. SellAt(symbol, size, x.level) \in
            [symbol : Symbols, side : {"buy", "sell"}, allocation : 0..One,
             quantity : Nat, limit : Nat]
      BY <1>2 DEF SellAt
    <2>2. SellAt(symbol, size, x.level).quantity = size
      BY DEF SellAt
    <2> QED
      BY <2>1, <2>2 DEF Intent
  <1>5. b.inventory \in Nat /\ b.held \in Nat /\ b.intents \in Seq(Intent)
    BY DEF Batch
  <1>6. CASE x.side = "buy" /\ b.inventory < MaximumInventory
    <2>1. TakeCrossing(symbol, size, b, x) =
            [b EXCEPT !.inventory = @ + CapitalPerGrid,
                      !.intents = Append(@, BuyAt(symbol, x.level))]
      BY <1>6 DEF TakeCrossing
    <2>2. b.inventory + CapitalPerGrid \in Nat /\ Append(b.intents, BuyAt(symbol, x.level)) \in Seq(Intent)
      BY <1>1, <1>3, <1>5
    <2> QED
      BY <2>1, <2>2 DEF Batch
  <1>7. CASE x.side = "sell" /\ size > 0 /\ b.held >= size
    <2>1. TakeCrossing(symbol, size, b, x) =
            [b EXCEPT !.held = @ - size,
                      !.intents = Append(@, SellAt(symbol, size, x.level))]
      BY <1>7 DEF TakeCrossing
    <2>2. b.held - size \in Nat /\ Append(b.intents, SellAt(symbol, size, x.level)) \in Seq(Intent)
      BY <1>4, <1>5, <1>7
    <2> QED
      BY <2>1, <2>2 DEF Batch
  <1>8. CASE /\ ~(x.side = "buy" /\ b.inventory < MaximumInventory)
             /\ ~(x.side = "sell" /\ size > 0 /\ b.held >= size)
    BY <1>8 DEF TakeCrossing
  <1> QED
    BY <1>6, <1>7, <1>8

(* g has the batch after the crossings with the given indices. *)
IsBatch(g, symbol, size, quantity, crossings) ==
  g = [s \in SUBSET DOMAIN crossings |->
         IF s = {} THEN [inventory |-> 0, held |-> quantity, intents |-> <<>>]
         ELSE TakeCrossing(symbol, size, g[s \ {Max(s)}], crossings[Max(s)])]

(* The library's definition of a fold. *)
LEMMA OrdersUnfold ==
  ASSUME NEW symbol, NEW c, NEW quantity
  PROVE  GridOrders(symbol, c, quantity) =
           (CHOOSE g : IsBatch(g, symbol, RoundDiv(quantity, GridCount), quantity,
                               CrossedLevels(c)))[DOMAIN CrossedLevels(c)].intents
  BY DEF GridOrders, FoldLeft, MapThenFoldSet, IsBatch

(* The batches exist: each comes from one with a crossing less. *)
LEMMA BatchExists ==
  ASSUME NEW symbol, NEW size, NEW quantity, NEW crossings, NEW n \in Nat,
         DOMAIN crossings = 1..n
  PROVE  \E g : IsBatch(g, symbol, size, quantity, crossings)
  <1> DEFINE Body(g, s) ==
               IF s = {} THEN [inventory |-> 0, held |-> quantity, intents |-> <<>>]
               ELSE TakeCrossing(symbol, size, g[s \ {Max(s)}], crossings[Max(s)])
             Upto(g, k) == g = [s \in SUBSET (1..k) |-> Body(g, s)]
             Good == {k \in Nat : \E g : Upto(g, k)}
  <1>1. 0 \in Good
    <2> DEFINE g == [s \in SUBSET (1..0) |->
                       [inventory |-> 0, held |-> quantity, intents |-> <<>>]]
    <2>1. ASSUME NEW s \in SUBSET (1..0) PROVE s = {}
      OBVIOUS
    <2>2. Upto(g, 0)
      BY <2>1
    <2> HIDE DEF g, Upto
    <2> QED
      BY <2>2
  <1>2. ASSUME NEW k \in Nat, k \in Good PROVE k + 1 \in Good
    <2>1. PICK g : Upto(g, k)
      <3> HIDE DEF Upto
      <3> QED
        BY <1>2
    <2> DEFINE h == [s \in SUBSET (1..(k + 1)) |-> Body(g, s)]
    <2>2. ASSUME NEW s \in SUBSET (1..k) PROVE s \in SUBSET (1..(k + 1)) /\ h[s] = g[s]
      <3>1. s \in SUBSET (1..(k + 1))
        OBVIOUS
      <3>2. g[s] = Body(g, s)
        BY <2>1
      <3> QED
        BY <3>1, <3>2
    <2>3. ASSUME NEW s \in SUBSET (1..(k + 1)), s # {} PROVE s \ {Max(s)} \in SUBSET (1..k)
      BY <2>3, WithoutLast
    <2>4. ASSUME NEW s \in SUBSET (1..(k + 1)) PROVE  h[s] = Body(h, s)
      <3>1. CASE s = {}
        BY <3>1
      <3>2. CASE s # {}
        <4>1. h[s \ {Max(s)}] = g[s \ {Max(s)}]
          BY <3>2, <2>2, <2>3
        <4>2. h[s] = TakeCrossing(symbol, size, g[s \ {Max(s)}], crossings[Max(s)])
          BY <3>2
        <4> HIDE DEF h
        <4> QED
          BY <4>1, <4>2, <3>2
      <3> QED
        BY <3>1, <3>2
    <2>5. h = [s \in SUBSET (1..(k + 1)) |-> h[s]]
      OBVIOUS
    <2> HIDE DEF h, Body
    <2>6. Upto(h, k + 1)
      BY <2>4, <2>5
    <2> HIDE DEF Upto
    <2> QED
      BY <2>6
  <1>3. n \in Good
    <2> HIDE DEF Good
    <2> QED
      BY <1>1, <1>2, InductionOnNat
  <1>4. PICK g : Upto(g, n)
    <2> HIDE DEF Upto
    <2> QED
      BY <1>3
  <1> QED
    BY <1>4 DEF IsBatch

(* A grid asks for orders, however many levels a candle crosses. *)
LEMMA GridOrdersType ==
  ASSUME NEW symbol \in Symbols, NEW c, NEW quantity \in Nat
  PROVE  GridOrders(symbol, c, quantity) \in Seq(Intent)
  <1> DEFINE size == RoundDiv(quantity, GridCount)
             crossings == CrossedLevels(c)
  <1>1. size \in Nat
    <2>1. GridCount \in Nat \ {0}
      BY StrategiesAssumption
    <2> QED
      BY <2>1, RoundDivNat
  <1>2. crossings \in Seq(Crossing)
    BY CrossedType, SMTT(30)
  <1> HIDE DEF size, crossings
  <1>3. PICK n \in Nat : crossings \in [1..n -> Crossing]
    <2>1. crossings \in [1..Len(crossings) -> Crossing] /\ Len(crossings) \in Nat
      BY <1>2
    <2> QED
      BY <2>1
  <1>4. PICK g : /\ IsBatch(g, symbol, size, quantity, crossings)
                 /\ GridOrders(symbol, c, quantity) = g[1..n].intents
    <2>1. DOMAIN crossings = 1..n
      BY <1>3
    <2>2. GridOrders(symbol, c, quantity) =
            (CHOOSE g : IsBatch(g, symbol, size, quantity, crossings))[1..n].intents
      BY <2>1, OrdersUnfold DEF size, crossings
    <2>3. \E g : IsBatch(g, symbol, size, quantity, crossings)
      BY <2>1, BatchExists
    <2> QED
      BY <2>2, <2>3
  <1> DEFINE Good == {k \in Nat : k <= n => g[1..k] \in Batch}
  <1>5. 0 \in Good
    <2>1. 1..0 = {} /\ {} \in SUBSET (1..n)
      OBVIOUS
    <2>2. g[1..0] = [inventory |-> 0, held |-> quantity, intents |-> <<>>]
      BY <1>3, <1>4, <2>1 DEF IsBatch
    <2>3. [inventory |-> 0, held |-> quantity, intents |-> <<>>] \in Batch
      <3>1. <<>> \in Seq(Intent)
        OBVIOUS
      <3> QED
        BY <3>1 DEF Batch
    <2>4. g[1..0] \in Batch
      BY <2>2, <2>3
    <2> QED
      BY <2>4
  <1>6. ASSUME NEW k \in Nat, k \in Good PROVE k + 1 \in Good
    <2> SUFFICES ASSUME k + 1 <= n PROVE g[1..(k + 1)] \in Batch
      OBVIOUS
    <2>1. 1..(k + 1) \in SUBSET (1..n) /\ 1..(k + 1) # {} /\ k + 1 \in 1..n
      OBVIOUS
    <2>2. Max(1..(k + 1)) = k + 1 /\ (1..(k + 1)) \ {k + 1} = 1..k
      BY LastIndex
    <2>3. DOMAIN crossings = 1..n /\ crossings[k + 1] \in Crossing
      BY <1>3, <2>1
    <2>4. g[1..(k + 1)] = TakeCrossing(symbol, size, g[1..k], crossings[k + 1])
      BY <1>4, <2>1, <2>2, <2>3, ZenonT(40) DEF IsBatch
    <2>5. g[1..k] \in Batch
      BY <1>6
    <2> QED
      BY <1>1, <2>3, <2>4, <2>5, TakeType
  <1>7. n \in Good
    <2> HIDE DEF Good
    <2> QED
      BY <1>5, <1>6, InductionOnNat
  <1>8. g[1..n] \in Batch
    BY <1>7
  <1> QED
    BY <1>4, <1>8 DEF Batch

(* A share of the cash. *)
LEMMA ShareOfOne ==
  ASSUME NEW n \in 1..One
  PROVE  RoundDiv(One, n) \in 1..One
  <1>1. n \in Nat \ {0} /\ One \in Nat \ {0} /\ One >= n
    OBVIOUS
  <1>2. RoundDiv(One, n) \in Nat \ {0}
    BY <1>1, RoundDivPositive
  <1>3. RoundDiv(One, n) <= One
    <2>1. CASE n = 1
      <3>1. One \div 1 = One /\ One % 1 = 0
        OBVIOUS
      <3> QED
        BY <2>1, <3>1 DEF RoundDiv
    <2>2. CASE n > 1
      <3>1. One \div n \in Nat /\ One \div n < One
        BY <1>1, <2>2, Z3
      <3> QED
        BY <3>1 DEF RoundDiv
    <2> QED
      BY <1>1, <2>1, <2>2
  <1> QED
    BY <1>2, <1>3

(* Whatever a strategy asks for is an order its model accepts. *)
LEMMA GenerateType ==
  ASSUME TypeOK, NEW signal \in Signals
  PROVE  Generate(kind, Symbol, index, candle, Position, BeforeDecision, signal) \in Seq(Intent)
  <1> DEFINE close == candle.close
             v == BeforeDecision
  <1>1. Symbol \in Symbols /\ Position.quantity \in Nat
    BY HereType
  <1>2. Position.quantity > 0 => <<MarketSell(Symbol, Position.quantity)>> \in Seq(Intent)
    <2> SUFFICES ASSUME Position.quantity > 0
                 PROVE  MarketSell(Symbol, Position.quantity) \in Intent
      OBVIOUS
    <2>1. MarketSell(Symbol, Position.quantity) \in
            [symbol : Symbols, side : {"buy", "sell"}, allocation : 0..One,
             quantity : Nat, limit : Nat]
      BY <1>1 DEF MarketSell
    <2>2. MarketSell(Symbol, Position.quantity).quantity = Position.quantity
      BY DEF MarketSell
    <2> QED
      BY <1>1, <2>1, <2>2 DEF Intent
  <1>3. ASSUME NEW share \in 1..One PROVE <<MarketBuy(Symbol, share)>> \in Seq(Intent)
    <2>1. MarketBuy(Symbol, share) \in
            [symbol : Symbols, side : {"buy", "sell"}, allocation : 0..One,
             quantity : Nat, limit : Nat]
      BY <1>1 DEF MarketBuy
    <2>2. MarketBuy(Symbol, share).allocation = share
      BY DEF MarketBuy
    <2> QED
      BY <2>1, <2>2 DEF Intent
  <1>4. <<>> \in Seq(Intent)
    OBVIOUS
  <1>5. CASE kind = "trend"
    <2>1. EntryAllocation \in 1..One
      BY StrategiesAssumption
    <2>2. TrendIntents(Symbol, index, close, Position, v, signal) \in Seq(Intent)
      BY <1>2, <1>3, <1>4, <2>1 DEF TrendIntents
    <2> QED
      BY <1>5, <2>2 DEF Generate
  <1>6. CASE kind = "mean_reversion"
    <2>1. RoundDiv(One, StagedEntries) \in 1..One
      BY ShareOfOne, StrategiesAssumption
    <2>2. ReversionIntents(Symbol, index, close, Position, v, signal) \in Seq(Intent)
      BY <1>2, <1>3, <1>4, <2>1 DEF ReversionIntents
    <2> QED
      BY <1>6, <2>2 DEF Generate
  <1>7. CASE kind = "grid"
    <2>1. GridOrders(Symbol, candle, Position.quantity) \in Seq(Intent)
      BY <1>1, GridOrdersType
    <2>2. GridIntents(Symbol, candle, Position) \in Seq(Intent)
      BY <1>2, <1>4, <2>1 DEF GridIntents
    <2> QED
      BY <1>7, <2>2 DEF Generate
  <1> QED
    BY <1>5, <1>6, <1>7, BacktestEngineAssumption DEF TypeOK

-----------------------------------------------------------------------------
(* A run raises for a sale without a price only. *)

(* Half of the divisor and more is rounded to something. *)
LEMMA HalfRoundsUp ==
  ASSUME NEW n \in Nat, NEW d \in Nat \ {0}, 2 * n > d
  PROVE  RoundDiv(n, d) # 0
  <1>1. CASE n >= d
    BY <1>1, RoundDivPositive
  <1>2. CASE n < d
    <2>1. n \div d = 0 /\ n % d = n
      BY <1>2, Z3
    <2> QED
      BY <2>1 DEF RoundDiv
  <1> QED
    BY <1>1, <1>2

(* What is left of a price is something, but for slippage of all of it. *)
LEMMA SalePrice ==
  ASSUME TypeOK, at = "execute", NEW i \in Intent, EligiblePrice(i, next, slippage) = 0
  PROVE  slippage = One /\ i.side = "sell"
  <1>1. next \in Candles /\ next.open \in Nat \ {0} /\ slippage \in Slippages /\ slippage \in 0..One
    BY BacktestEngineAssumption DEF TypeOK
  <1>2. i.limit \in Nat /\ i.side = "sell"
    BY PurchasePrice DEF Intent
  <1>3. i.limit = 0
    BY <1>1, <1>2 DEF EligiblePrice, Larger
  <1>4. RoundDiv(next.open * (One - slippage), One) = 0
    BY <1>2, <1>3 DEF EligiblePrice, MarketPrice
  <1>5. ASSUME slippage # One PROVE FALSE
    <2> DEFINE left == next.open * (One - slippage)
    <2>1. One - slippage \in Nat /\ slippage < One
      BY <1>1, <1>5
    <2>2. left \in Nat
      BY <1>1, <2>1, NatProduct
    <2>3. 2 * left > One
      <3>1. 2 * next.open * (One - slippage) > One
        BY <1>1, <2>1, BacktestEngineAssumption
      <3>2. 2 * next.open * (One - slippage) = 2 * left
        BY <1>1, <2>1, Z3
      <3> QED
        BY <3>1, <3>2
    <2>4. RoundDiv(left, One) = 0
      BY <1>4
    <2> HIDE DEF left
    <2> QED
      BY <2>2, <2>3, <2>4, HalfRoundsUp
  <1> QED
    BY <1>2, <1>5

(* Only a sale without a price makes a step raise. *)
LEMMA NextRaised ==
  TypeOK /\ OnlyPricelessSalesRaise /\ [Next]_vars => OnlyPricelessSalesRaise'
  <1> SUFFICES ASSUME TypeOK, OnlyPricelessSalesRaise, [Next]_vars, at' = "raised"
               PROVE  slippage' = One /\ intents' # <<>> /\ Head(intents').side = "sell"
    BY DEF OnlyPricelessSalesRaise
  <1>1. CASE Raise
    <2> DEFINE i == Head(intents)
               f == FillOf(i)
    <2>1. /\ at = "execute" /\ intents # <<>> /\ Filled(i) /\ ~(f.price > 0 /\ Accepts(ledger, f))
          /\ UNCHANGED <<slippage, intents>>
      BY <1>1 DEF Raise, config
    <2>2. i \in Intent
      BY <2>1 DEF TypeOK
    <2>3. Accepts(ledger, f)
      BY <2>1, FilledAccepted DEF LedgerAccepts
    <2>4. f.price = EligiblePrice(i, next, slippage) /\ f.price \in Nat
      BY <2>2, PriceType DEF FillOf, FillAt
    <2>5. EligiblePrice(i, next, slippage) = 0
      BY <2>1, <2>3, <2>4
    <2> QED
      BY <2>1, <2>2, <2>5, SalePrice
  <1>2. CASE Decide
    <2>1. PICK c \in Candles, signal \in Signals : DecideOn(c, signal)
      BY <1>2 DEF Decide
    <2>2. at' = "execute"
      BY <2>1, GenerateType DEF DecideOn
    <2> QED
      BY <2>2
  <1>3. CASE Terminated \/ UNCHANGED vars
    BY <1>3 DEF Terminated, vars, config, OnlyPricelessSalesRaise
  <1>4. CASE OpenSymbol \/ Drop \/ Execute \/ NextCandle \/ SymbolDone
    BY <1>4 DEF OpenSymbol, Drop, Execute, NextCandle, SymbolDone, config
  <1> QED
    BY <1>1, <1>2, <1>3, <1>4 DEF Next

(* A run raises only for a sale whose price slippage took away entirely:    *)
(* every order a strategy asks for, the grid's for any number of crossed    *)
(* levels included, is one OrderIntent accepts (backtest/types.py:32-49),   *)
(* and every other fill has a price (backtest/execution.py:34-42,86).       *)
THEOREM OnlyPricelessSalesEverRaise == Spec => []OnlyPricelessSalesRaise
  <1>1. Init => OnlyPricelessSalesRaise
    BY DEF Init, OnlyPricelessSalesRaise
  <1>2. IInv /\ OnlyPricelessSalesRaise /\ [Next]_vars => OnlyPricelessSalesRaise'
    BY NextRaised DEF IInv
  <1> QED
    BY <1>1, <1>2, Invariance, PTL DEF Spec

-----------------------------------------------------------------------------
(* A fill, and the arithmetic of its share of the cost. *)

(* What the ledger is after a fill. *)
LEMMA ExecuteBooks ==
  ASSUME TypeOK, Execute
  PROVE  LET f == FillOf(Head(intents)) IN
         /\ Accepts(ledger, f) /\ ledger'.cash = CashAfter(ledger, f)
         /\ ledger'.initial = ledger.initial
         /\ Notional(f) \in Nat /\ Fee(f) \in Nat
  <1> DEFINE f == FillOf(Head(intents))
  <1>1. intents # <<>> /\ at = "execute" /\ Filled(Head(intents)) /\ f.price > 0
        /\ ledger' = Apply(ledger, f)
    BY DEF Execute
  <1>2. f \in Fill /\ Accepts(ledger, f)
    BY <1>1, FillType
  <1>3. ledger \in Ledgers
    BY HereType
  <1> HIDE DEF f
  <1>4. Notional(f) \in Nat /\ Fee(f) \in Nat
    BY <1>2, Amounts DEF Fill
  <1>5. ledger'.cash = CashAfter(ledger, f) /\ ledger'.initial = ledger.initial
    BY <1>1, <1>3 DEF Apply, Ledgers
  <1> QED
    BY <1>2, <1>4, <1>5 DEF f

(* A quotient of a product by one of its factors is exact. *)
LEMMA RoundDivExact ==
  ASSUME NEW c \in Int, NEW q \in Nat \ {0}
  PROVE  RoundDiv(c * q, q) = c
  <1>1. (c * q) \div q = c /\ (c * q) % q = 0
    BY Z3
  <1> QED
    BY <1>1 DEF RoundDiv

(* A rounded quotient of integers is an integer. *)
LEMMA RoundDivInt ==
  ASSUME NEW n \in Int, NEW d \in Nat \ {0}
  PROVE  RoundDiv(n, d) \in Int
  <1>1. n \div d \in Int
    BY Z3
  <1> QED
    BY <1>1 DEF RoundDiv

(* A quotient between whole numbers stays between them when it is rounded. *)
LEMMA RoundDivBetween ==
  ASSUME NEW n \in Nat, NEW d \in Nat \ {0}, NEW c \in Nat
  PROVE  /\ d * c <= n => c <= RoundDiv(n, d)
         /\ n <= d * c => RoundDiv(n, d) <= c
  <1> DEFINE q == n \div d
             r == n % d
  <1>1. q \in Nat /\ r \in 0..(d - 1) /\ n = d * q + r
    BY Z3
  <1>2. RoundDiv(n, d) = IF 2 * r > d \/ (2 * r = d /\ q % 2 = 1) THEN q + 1 ELSE q
    BY DEF RoundDiv
  <1> HIDE DEF q, r
  <1>3. ASSUME q + 1 <= c PROVE d * q + d <= d * c
    <2>1. PICK k \in Nat : c = q + 1 + k
      <3>1. c - (q + 1) \in Nat /\ c = q + 1 + (c - (q + 1))
        BY <1>1, <1>3
      <3> QED
        BY <3>1
    <2>2. d * c = d * q + d + d * k /\ d * k \in Nat
      BY <1>1, <2>1, Z3
    <2> QED
      BY <1>1, <2>2
  <1>4. ASSUME c + 1 <= q PROVE d * c + d <= d * q
    <2>1. PICK k \in Nat : q = c + 1 + k
      <3>1. q - (c + 1) \in Nat /\ q = c + 1 + (q - (c + 1))
        BY <1>1, <1>4
      <3> QED
        BY <3>1
    <2>2. d * q = d * c + d + d * k /\ d * k \in Nat
      BY <1>1, <2>1, Z3
    <2> QED
      BY <1>1, <2>2
  <1>5. d * c \in Nat /\ d * q \in Nat
    BY <1>1, NatProduct
  <1>6. ASSUME d * c <= n PROVE c <= q
    BY <1>1, <1>3, <1>5, <1>6
  <1>7. ASSUME n <= d * c PROVE q <= c /\ (q = c => r = 0)
    <2>1. q <= c
      BY <1>1, <1>4, <1>5, <1>7
    <2>2. q = c => r = 0
      BY <1>1, <1>5, <1>7
    <2> QED
      BY <2>1, <2>2
  <1> QED
    BY <1>1, <1>2, <1>6, <1>7

(* The rounded mean of two prices lies between them. *)
LEMMA MeanBetween ==
  ASSUME NEW held \in Nat, NEW more \in Nat \ {0}, NEW a \in Nat, NEW b \in Nat
  PROVE  LET mean == RoundDiv(held * a + more * b, held + more)
         IN  Smaller(a, b) <= mean /\ mean <= Larger(a, b)
  <1> DEFINE n == held * a + more * b
             d == held + more
  <1>1. n \in Nat /\ d \in Nat \ {0}
    BY NatProduct
  <1>2. ASSUME NEW k \in Nat, k <= a, k <= b PROVE d * k <= n
    <2>1. PICK i \in Nat, j \in Nat : a = k + i /\ b = k + j
      <3>1. a - k \in Nat /\ b - k \in Nat /\ a = k + (a - k) /\ b = k + (b - k)
        BY <1>2
      <3> QED
        BY <3>1
    <2>2. n = d * k + (held * i + more * j)
      BY <2>1, Z3
    <2>3. held * i \in Nat /\ more * j \in Nat /\ d * k \in Nat
      BY <1>1, NatProduct
    <2> QED
      BY <2>2, <2>3
  <1>3. ASSUME NEW k \in Nat, a <= k, b <= k PROVE n <= d * k
    <2>1. PICK i \in Nat, j \in Nat : k = a + i /\ k = b + j
      <3>1. k - a \in Nat /\ k - b \in Nat /\ k = a + (k - a) /\ k = b + (k - b)
        BY <1>3
      <3> QED
        BY <3>1
    <2>2. d * k = n + (held * i + more * j)
      <3>1. held * k = held * a + held * i
        BY <2>1, Z3
      <3>2. more * k = more * b + more * j
        BY <2>1, Z3
      <3>3. d * k = held * k + more * k
        BY Z3
      <3> QED
        BY <3>1, <3>2, <3>3, Z3
    <2>3. held * i \in Nat /\ more * j \in Nat /\ d * k \in Nat
      BY <1>1, NatProduct
    <2> QED
      BY <1>1, <2>2, <2>3
  <1>4. /\ Smaller(a, b) \in Nat /\ Smaller(a, b) <= a /\ Smaller(a, b) <= b
        /\ Larger(a, b) \in Nat /\ a <= Larger(a, b) /\ b <= Larger(a, b)
    BY DEF Smaller, Larger
  <1>5. d * Smaller(a, b) <= n /\ n <= d * Larger(a, b)
    BY <1>2, <1>3, <1>4
  <1> HIDE DEF n, d
  <1>6. Smaller(a, b) <= RoundDiv(n, d) /\ RoundDiv(n, d) <= Larger(a, b)
    BY <1>1, <1>4, <1>5, RoundDivBetween
  <1> QED
    BY <1>6 DEF n, d

(* A product of integers is an integer. *)
LEMMA IntProduct == \A a, b \in Int : a * b \in Int
  BY Z3

-----------------------------------------------------------------------------
(* The analysis replays the fills one by one. *)

Start(initial) ==
  [cash |-> initial, realized |-> 0,
   quantities |-> [s \in Symbols |-> 0], costs |-> [s \in Symbols |-> 0]]

(* g has the accounts after the fills with the given indices. *)
IsReplay(g, initial, fills) ==
  g = [s \in SUBSET DOMAIN fills |->
         IF s = {} THEN Start(initial)
         ELSE Replay(g[s \ {Max(s)}], fills[Max(s)])]

(* The library's definition of a fold. *)
LEMMA AnalysisUnfold ==
  ASSUME NEW initial, NEW fills
  PROVE  AnalyzeLedger(initial, fills) =
           (CHOOSE g : IsReplay(g, initial, fills))[DOMAIN fills]
  BY DEF AnalyzeLedger, FoldLeft, MapThenFoldSet, IsReplay, Start

(* The accounts exist: each comes from one with a fill less. *)
LEMMA ReplayExists ==
  ASSUME NEW initial, NEW fills, NEW n \in Nat, DOMAIN fills = 1..n
  PROVE  \E g : IsReplay(g, initial, fills)
  <1> DEFINE Body(g, s) == IF s = {} THEN Start(initial)
                           ELSE Replay(g[s \ {Max(s)}], fills[Max(s)])
             Upto(g, k) == g = [s \in SUBSET (1..k) |-> Body(g, s)]
             Good == {k \in Nat : k <= n => \E g : Upto(g, k)}
  <1>1. 0 \in Good
    <2> DEFINE g == [s \in SUBSET (1..0) |-> Start(initial)]
    <2>1. ASSUME NEW s \in SUBSET (1..0) PROVE s = {}
      OBVIOUS
    <2>2. Upto(g, 0)
      BY <2>1
    <2> HIDE DEF g, Upto
    <2> QED
      BY <2>2
  <1>2. ASSUME NEW k \in Nat, k \in Good, k + 1 <= n PROVE \E h : Upto(h, k + 1)
    <2>1. PICK g : Upto(g, k)
      <3> HIDE DEF Upto
      <3> QED
        BY <1>2
    <2> DEFINE h == [s \in SUBSET (1..(k + 1)) |-> Body(g, s)]
    <2>2. ASSUME NEW s \in SUBSET (1..k) PROVE s \in SUBSET (1..(k + 1)) /\ h[s] = g[s]
      <3>1. s \in SUBSET (1..(k + 1))
        OBVIOUS
      <3>2. g[s] = Body(g, s)
        BY <2>1
      <3> QED
        BY <3>1, <3>2
    <2>3. ASSUME NEW s \in SUBSET (1..(k + 1)), s # {} PROVE s \ {Max(s)} \in SUBSET (1..k)
      BY <2>3, WithoutLast
    <2>4. ASSUME NEW s \in SUBSET (1..(k + 1)) PROVE  h[s] = Body(h, s)
      <3>1. CASE s = {}
        BY <3>1
      <3>2. CASE s # {}
        <4>1. h[s \ {Max(s)}] = g[s \ {Max(s)}]
          BY <3>2, <2>2, <2>3
        <4>2. h[s] = Replay(g[s \ {Max(s)}], fills[Max(s)])
          BY <3>2
        <4> HIDE DEF h
        <4> QED
          BY <4>1, <4>2, <3>2
      <3> QED
        BY <3>1, <3>2
    <2>5. h = [s \in SUBSET (1..(k + 1)) |-> h[s]]
      OBVIOUS
    <2> HIDE DEF h, Body
    <2>6. Upto(h, k + 1)
      BY <2>4, <2>5
    <2> QED
      BY <2>6
  <1>3. n \in Good
    <2>1. ASSUME NEW k \in Nat, k \in Good PROVE k + 1 \in Good
      <3>1. CASE k + 1 <= n
        <4> HIDE DEF Upto
        <4> QED
          BY <3>1, <2>1, <1>2
      <3>2. CASE ~(k + 1 <= n)
        BY <3>2
      <3> QED
        BY <3>1, <3>2
    <2> HIDE DEF Good
    <2> QED
      BY <1>1, <2>1, InductionOnNat
  <1>4. PICK g : Upto(g, n)
    <2> HIDE DEF Upto
    <2> QED
      BY <1>3
  <1> QED
    BY <1>4 DEF IsReplay

(* A fill more changes nothing of the accounts before. *)
LEMMA ReplayOfPrefix ==
  ASSUME NEW n \in Nat, NEW fills, DOMAIN fills = 1..n, NEW more, DOMAIN more = 1..(n + 1),
         \A k \in 1..n : more[k] = fills[k],
         NEW initial, NEW g, IsReplay(g, initial, fills), NEW h, IsReplay(h, initial, more)
  PROVE  /\ h[1..n] = g[1..n]
         /\ h[1..(n + 1)] = Replay(h[1..n], more[n + 1])
  <1> DEFINE Good == {k \in Nat : k <= n => h[1..k] = g[1..k]}
  <1>1. 0 \in Good
    <2>1. 1..0 = {} /\ {} \in SUBSET (1..n) /\ {} \in SUBSET (1..(n + 1))
      OBVIOUS
    <2> QED
      BY <2>1 DEF IsReplay
  <1>2. ASSUME NEW k \in Nat, k \in Good PROVE k + 1 \in Good
    <2> SUFFICES ASSUME k + 1 <= n PROVE h[1..(k + 1)] = g[1..(k + 1)]
      OBVIOUS
    <2>1. 1..(k + 1) \in SUBSET (1..n) /\ 1..(k + 1) \in SUBSET (1..(n + 1)) /\ 1..(k + 1) # {}
      OBVIOUS
    <2>2. Max(1..(k + 1)) = k + 1 /\ (1..(k + 1)) \ {k + 1} = 1..k
      BY LastIndex
    <2>3. g[1..(k + 1)] = Replay(g[1..k], fills[k + 1])
      BY <2>1, <2>2, ZenonT(40) DEF IsReplay
    <2>4. h[1..(k + 1)] = Replay(h[1..k], more[k + 1])
      BY <2>1, <2>2 DEF IsReplay
    <2> QED
      BY <2>3, <2>4, <1>2
  <1>3. n \in Good
    <2> HIDE DEF Good
    <2> QED
      BY <1>1, <1>2, InductionOnNat
  <1>4. h[1..(n + 1)] = Replay(h[1..n], more[n + 1])
    <2>1. 1..(n + 1) \in SUBSET (1..(n + 1)) /\ 1..(n + 1) # {}
      OBVIOUS
    <2>2. Max(1..(n + 1)) = n + 1 /\ (1..(n + 1)) \ {n + 1} = 1..n
      BY LastIndex
    <2> QED
      BY <2>1, <2>2 DEF IsReplay
  <1> QED
    BY <1>3, <1>4

(* Without a fill the analysis has the initial cash. *)
LEMMA AnalysisOfNothing ==
  ASSUME NEW initial
  PROVE  AnalyzeLedger(initial, <<>>) = Start(initial)
  <1>1. DOMAIN <<>> = 1..0
    OBVIOUS
  <1>2. PICK g : IsReplay(g, initial, <<>>) /\ AnalyzeLedger(initial, <<>>) = g[1..0]
    BY <1>1, ReplayExists, AnalysisUnfold
  <1> QED
    BY <1>1, <1>2 DEF IsReplay

(* With a fill more it is the analysis before, and the fill. *)
LEMMA AnalysisOfNext ==
  ASSUME NEW n \in Nat, NEW fills, DOMAIN fills = 1..n, NEW more, DOMAIN more = 1..(n + 1),
         \A k \in 1..n : more[k] = fills[k], NEW initial
  PROVE  AnalyzeLedger(initial, more) = Replay(AnalyzeLedger(initial, fills), more[n + 1])
  <1>1. n + 1 \in Nat
    OBVIOUS
  <1>2. PICK g : IsReplay(g, initial, fills) /\ AnalyzeLedger(initial, fills) = g[1..n]
    BY ReplayExists, AnalysisUnfold
  <1>3. PICK h : IsReplay(h, initial, more) /\ AnalyzeLedger(initial, more) = h[1..(n + 1)]
    BY <1>1, ReplayExists, AnalysisUnfold
  <1>4. h[1..n] = g[1..n] /\ h[1..(n + 1)] = Replay(h[1..n], more[n + 1])
    BY <1>2, <1>3, ReplayOfPrefix
  <1> QED
    BY <1>2, <1>3, <1>4

-----------------------------------------------------------------------------
(* The analysis and the ledger. *)

(* A fill, as the analysis books it. *)
LEMMA AnalysisOfFill ==
  ASSUME TypeOK, Execute
  PROVE  Analysed' = Replay(Analysed, FillOf(Head(intents)))
  <1> DEFINE f == FillOf(Head(intents))
             n == Len(ledger.fills)
  <1>1. /\ n \in Nat /\ DOMAIN ledger.fills = 1..n /\ DOMAIN ledger'.fills = 1..(n + 1)
        /\ \A k \in 1..n : ledger'.fills[k] = ledger.fills[k]
        /\ ledger'.fills[n + 1] = f
    BY ExecuteEffect
  <1>2. ledger'.initial = ledger.initial
    BY ExecuteBooks
  <1> HIDE DEF f, n
  <1>3. AnalyzeLedger(ledger.initial, ledger'.fills)
          = Replay(AnalyzeLedger(ledger.initial, ledger.fills), f)
    BY <1>1, AnalysisOfNext
  <1> QED
    BY <1>2, <1>3 DEF Analysed, f

Accounts == [cash : Int, realized : Int, quantities : [Symbols -> Nat], costs : [Symbols -> Int]]

(* A purchase adds to the cost of what is held what it takes from the cash. *)
LEMMA ReplayPurchase ==
  ASSUME NEW a \in Accounts, NEW f \in Fill, f.side = "buy"
  PROVE  LET b == Replay(a, f)
             paid == Notional(f) + Fee(f)
         IN  /\ b \in Accounts /\ b.cash = a.cash - paid /\ b.realized = a.realized
             /\ b.quantities = [a.quantities EXCEPT ![f.symbol] = @ + f.quantity]
             /\ b.costs = [a.costs EXCEPT ![f.symbol] = @ + paid]
  <1> DEFINE paid == Notional(f) + Fee(f)
  <1>1. paid \in Int /\ f.symbol \in Symbols /\ f.quantity \in Nat
    BY Amounts DEF Fill
  <1>2. Replay(a, f) = [a EXCEPT !.cash = @ - paid,
                                 !.quantities[f.symbol] = @ + f.quantity,
                                 !.costs[f.symbol] = @ + paid]
    BY DEF Replay
  <1> HIDE DEF paid
  <1>3. /\ Replay(a, f).cash = a.cash - paid /\ Replay(a, f).realized = a.realized
        /\ Replay(a, f).quantities = [a.quantities EXCEPT ![f.symbol] = @ + f.quantity]
        /\ Replay(a, f).costs = [a.costs EXCEPT ![f.symbol] = @ + paid]
    BY <1>2 DEF Accounts
  <1>4. Replay(a, f) \in Accounts
    <2>1. /\ [a.quantities EXCEPT ![f.symbol] = @ + f.quantity] \in [Symbols -> Nat]
          /\ [a.costs EXCEPT ![f.symbol] = @ + paid] \in [Symbols -> Int]
          /\ a.cash - paid \in Int
      BY <1>1 DEF Accounts
    <2> QED
      BY <1>2, <1>3, <2>1 DEF Accounts
  <1> QED
    BY <1>3, <1>4 DEF paid

(* A sale realises what it brings over its share of the cost, all of it *)
(* when everything is sold. *)
LEMMA ReplaySale ==
  ASSUME NEW a \in Accounts, NEW f \in Fill, f.side = "sell",
         f.quantity <= a.quantities[f.symbol]
  PROVE  LET b == Replay(a, f)
             received == Notional(f) - Fee(f)
         IN  \E share \in Int :
               /\ b \in Accounts /\ b.cash = a.cash + received
               /\ b.realized = a.realized + received - share
               /\ b.quantities = [a.quantities EXCEPT ![f.symbol] = @ - f.quantity]
               /\ b.costs = [a.costs EXCEPT ![f.symbol] = @ - share]
               /\ f.quantity = a.quantities[f.symbol] => share = a.costs[f.symbol]
  <1> DEFINE received == Notional(f) - Fee(f)
             held == a.quantities[f.symbol]
             share == RoundDiv(a.costs[f.symbol] * f.quantity, held)
  <1>1. /\ received \in Int /\ f.symbol \in Symbols /\ f.quantity \in Nat \ {0}
        /\ held \in Nat \ {0} /\ a.costs[f.symbol] \in Int
    BY Amounts DEF Fill, Accounts
  <1>2. share \in Int
    <2>1. a.costs[f.symbol] * f.quantity \in Int
      BY <1>1, IntProduct
    <2> HIDE DEF held
    <2> QED
      BY <1>1, <2>1, RoundDivInt
  <1>3. f.quantity = held => share = a.costs[f.symbol]
    <2>1. RoundDiv(a.costs[f.symbol] * held, held) = a.costs[f.symbol]
      <3> HIDE DEF held
      <3> QED
        BY <1>1, RoundDivExact
    <2> QED
      BY <2>1
  <1>4. Replay(a, f) = [a EXCEPT !.cash = @ + received,
                                 !.quantities[f.symbol] = @ - f.quantity,
                                 !.costs[f.symbol] = @ - share,
                                 !.realized = @ + received - share]
    BY <1>1 DEF Replay
  <1>5. held - f.quantity \in Nat
    BY <1>1
  <1> HIDE DEF received, share
  <1>6. /\ Replay(a, f).cash = a.cash + received
        /\ Replay(a, f).realized = a.realized + received - share
        /\ Replay(a, f).quantities = [a.quantities EXCEPT ![f.symbol] = @ - f.quantity]
        /\ Replay(a, f).costs = [a.costs EXCEPT ![f.symbol] = @ - share]
    BY <1>4 DEF Accounts
  <1>7. Replay(a, f) \in Accounts
    <2>1. /\ [a.quantities EXCEPT ![f.symbol] = @ - f.quantity] \in [Symbols -> Nat]
          /\ [a.costs EXCEPT ![f.symbol] = @ - share] \in [Symbols -> Int]
          /\ a.cash + received \in Int /\ a.realized + received - share \in Int
      BY <1>1, <1>2, <1>5 DEF Accounts
    <2> QED
      BY <1>4, <1>6, <2>1 DEF Accounts
  <1> QED
    BY <1>2, <1>3, <1>6, <1>7 DEF received

(* What is spent is a cost, and what a sale brings is realised but for its share. *)
LEMMA Balance ==
  \A realized, costs, cash, initial, paid \in Int :
     realized - costs = cash - initial => realized - (costs + paid) = (cash - paid) - initial
  OBVIOUS

(* A sale moves the share of the cost from what is held to what is realised. *)
LEMMA SaleBalance ==
  \A realized, costs, cash, initial, received, share \in Int :
     realized - costs = cash - initial =>
       (realized + received - share) - (costs - share) = (cash + received) - initial
  OBVIOUS

(* CostsFollowCash, with the type of the accounts apart. *)
LEMMA CostsType ==
  CostsFollowCash <=>
    /\ Analysed \in Accounts
    /\ \A s \in Symbols : ledger.positions[s].quantity = 0 => Analysed.costs[s] = 0
    /\ Analysed.realized - SumFunctionOnSet(Analysed.costs, Symbols)
         = ledger.cash - ledger.initial
  BY DEF CostsFollowCash, Accounts

(* A purchase is booked alike by the ledger and by the analysis. *)
LEMMA PurchaseBooked ==
  ASSUME TypeOK, AnalysisMatchesLedger, CostsFollowCash, Execute,
         FillOf(Head(intents)).side = "buy"
  PROVE  AnalysisMatchesLedger' /\ CostsFollowCash'
  <1> DEFINE f == FillOf(Head(intents))
             a == Analysed
             b == Analysed'
             s == f.symbol
             paid == Notional(f) + Fee(f)
  <1>1. /\ f \in Fill /\ s = Symbol /\ s \in Symbols /\ f.quantity \in Nat \ {0}
        /\ ledger \in Ledgers /\ ledger' \in Ledgers
        /\ ledger'.positions[s].quantity = QuantityAfter(ledger, f)
        /\ \A r \in Symbols \ {s} : ledger'.positions[r] = ledger.positions[r]
    BY ExecuteEffect, HereType DEF Fill, Position
  <1>2. /\ ledger'.cash = CashAfter(ledger, f) /\ ledger'.initial = ledger.initial
        /\ paid \in Nat
    BY ExecuteBooks
  <1>3. /\ a \in Accounts /\ a.cash = ledger.cash
        /\ \A r \in Symbols : a.quantities[r] = ledger.positions[r].quantity
        /\ \A r \in Symbols : ledger.positions[r].quantity = 0 => a.costs[r] = 0
        /\ a.realized - SumFunctionOnSet(a.costs, Symbols) = ledger.cash - ledger.initial
    BY CostsType DEF AnalysisMatchesLedger, Analysed
  <1>4. b = Replay(a, f)
    BY AnalysisOfFill
  <1>5. /\ ledger'.cash = ledger.cash - paid
        /\ ledger'.positions[s].quantity = ledger.positions[s].quantity + f.quantity
    BY <1>1, <1>2 DEF CashAfter, QuantityAfter
  <1> HIDE DEF a, b, paid
  <1>6. /\ b \in Accounts /\ b.cash = a.cash - paid /\ b.realized = a.realized
        /\ b.quantities = [a.quantities EXCEPT ![s] = @ + f.quantity]
        /\ b.costs = [a.costs EXCEPT ![s] = @ + paid]
    BY <1>1, <1>3, <1>4, ReplayPurchase DEF paid
  <1> HIDE DEF f
  <1>7. a.quantities \in [Symbols -> Nat] /\ a.costs \in [Symbols -> Int] /\ a.realized \in Int
    BY <1>3 DEF Accounts
  <1>8. /\ ledger.cash \in Nat /\ ledger.initial \in Int
        /\ \A r \in Symbols : ledger.positions[r].quantity \in Nat
    <2>1. ledger.initial \in Capitals /\ Capitals \subseteq Nat
      BY <1>1, BacktestEngineAssumption DEF Ledgers
    <2>2. ledger.cash \in Nat /\ ledger.positions \in [Symbols -> [quantity : Nat, average : Nat]]
      BY <1>1 DEF Ledgers
    <2>3. \A r \in Symbols : ledger.positions[r].quantity \in Nat
      BY <2>2
    <2>4. ledger.initial \in Nat
      BY <2>1
    <2>5. ledger.initial \in Int
      BY <2>4
    <2> QED
      BY <2>2, <2>3, <2>5
  <1>9. \A r \in Symbols : b.quantities[r] = ledger'.positions[r].quantity
    BY <1>1, <1>3, <1>5, <1>6, <1>7
  <1>10. ASSUME NEW r \in Symbols, ledger'.positions[r].quantity = 0 PROVE b.costs[r] = 0
    <2>1. r # s
      BY <1>1, <1>5, <1>8, <1>10
    <2> QED
      BY <1>1, <1>3, <1>6, <1>7, <1>10, <2>1
  <1>11. /\ SumFunctionOnSet(b.costs, Symbols) = SumFunctionOnSet(a.costs, Symbols) + paid
         /\ SumFunctionOnSet(a.costs, Symbols) \in Int
    <2>1. SumFunctionOnSet(a.costs, Symbols) \in Int
      BY <1>7, SumIsInt, BacktestEngineAssumption
    <2>2. paid \in Int
      BY <1>2
    <2>3. SumFunctionOnSet(b.costs, Symbols) = SumFunctionOnSet(a.costs, Symbols) + paid
      <3>1. b.costs = [a.costs EXCEPT ![s] = @ + paid]
        BY <1>6
      <3>2. IsFiniteSet(Symbols)
        BY BacktestEngineAssumption
      <3> QED
        BY <1>1, <1>7, <2>2, <3>1, <3>2, SumChange
    <2> QED
      BY <2>1, <2>3
  <1>12. b.realized - SumFunctionOnSet(b.costs, Symbols) = ledger'.cash - ledger'.initial
    <2>1. paid \in Int /\ ledger.cash \in Int
      BY <1>2, <1>8
    <2> QED
      BY <1>2, <1>3, <1>5, <1>6, <1>7, <1>8, <1>11, <2>1, Balance, SMTT(30)
  <1>13. b.cash = ledger'.cash
    BY <1>3, <1>5, <1>6
  <1> QED
    <2>1. CostsFollowCash'
      BY <1>6, <1>10, <1>12 DEF CostsFollowCash, Accounts, b
    <2>2. AnalysisMatchesLedger'
      BY <1>9, <1>13 DEF AnalysisMatchesLedger, Analysed, b
    <2> QED
      BY <2>1, <2>2

(* A sale is booked alike by the ledger and by the analysis. *)
LEMMA SaleBooked ==
  ASSUME TypeOK, AnalysisMatchesLedger, CostsFollowCash, Execute,
         FillOf(Head(intents)).side = "sell"
  PROVE  AnalysisMatchesLedger' /\ CostsFollowCash'
  <1> DEFINE f == FillOf(Head(intents))
             a == Analysed
             b == Analysed'
             s == f.symbol
             received == Notional(f) - Fee(f)
  <1>1. /\ f \in Fill /\ s = Symbol /\ s \in Symbols /\ f.quantity \in Nat \ {0}
        /\ ledger \in Ledgers /\ ledger' \in Ledgers
        /\ ledger'.positions[s].quantity = QuantityAfter(ledger, f)
        /\ \A r \in Symbols \ {s} : ledger'.positions[r] = ledger.positions[r]
    BY ExecuteEffect, HereType DEF Fill, Position
  <1>2. /\ ledger'.cash = CashAfter(ledger, f) /\ ledger'.initial = ledger.initial
        /\ received \in Int /\ f.quantity <= ledger.positions[s].quantity
    BY ExecuteBooks DEF Accepts
  <1>3. /\ a \in Accounts /\ a.cash = ledger.cash
        /\ \A r \in Symbols : a.quantities[r] = ledger.positions[r].quantity
        /\ \A r \in Symbols : ledger.positions[r].quantity = 0 => a.costs[r] = 0
        /\ a.realized - SumFunctionOnSet(a.costs, Symbols) = ledger.cash - ledger.initial
    BY CostsType DEF AnalysisMatchesLedger, Analysed
  <1>4. b = Replay(a, f)
    BY AnalysisOfFill
  <1>5. /\ ledger'.cash = ledger.cash + received
        /\ ledger'.positions[s].quantity = ledger.positions[s].quantity - f.quantity
    <2>1. ledger.cash \in Nat /\ Notional(f) \in Nat /\ Fee(f) \in Nat
      BY <1>1, ExecuteBooks DEF Ledgers
    <2>2. ledger'.cash = ledger.cash + Notional(f) - Fee(f)
      BY <1>2 DEF CashAfter
    <2>3. ledger'.positions[s].quantity = ledger.positions[s].quantity - f.quantity
      BY <1>1 DEF QuantityAfter
    <2> QED
      BY <2>1, <2>2, <2>3
  <1> HIDE DEF a, b, received
  <1>6. PICK share \in Int :
          /\ b \in Accounts /\ b.cash = a.cash + received
          /\ b.realized = a.realized + received - share
          /\ b.quantities = [a.quantities EXCEPT ![s] = @ - f.quantity]
          /\ b.costs = [a.costs EXCEPT ![s] = @ - share]
          /\ f.quantity = a.quantities[s] => share = a.costs[s]
    BY <1>1, <1>2, <1>3, <1>4, ReplaySale, ZenonT(40) DEF received
  <1> HIDE DEF f
  <1>7. a.quantities \in [Symbols -> Nat] /\ a.costs \in [Symbols -> Int] /\ a.realized \in Int
    BY <1>3 DEF Accounts
  <1>8. /\ ledger.cash \in Nat /\ ledger.initial \in Int
        /\ \A r \in Symbols : ledger.positions[r].quantity \in Nat
    <2>1. ledger.initial \in Capitals /\ Capitals \subseteq Nat
      BY <1>1, BacktestEngineAssumption DEF Ledgers
    <2>2. ledger.cash \in Nat /\ ledger.positions \in [Symbols -> [quantity : Nat, average : Nat]]
      BY <1>1 DEF Ledgers
    <2>3. \A r \in Symbols : ledger.positions[r].quantity \in Nat
      BY <2>2
    <2>4. ledger.initial \in Nat
      BY <2>1
    <2>5. ledger.initial \in Int
      BY <2>4
    <2> QED
      BY <2>2, <2>3, <2>5
  <1>9. \A r \in Symbols : b.quantities[r] = ledger'.positions[r].quantity
    BY <1>1, <1>3, <1>5, <1>6, <1>7
  <1>10. ASSUME NEW r \in Symbols, ledger'.positions[r].quantity = 0 PROVE b.costs[r] = 0
    <2>1. CASE r = s
      <3>1. f.quantity = a.quantities[s]
        <4>1. ledger.positions[s].quantity \in Nat /\ a.quantities[s] = ledger.positions[s].quantity
          BY <1>1, <1>3, <1>8
        <4>2. ledger.positions[s].quantity - f.quantity = 0 /\ f.quantity \in Nat
          BY <1>1, <1>5, <1>10, <2>1
        <4> QED
          BY <4>1, <4>2
      <3>2. b.costs[s] = a.costs[s] - share /\ a.costs[s] \in Int
        BY <1>1, <1>6, <1>7
      <3> QED
        BY <1>6, <2>1, <3>1, <3>2
    <2>2. CASE r # s
      BY <1>1, <1>3, <1>6, <1>7, <1>10, <2>2
    <2> QED
      BY <2>1, <2>2
  <1>11. /\ SumFunctionOnSet(b.costs, Symbols) = SumFunctionOnSet(a.costs, Symbols) - share
         /\ SumFunctionOnSet(a.costs, Symbols) \in Int
    <2>1. b.costs = [a.costs EXCEPT ![s] = @ + (-share)]
      BY <1>1, <1>6, <1>7
    <2>2. -share \in Int
      OBVIOUS
    <2>3. SumFunctionOnSet(b.costs, Symbols) = SumFunctionOnSet(a.costs, Symbols) + (-share)
      BY <1>1, <1>7, <2>1, <2>2, SumChange, BacktestEngineAssumption
    <2>4. SumFunctionOnSet(a.costs, Symbols) \in Int
      BY <1>7, SumIsInt, BacktestEngineAssumption
    <2> QED
      BY <2>3, <2>4
  <1>12. b.realized - SumFunctionOnSet(b.costs, Symbols) = ledger'.cash - ledger'.initial
    BY <1>2, <1>3, <1>5, <1>6, <1>7, <1>8, <1>11, SaleBalance, SMTT(30)
  <1>13. b.cash = ledger'.cash
    BY <1>3, <1>5, <1>6
  <1> QED
    <2>1. CostsFollowCash'
      BY <1>6, <1>10, <1>12 DEF CostsFollowCash, Accounts, b
    <2>2. AnalysisMatchesLedger'
      BY <1>9, <1>13 DEF AnalysisMatchesLedger, Analysed, b
    <2> QED
      BY <2>1, <2>2

-----------------------------------------------------------------------------
(* What is held is the sum of the fills. *)

(* What a fill adds to the sums. *)
LEMMA HeldAfterFill ==
  ASSUME TypeOK, Execute, NEW s \in Symbols, NEW CONSTANT n \in Nat, n = Len(ledger.fills)
  PROVE  /\ \A m \in 0..n : HeldAfter(s, m)' = HeldAfter(s, m)
         /\ HeldAfter(s, n + 1)' =
              HeldAfter(s, n) + (IF s = Symbol THEN Delta(FillOf(Head(intents))) ELSE 0)
         /\ HeldAfter(s, n) \in Int
  <1> DEFINE f == FillOf(Head(intents))
             old == [i \in DOMAIN ledger.fills |-> Delta(ledger.fills[i])]
             new == [i \in DOMAIN ledger'.fills |-> Delta(ledger'.fills[i])]
             From(m) == {i \in 1..m : ledger.fills[i].symbol = s}
             Upto(m) == {i \in 1..m : ledger'.fills[i].symbol = s}
  <1>1. /\ n \in Nat /\ DOMAIN ledger.fills = 1..n /\ DOMAIN ledger'.fills = 1..(n + 1)
        /\ \A i \in 1..n : ledger'.fills[i] = ledger.fills[i]
        /\ ledger'.fills[n + 1] = f /\ \A i \in 1..n : ledger.fills[i] \in Fill
        /\ f \in Fill /\ f.symbol = Symbol
    BY ExecuteEffect
  <1>2. \A m : HeldAfter(s, m) = SumFunctionOnSet(old, From(m))
    BY DEF HeldAfter
  <1>3. \A m : HeldAfter(s, m)' = SumFunctionOnSet(new, Upto(m))
    BY DEF HeldAfter
  <1>4. \A g \in Fill : Delta(g) \in Int
    BY DEF Delta, Fill
  <1> HIDE DEF f
  <1>5. /\ \A i \in 1..n : old[i] \in Int /\ new[i] = old[i]
        /\ new[n + 1] = Delta(f) /\ Delta(f) \in Int /\ \A i \in 1..(n + 1) : new[i] \in Int
    <2>1. /\ \A i \in 1..n : old[i] = Delta(ledger.fills[i]) /\ new[i] = Delta(ledger.fills[i])
          /\ new[n + 1] = Delta(f)
      BY <1>1
    <2>2. Delta(f) \in Int /\ \A i \in 1..n : Delta(ledger.fills[i]) \in Int
      BY <1>1, <1>4
    <2>3. \A i \in 1..(n + 1) : i \in 1..n \/ i = n + 1
      BY <1>1
    <2> HIDE DEF old, new
    <2> QED
      BY <2>1, <2>2, <2>3
  <1> HIDE DEF old, new
  <1>6. ASSUME NEW m \in 0..n
        PROVE  /\ Upto(m) = From(m) /\ IsFiniteSet(From(m)) /\ From(m) \subseteq 1..n
               /\ SumFunctionOnSet(new, Upto(m)) = SumFunctionOnSet(old, From(m))
    <2>1. m \in Nat /\ 1..m \subseteq 1..n
      BY <1>1
    <2>2. Upto(m) = From(m) /\ From(m) \subseteq 1..n
      BY <1>1, <2>1
    <2>3. IsFiniteSet(From(m))
      <3>1. IsFiniteSet(1..n)
        BY <1>1, FS_Interval
      <3> QED
        BY <2>2, <3>1, FS_Subset
    <2> HIDE DEF From, Upto
    <2>4. \A i \in From(m) : new[i] = old[i]
      BY <1>5, <2>2
    <2> QED
      BY <2>2, <2>3, <2>4, SumSame
  <1>7. n \in 0..n
    BY <1>1
  <1>8. SumFunctionOnSet(old, From(n)) \in Int
    <2>1. IsFiniteSet(From(n)) /\ \A i \in From(n) : old[i] \in Int
      BY <1>5, <1>6, <1>7
    <2> HIDE DEF From
    <2> QED
      BY <2>1, SumIsInt
  <1>9. SumFunctionOnSet(new, Upto(n + 1))
          = SumFunctionOnSet(old, From(n)) + (IF s = Symbol THEN Delta(f) ELSE 0)
    <2>1. CASE s = Symbol
      <3>1. Upto(n + 1) = Upto(n) \cup {n + 1} /\ n + 1 \notin Upto(n)
        BY <1>1, <2>1
      <3>2. n + 1 \in Upto(n + 1) /\ Upto(n + 1) \ {n + 1} = Upto(n)
        BY <3>1
      <3>3. IsFiniteSet(Upto(n + 1)) /\ \A i \in Upto(n + 1) : new[i] \in Int
        <4>1. IsFiniteSet(Upto(n))
          BY <1>6, <1>7
        <4>2. \A i \in Upto(n + 1) : i \in 1..(n + 1)
          OBVIOUS
        <4> HIDE DEF Upto
        <4> QED
          BY <1>5, <3>1, <4>1, <4>2, FS_AddElement
      <3> HIDE DEF Upto, From
      <3>4. SumFunctionOnSet(new, Upto(n + 1)) = Delta(f) + SumFunctionOnSet(new, Upto(n))
        BY <1>5, <3>2, <3>3, SumRemove
      <3>5. SumFunctionOnSet(new, Upto(n)) = SumFunctionOnSet(old, From(n))
        BY <1>6, <1>7
      <3> QED
        BY <1>5, <1>8, <2>1, <3>4, <3>5
    <2>2. CASE s # Symbol
      <3>1. Upto(n + 1) = Upto(n)
        BY <1>1, <2>2
      <3> HIDE DEF Upto, From
      <3>2. SumFunctionOnSet(new, Upto(n + 1)) = SumFunctionOnSet(old, From(n))
        BY <1>6, <1>7, <3>1
      <3> QED
        BY <1>8, <2>2, <3>2
    <2> QED
      BY <2>1, <2>2
  <1> HIDE DEF From, Upto
  <1> QED
    BY <1>2, <1>3, <1>6, <1>7, <1>8, <1>9 DEF f

(* As long as nothing is traded, the sums stay. *)
LEMMA HeldAfterNothing ==
  ASSUME UNCHANGED ledger, NEW s, NEW n
  PROVE  HeldAfter(s, n)' = HeldAfter(s, n)
  BY DEF HeldAfter

(* Every step keeps the sums equal to what is held. *)
LEMMA NextFillsAddUp == TypeOK /\ FillsAddUp /\ [Next]_vars => FillsAddUp'
  <1> SUFFICES ASSUME TypeOK, FillsAddUp, [Next]_vars PROVE FillsAddUp'
    OBVIOUS
  <1>1. CASE Execute
    <2> SUFFICES ASSUME NEW s \in Symbols
                 PROVE  HeldAfter(s, Len(ledger.fills))' = ledger'.positions[s].quantity
      BY DEF FillsAddUp
    <2> DEFINE f == FillOf(Head(intents))
    <2>1. PICK n \in Nat : n = Len(ledger.fills)
      BY <1>1, ExecuteEffect
    <2>2. /\ HeldAfter(s, n + 1)' = HeldAfter(s, n) + (IF s = Symbol THEN Delta(f) ELSE 0)
          /\ HeldAfter(s, n) \in Int
      BY <1>1, <2>1, HeldAfterFill
    <2>3. Len(ledger'.fills) = n + 1
      <3>1. DOMAIN ledger'.fills = 1..(n + 1) /\ ledger' \in Ledgers
        BY <1>1, <2>1, ExecuteEffect
      <3>2. ledger'.fills \in Seq(Fill)
        BY <3>1 DEF Ledgers
      <3> QED
        BY <2>1, <3>1, <3>2, LenProperties
    <2>4. HeldAfter(s, n) = ledger.positions[s].quantity
      BY <2>1 DEF FillsAddUp
    <2>5. /\ f \in Fill /\ f.symbol = Symbol /\ Position'.quantity = QuantityAfter(ledger, f)
          /\ Symbol' = Symbol
          /\ \A r \in Symbols \ {Symbol} : ledger'.positions[r] = ledger.positions[r]
      BY <1>1, ExecuteEffect
    <2> HIDE DEF f
    <2>6. CASE s = Symbol
      <3>1. ledger'.positions[s].quantity = QuantityAfter(ledger, f)
        BY <2>5, <2>6 DEF Position
      <3>2. QuantityAfter(ledger, f) = HeldAfter(s, n) + Delta(f)
        BY <2>2, <2>4, <2>5, <2>6 DEF QuantityAfter, Delta, Fill
      <3> QED
        BY <2>2, <2>3, <2>6, <3>1, <3>2
    <2>7. CASE s # Symbol
      BY <2>2, <2>3, <2>4, <2>5, <2>7
    <2> QED
      BY <2>6, <2>7
  <1>2. CASE UNCHANGED ledger
    BY <1>2, HeldAfterNothing DEF FillsAddUp
  <1> QED
    BY <1>1, <1>2, LedgerUnchanged

-----------------------------------------------------------------------------
(* The values kept for a strategy. *)

(* The purchases of a holding are finitely many. *)
LEMMA OpenFillsFinite ==
  ASSUME TypeOK, NEW s, NEW side
  PROVE  /\ OpenFills(s, side) \subseteq 1..Len(ledger.fills) /\ Len(ledger.fills) \in Nat
         /\ IsFiniteSet(OpenFills(s, side))
  <1>1. Len(ledger.fills) \in Nat /\ DOMAIN ledger.fills = 1..Len(ledger.fills)
    BY HereType, LenProperties DEF Ledgers
  <1>2. OpenFills(s, side) \subseteq 1..Len(ledger.fills)
    BY <1>1 DEF OpenFills
  <1>3. PICK n \in Nat : n = Len(ledger.fills)
    BY <1>1
  <1>4. IsFiniteSet(1..n)
    BY FS_Interval
  <1>5. OpenFills(s, side) \subseteq 1..n
    BY <1>2, <1>3
  <1>6. IsFiniteSet(OpenFills(s, side))
    BY <1>4, <1>5, FS_Subset
  <1> QED
    BY <1>1, <1>2, <1>6

(* A fill that leaves something opens a holding or adds to it, one that *)
(* leaves nothing ends it. *)
LEMMA OpenAfterFill ==
  ASSUME TypeOK, FillsAddUp, Execute, NEW CONSTANT n \in Nat, n = Len(ledger.fills)
  PROVE  LET f == FillOf(Head(intents))
             open == OpenFills(Symbol, "buy")
             left == Position'.quantity
         IN  OpenFills(Symbol, "buy")' =
               IF left = 0 THEN {} ELSE IF f.side = "buy" THEN open \cup {n + 1} ELSE open
  <1> DEFINE f == FillOf(Head(intents))
             open == OpenFills(Symbol, "buy")
             left == Position'.quantity
             after == OpenFills(Symbol, "buy")'
             Held(m) == HeldAfter(Symbol, m)
             HeldNew(m) == HeldAfter(Symbol, m)'
  <1>1. /\ f \in Fill /\ f.symbol = Symbol /\ Symbol' = Symbol /\ Symbol \in Symbols
        /\ DOMAIN ledger.fills = 1..n /\ DOMAIN ledger'.fills = 1..(n + 1)
        /\ \A i \in 1..n : ledger'.fills[i] = ledger.fills[i]
        /\ ledger'.fills[n + 1] = f /\ ledger' \in Ledgers
    BY ExecuteEffect
  <1>2. Len(ledger'.fills) = n + 1
    <2>1. ledger'.fills \in Seq(Fill)
      BY <1>1 DEF Ledgers
    <2> QED
      BY <1>1, <2>1, LenProperties
  <1>3. \A m \in 0..n : HeldNew(m) = Held(m)
    <2>1. PICK s \in Symbols : s = Symbol
      BY <1>1
    <2>2. \A m \in 0..n : HeldAfter(s, m)' = HeldAfter(s, m)
      BY HeldAfterFill
    <2>3. \A m : HeldAfter(s, m)' = HeldAfter(Symbol, m)' /\ HeldAfter(s, m) = HeldAfter(Symbol, m)
      BY <1>1, <2>1
    <2> QED
      BY <2>2, <2>3
  <1>4. HeldNew(n + 1) = left
    <2>1. FillsAddUp'
      BY NextFillsAddUp DEF Next
    <2>2. PICK s \in Symbols : s = Symbol
      BY <1>1
    <2>3. HeldAfter(s, Len(ledger.fills))' = ledger'.positions[s].quantity
      BY <2>1 DEF FillsAddUp
    <2>4. ledger'.positions[s].quantity = left
      BY <1>1, <2>2 DEF Position
    <2>5. HeldAfter(s, n + 1)' = left
      BY <1>2, <2>3, <2>4 DEF HeldAfter
    <2>6. HeldAfter(s, n + 1)' = HeldAfter(Symbol, n + 1)'
      BY <1>1, <2>2
    <2> QED
      BY <2>5, <2>6
  <1>5. left \in Nat
    BY <1>1 DEF Ledgers, Position
  <1>6. after = {i \in 1..(n + 1) :
                   /\ ledger'.fills[i].symbol = Symbol /\ ledger'.fills[i].side = "buy"
                   /\ \A m \in i..(n + 1) : HeldNew(m) > 0}
    BY <1>1, <1>2 DEF OpenFills
  <1>7. open = {i \in 1..n :
                  /\ ledger.fills[i].symbol = Symbol /\ ledger.fills[i].side = "buy"
                  /\ \A m \in i..n : Held(m) > 0}
    BY <1>1 DEF OpenFills
  <1> HIDE DEF f, open, left, after, Held, HeldNew
  <1>8. CASE left = 0
    <2>1. ASSUME NEW i \in 1..(n + 1) PROVE ~ \A m \in i..(n + 1) : HeldNew(m) > 0
      <3>1. n + 1 \in i..(n + 1) /\ ~(HeldNew(n + 1) > 0)
        BY <1>4, <1>8
      <3> QED
        BY <3>1
    <2>2. after = {}
      BY <1>6, <2>1
    <2> QED
      BY <1>8, <2>2 DEF left, after
  <1>9. CASE left # 0
    <2>1. HeldNew(n + 1) > 0
      BY <1>4, <1>5, <1>9
    <2>2. ASSUME NEW i \in 1..n
          PROVE  (\A m \in i..(n + 1) : HeldNew(m) > 0) <=> (\A m \in i..n : Held(m) > 0)
      <3>1. \A m \in i..(n + 1) : m \in i..n \/ m = n + 1
        OBVIOUS
      <3>2. \A m \in i..n : m \in i..(n + 1) /\ HeldNew(m) = Held(m)
        BY <1>3
      <3> QED
        BY <2>1, <3>1, <3>2
    <2>3. \A m \in (n + 1)..(n + 1) : HeldNew(m) > 0
      BY <2>1
    <2>4. ASSUME NEW i
          PROVE  i \in after <=> i \in open \/ (i = n + 1 /\ f.side = "buy")
      <3>1. CASE i \in 1..n
        <4>1. i # n + 1 /\ i \in 1..(n + 1) /\ ledger'.fills[i] = ledger.fills[i]
          BY <1>1, <3>1
        <4>2. (\A m \in i..(n + 1) : HeldNew(m) > 0) <=> (\A m \in i..n : Held(m) > 0)
          BY <2>2, <3>1
        <4> QED
          BY <1>6, <1>7, <3>1, <4>1, <4>2
      <3>2. CASE i = n + 1
        <4>1. i \notin 1..n /\ i \in 1..(n + 1) /\ ledger'.fills[i] = f
          BY <1>1, <3>2 DEF f
        <4>2. \A m \in i..(n + 1) : HeldNew(m) > 0
          BY <2>3, <3>2
        <4>3. f.symbol = Symbol
          BY <1>1 DEF f
        <4>4. i \notin open
          BY <1>7, <4>1
        <4>5. i \in after <=> f.side = "buy"
          BY <1>6, <4>1, <4>2, <4>3
        <4> QED
          BY <3>2, <4>4, <4>5
      <3>3. CASE i \notin 1..(n + 1)
        BY <1>6, <1>7, <3>3
      <3> QED
        BY <3>1, <3>2, <3>3
    <2>5. after = IF f.side = "buy" THEN open \cup {n + 1} ELSE open
      BY <2>4
    <2> QED
      BY <1>9, <2>5 DEF left, after, f, open
  <1> QED
    BY <1>8, <1>9

(* The purchases stay what they are as long as nothing is traded. *)
LEMMA OpenAfterNothing ==
  ASSUME UNCHANGED <<universe, turn, ledger>>
  PROVE  /\ OpenFills(Symbol, "buy")' = OpenFills(Symbol, "buy")
         /\ Position' = Position /\ Symbol' = Symbol
         /\ AverageOfPurchases' <=> AverageOfPurchases
  <1>1. Symbol' = Symbol
    BY DEF Symbol
  <1>2. \A s, n : HeldAfter(s, n)' = HeldAfter(s, n)
    BY DEF HeldAfter
  <1>3. OpenFills(Symbol, "buy")' = OpenFills(Symbol, "buy") /\ Position' = Position
    BY <1>1, <1>2 DEF OpenFills, Position
  <1> QED
    BY <1>1, <1>3 DEF AverageOfPurchases

(* A fill keeps the average price between those of the purchases. *)
LEMMA FillKeepsAverage ==
  ASSUME TypeOK, FillsAddUp, AverageOfPurchases, Execute
  PROVE  AverageOfPurchases'
  <1> DEFINE f == FillOf(Head(intents))
             open == OpenFills(Symbol, "buy")
             after == OpenFills(Symbol, "buy")'
             left == Position'.quantity
             mean == Position'.average
  <1>1. PICK n \in Nat : n = Len(ledger.fills)
    BY ExecuteEffect
  <1>2. after = IF left = 0 THEN {} ELSE IF f.side = "buy" THEN open \cup {n + 1} ELSE open
    BY <1>1, OpenAfterFill
  <1>3. /\ f \in Fill /\ f.symbol = Symbol
        /\ left = QuantityAfter(ledger, f) /\ mean = AverageAfter(ledger, f)
        /\ \A i \in 1..n : ledger'.fills[i] = ledger.fills[i] /\ ledger.fills[i] \in Fill
        /\ ledger'.fills[n + 1] = f
    BY <1>1, ExecuteEffect
  <1>4. f.side = "sell" => f.quantity <= Position.quantity
    BY <1>3, ExecuteBooks DEF Accepts, Position
  <1>5. Position.quantity \in Nat /\ Position.average \in Nat
    BY HereType
  <1>6. /\ left = IF f.side = "buy" THEN Position.quantity + f.quantity
                                    ELSE Position.quantity - f.quantity
        /\ mean = IF f.side = "buy"
                  THEN RoundDiv(Position.quantity * Position.average + f.quantity * f.price,
                                Position.quantity + f.quantity)
                  ELSE IF left = 0 THEN 0 ELSE Position.average
    BY <1>3 DEF QuantityAfter, AverageAfter, Position
  <1>7. open \subseteq 1..n
    BY <1>1, OpenFillsFinite
  <1>8. f.quantity \in Nat \ {0} /\ f.price \in Nat \ {0} /\ f.side \in {"buy", "sell"}
    BY <1>3 DEF Fill
  <1>9. Position.quantity > 0 =>
          \E low, high \in open : /\ ledger.fills[low].price <= Position.average
                                  /\ Position.average <= ledger.fills[high].price
    BY DEF AverageOfPurchases
  <1>10. SUFFICES ASSUME left > 0
                  PROVE  \E low, high \in after : /\ ledger'.fills[low].price <= mean
                                                  /\ mean <= ledger'.fills[high].price
    BY DEF AverageOfPurchases
  <1>11. \A i \in open : ledger'.fills[i].price = ledger.fills[i].price
                         /\ ledger.fills[i].price \in Nat
    BY <1>3, <1>7 DEF Fill
  <1> HIDE DEF f, open, after, left, mean
  <1>12. CASE f.side = "buy" /\ Position.quantity = 0
    <2>1. mean = f.price
      <3>1. PICK q \in Nat \ {0}, p \in Nat, a \in Nat :
              q = f.quantity /\ p = f.price /\ a = Position.average
        BY <1>5, <1>8
      <3>2. 0 * a + q * p = p * q /\ 0 + q = q
        OBVIOUS
      <3>3. mean = RoundDiv(p * q, q)
        BY <1>6, <1>12, <3>1, <3>2
      <3>4. RoundDiv(p * q, q) = p
        <4>1. p \in Int
          BY <3>1
        <4> QED
          BY <4>1, RoundDivExact, Zenon
      <3> QED
        BY <3>1, <3>3, <3>4
    <2>2. n + 1 \in after
      BY <1>2, <1>10, <1>12
    <2> QED
      BY <1>3, <1>8, <2>1, <2>2
  <1>13. CASE f.side = "buy" /\ Position.quantity # 0
    <2>1. PICK low \in open, high \in open : /\ ledger.fills[low].price <= Position.average
                                             /\ Position.average <= ledger.fills[high].price
      BY <1>5, <1>9, <1>13
    <2>2. /\ Smaller(Position.average, f.price) <= mean
          /\ mean <= Larger(Position.average, f.price)
      BY <1>5, <1>6, <1>8, <1>13, MeanBetween
    <2>3. mean \in Nat
      <3>1. /\ Position.quantity * Position.average + f.quantity * f.price \in Nat
            /\ Position.quantity + f.quantity \in Nat \ {0}
        BY <1>5, <1>8, NatProduct
      <3> QED
        BY <1>6, <1>13, <3>1, RoundDivNat
    <2>4. low \in after /\ high \in after /\ n + 1 \in after
      BY <1>2, <1>10, <1>13, <2>1
    <2>5. ledger'.fills[low].price <= mean \/ ledger'.fills[n + 1].price <= mean
      BY <1>3, <1>5, <1>8, <1>11, <2>1, <2>2, <2>3 DEF Smaller
    <2>6. mean <= ledger'.fills[high].price \/ mean <= ledger'.fills[n + 1].price
      BY <1>3, <1>5, <1>8, <1>11, <2>1, <2>2, <2>3 DEF Larger
    <2> QED
      BY <2>4, <2>5, <2>6
  <1>14. CASE f.side # "buy"
    <2>1. mean = Position.average /\ after = open /\ Position.quantity > 0
      BY <1>2, <1>4, <1>5, <1>6, <1>8, <1>10, <1>14
    <2> QED
      BY <1>9, <1>11, <2>1
  <1> QED
    BY <1>12, <1>13, <1>14

(* A fill keeps the values of the holding it changes. *)
LEMMA FillKeepsValues ==
  ASSUME TypeOK, FillsAddUp, ValuesFollowPosition, Execute
  PROVE  ValuesFollowPosition'
  <1> DEFINE f == FillOf(Head(intents))
             open == OpenFills(Symbol, "buy")
             after == OpenFills(Symbol, "buy")'
             left == Position'.quantity
             held == Position.quantity
  <1>1. PICK n \in Nat : n = Len(ledger.fills)
    BY ExecuteEffect
  <1>2. after = IF left = 0 THEN {} ELSE IF f.side = "buy" THEN open \cup {n + 1} ELSE open
    BY <1>1, OpenAfterFill
  <1>3. /\ f \in Fill /\ f.symbol = Symbol /\ left = QuantityAfter(ledger, f)
        /\ values' = AfterFill(values, index, f, left)
    BY ExecuteEffect
  <1>4. f.side = "sell" => f.quantity <= held
    BY <1>3, ExecuteBooks DEF Execute, Accepts, Position
  <1>5. /\ values.entries = Cardinality(open) /\ (held = 0 <=> values.peak = 0)
        /\ (held = 0 => values.holding = 0) /\ AverageOfPurchases
    BY DEF ValuesFollowPosition, Execute
  <1>6. values \in Values /\ held \in Nat /\ left = IF f.side = "buy" THEN held + f.quantity
                                                                    ELSE held - f.quantity
    BY <1>3, HereType DEF TypeOK, QuantityAfter, Position
  <1>7. open \subseteq 1..n /\ IsFiniteSet(open)
    BY <1>1, OpenFillsFinite
  <1> HIDE DEF f, open, after, left, held
  <1>8. /\ f.quantity \in Nat \ {0} /\ f.price \in Nat \ {0} /\ f.side \in {"buy", "sell"}
        /\ values.peak \in Nat
    BY <1>3, <1>6 DEF Fill, Values
  <1>9. /\ values'.entries = Cardinality(after) /\ (left = 0 <=> values'.peak = 0)
        /\ (left = 0 => values'.holding = 0)
    <2>1. CASE f.side = "buy"
      <3>1. left # 0
        BY <1>6, <1>8, <2>1
      <3>2. values'.entries = values.entries + 1 /\ values'.peak = Larger(values.peak, f.price)
        BY <1>3, <1>6, <2>1 DEF AfterFill, Values
      <3>3. values'.peak # 0
        BY <1>8, <3>2 DEF Larger
      <3>4. Cardinality(after) = Cardinality(open) + 1
        <4>1. n + 1 \notin open
          BY <1>7
        <4>2. after = open \cup {n + 1}
          BY <1>2, <2>1, <3>1
        <4> QED
          BY <1>7, <4>1, <4>2, FS_AddElement
      <3> QED
        BY <1>5, <3>1, <3>2, <3>3, <3>4
    <2>2. CASE f.side # "buy" /\ left # 0
      <3>1. values' = values /\ after = open
        BY <1>2, <1>3, <2>2 DEF AfterFill
      <3>2. held # 0
        BY <1>4, <1>6, <1>8, <2>2
      <3> QED
        BY <1>5, <2>2, <3>1, <3>2
    <2>3. CASE f.side # "buy" /\ left = 0
      <3>1. values'.entries = 0 /\ values'.peak = 0 /\ values'.holding = 0
        BY <1>3, <1>6, <2>3 DEF AfterFill, Values
      <3>2. Cardinality(after) = 0
        BY <1>2, <2>3, FS_EmptySet
      <3> QED
        BY <2>3, <3>1, <3>2
    <2> QED
      BY <2>1, <2>2, <2>3
  <1>10. AverageOfPurchases'
    BY <1>5, FillKeepsAverage
  <1> QED
    BY <1>9, <1>10 DEF ValuesFollowPosition, after, left

(* So does every other step. *)
LEMMA NextValues ==
  TypeOK /\ LaterUntouched /\ FillsAddUp /\ ValuesFollowPosition /\ [Next]_vars
    => ValuesFollowPosition'
  <1> SUFFICES ASSUME TypeOK, LaterUntouched, FillsAddUp, ValuesFollowPosition, [Next]_vars
               PROVE  ValuesFollowPosition'
    OBVIOUS
  <1>1. CASE OpenSymbol
    <2>1. UNCHANGED <<universe, turn, ledger>> /\ values' = NoValues /\ at = "open"
      BY <1>1 DEF OpenSymbol, config
    <2>2. turn \in DOMAIN universe
      BY UniverseType
    <2>3. /\ Position.quantity = 0
          /\ \A n \in DOMAIN ledger.fills : ledger.fills[n].symbol # Symbol
      BY <2>1, <2>2 DEF LaterUntouched, Position, Symbol
    <2>4. OpenFills(Symbol, "buy") = {}
      BY <2>3 DEF OpenFills
    <2>5. OpenFills(Symbol, "buy")' = {} /\ Position'.quantity = 0 /\ AverageOfPurchases'
      BY <2>1, <2>3, <2>4, OpenAfterNothing DEF AverageOfPurchases
    <2> QED
      BY <2>1, <2>5, FS_EmptySet DEF ValuesFollowPosition, NoValues
  <1>2. CASE Decide
    <2>1. UNCHANGED <<universe, turn, ledger>> /\ values' = BeforeDecision /\ at = "decide"
      BY <1>2 DEF Decide, DecideOn, config
    <2>2. /\ OpenFills(Symbol, "buy")' = OpenFills(Symbol, "buy") /\ Position' = Position
          /\ AverageOfPurchases' <=> AverageOfPurchases
      BY <2>1, OpenAfterNothing
    <2>3. /\ values.entries = Cardinality(OpenFills(Symbol, "buy")) /\ AverageOfPurchases
          /\ (Position.quantity = 0 <=> values.peak = 0)
          /\ (Position.quantity = 0 => values.holding = 0)
      BY <2>1 DEF ValuesFollowPosition
    <2>4. values \in Values /\ candle.close \in Nat
      BY CandleType DEF TypeOK
    <2>5. CASE Position.quantity = 0
      BY <2>1, <2>2, <2>3, <2>5 DEF ValuesFollowPosition, BeforeDecision, Prepared
    <2>6. CASE Position.quantity # 0
      <3>1. /\ values'.entries = values.entries
            /\ values'.peak = Larger(values.peak, candle.close)
        BY <2>1, <2>4, <2>6 DEF BeforeDecision, Prepared, Values
      <3>2. values'.peak # 0
        BY <2>3, <2>4, <2>6, <3>1 DEF Larger, Values
      <3> QED
        BY <2>2, <2>3, <2>6, <3>1, <3>2 DEF ValuesFollowPosition
    <2> QED
      BY <2>5, <2>6
  <1>3. CASE Execute
    BY <1>3, FillKeepsValues
  <1>4. CASE Drop \/ NextCandle \/ UNCHANGED vars
    <2>1. /\ UNCHANGED <<universe, turn, ledger, values>>
          /\ at' \in {"decide", "execute"} => at \in {"decide", "execute"}
      BY <1>4 DEF Drop, NextCandle, vars, config, loops
    <2>2. /\ OpenFills(Symbol, "buy")' = OpenFills(Symbol, "buy") /\ Position' = Position
          /\ AverageOfPurchases' <=> AverageOfPurchases
      BY <2>1, OpenAfterNothing
    <2> QED
      BY <2>1, <2>2 DEF ValuesFollowPosition
  <1>5. CASE Raise \/ SymbolDone
    <2>1. at' \notin {"decide", "execute"}
      BY <1>5 DEF Raise, SymbolDone
    <2> QED
      BY <2>1 DEF ValuesFollowPosition
  <1> QED
    BY <1>1, <1>2, <1>3, <1>4, <1>5 DEF Next, Terminated

-----------------------------------------------------------------------------
(* The books. *)

(* Nothing is booked without a fill. *)
LEMMA NextBooked ==
  TypeOK /\ AnalysisMatchesLedger /\ CostsFollowCash /\ [Next]_vars
    => AnalysisMatchesLedger' /\ CostsFollowCash'
  <1> SUFFICES ASSUME TypeOK, AnalysisMatchesLedger, CostsFollowCash, [Next]_vars
               PROVE  AnalysisMatchesLedger' /\ CostsFollowCash'
    OBVIOUS
  <1>1. CASE Execute
    <2>1. FillOf(Head(intents)).side \in {"buy", "sell"}
      BY <1>1, ExecuteEffect DEF Fill
    <2> QED
      BY <1>1, <2>1, PurchaseBooked, SaleBooked
  <1>2. CASE UNCHANGED ledger
    BY <1>2 DEF AnalysisMatchesLedger, CostsFollowCash, Analysed
  <1> QED
    BY <1>1, <1>2, LedgerUnchanged

(* The books agree before the first fill. *)
LEMMA InitBooks == Init => BooksInv
  <1> SUFFICES ASSUME Init PROVE BooksInv
    OBVIOUS
  <1>1. PICK cash \in Capitals : ledger = NewLedger(cash)
    BY DEF Init
  <1>2. /\ ledger.initial = cash /\ ledger.cash = cash /\ ledger.fills = <<>>
        /\ \A s \in Symbols : ledger.positions[s].quantity = 0
        /\ cash \in Nat /\ at = "open"
    BY <1>1, BacktestEngineAssumption DEF NewLedger, Flat, Init
  <1>3. Analysed = Start(cash)
    BY <1>2, AnalysisOfNothing DEF Analysed
  <1>4. AnalysisMatchesLedger
    BY <1>2, <1>3 DEF AnalysisMatchesLedger, Analysed, Start
  <1>5. CostsFollowCash
    <2> DEFINE none == [s \in Symbols |-> 0]
    <2>1. none \in [Symbols -> Nat] /\ none \in [Symbols -> Int] /\ \A s \in Symbols : none[s] = 0
      OBVIOUS
    <2>2. SumFunctionOnSet(none, Symbols) = 0
      <3> HIDE DEF none
      <3>1. {} \in SUBSET Symbols /\ IsFiniteSet(Symbols) /\ IsFiniteSet({})
        BY BacktestEngineAssumption, FS_EmptySet
      <3>2. SumFunctionOnSet(none, Symbols) = SumFunctionOnSet(none, {})
        BY <2>1, <3>1, SumOfSome
      <3> QED
        BY <3>1, <3>2, SumTaken
    <2>3. Analysed = [cash |-> cash, realized |-> 0, quantities |-> none, costs |-> none]
      BY <1>3 DEF Start
    <2> HIDE DEF none
    <2> QED
      BY <1>2, <2>1, <2>2, <2>3 DEF CostsFollowCash
  <1>6. FillsAddUp
    <2> SUFFICES ASSUME NEW s \in Symbols PROVE HeldAfter(s, Len(ledger.fills)) = 0
      BY <1>2 DEF FillsAddUp
    <2>1. {i \in 1..Len(ledger.fills) : ledger.fills[i].symbol = s} = {}
      BY <1>2
    <2> QED
      BY <2>1, SumTaken, FS_EmptySet DEF HeldAfter
  <1>7. ValuesFollowPosition
    BY <1>2 DEF ValuesFollowPosition
  <1> QED
    BY <1>4, <1>5, <1>6, <1>7 DEF BooksInv

(* The books agree after every step: the ledger of backtest/ledger.py, the  *)
(* analysis of backtest/analysis.py and the values of backtest/engine.py.   *)
THEOREM BooksInvariance == Spec => []BooksInv
  <1>1. IInv /\ BooksInv /\ [Next]_vars => BooksInv'
    BY NextBooked, NextFillsAddUp, NextValues DEF IInv, BooksInv
  <1> QED
    BY <1>1, InitBooks, Invariance, PTL DEF Spec

(* Whatever was traded, the analysis that replays the fills on its own      *)
(* (backtest/analysis.py:32-56) has the cash and the quantities the ledger  *)
(* kept while it booked them (backtest/ledger.py:28-55).                    *)
THEOREM AnalysisAlwaysMatches == Spec => []AnalysisMatchesLedger
  <1>1. BooksInv => AnalysisMatchesLedger
    BY DEF BooksInv
  <1> QED
    BY <1>1, BooksInvariance, PTL

(* What a strategy is told is that of the holding at hand, for any series   *)
(* of candles: as many entries as purchases since it was flat, an average   *)
(* price between the prices of these, and a peak and a holding time of no   *)
(* earlier holding (backtest/engine.py:105-152, backtest/ledger.py:35-57).  *)
THEOREM ValuesAlwaysFollow == Spec => []ValuesFollowPosition
  <1>1. BooksInv => ValuesFollowPosition
    BY DEF BooksInv
  <1> QED
    BY <1>1, BooksInvariance, PTL

(* What the accounts tell of the profit. *)
LEMMA ProfitOfBooks == TypeOK /\ AnalysisMatchesLedger /\ CostsFollowCash => ProfitAddsUp
  <1> SUFFICES ASSUME TypeOK, AnalysisMatchesLedger, CostsFollowCash,
                      NEW prices \in [Symbols -> {c.close : c \in Candles}]
               PROVE  Analysed.realized + Unrealized(Analysed, prices)
                        = Equity(ledger, prices) - ledger.initial
    BY DEF ProfitAddsUp, Analysed
  <1> DEFINE a == Analysed
             held == {s \in Symbols : a.quantities[s] # 0}
             worth == [s \in Symbols |-> One * a.quantities[s] * prices[s]]
             marked == [s \in Symbols |-> One * ledger.positions[s].quantity * prices[s]]
  <1>1. /\ a \in Accounts
        /\ \A r \in Symbols : a.quantities[r] = ledger.positions[r].quantity
        /\ \A r \in Symbols : ledger.positions[r].quantity = 0 => a.costs[r] = 0
        /\ a.realized - SumFunctionOnSet(a.costs, Symbols) = ledger.cash - ledger.initial
    BY CostsType DEF AnalysisMatchesLedger, Analysed
  <1>2. Unrealized(a, prices) = SumFunctionOnSet(worth, Symbols) - SumFunctionOnSet(a.costs, held)
    BY DEF Unrealized, PositionValue, SumFunction
  <1>3. Equity(ledger, prices) = ledger.cash + SumFunctionOnSet(marked, Symbols)
    BY DEF Equity, SumFunction
  <1>4. worth = marked
    BY <1>1
  <1> HIDE DEF a
  <1>5. /\ a.quantities \in [Symbols -> Nat] /\ a.costs \in [Symbols -> Int] /\ a.realized \in Int
        /\ IsFiniteSet(Symbols)
    BY <1>1, BacktestEngineAssumption DEF Accounts
  <1>6. SumFunctionOnSet(worth, Symbols) \in Int
    <2>1. ASSUME NEW s \in Symbols PROVE worth[s] \in Int
      <3>1. prices[s] \in Nat
        <4>1. PICK c \in Candles : prices[s] = c.close
          OBVIOUS
        <4> QED
          BY <4>1, CandleType
      <3>2. a.quantities[s] \in Nat
        BY <1>5
      <3>3. PICK q \in Nat, p \in Nat, one \in Nat :
              q = a.quantities[s] /\ p = prices[s] /\ one = One
        BY <3>1, <3>2, LedgerAssumption
      <3>4. one * q \in Nat
        BY NatProduct
      <3>5. (one * q) * p \in Nat
        <4> DEFINE m == one * q
        <4>1. m \in Nat
          BY <3>4
        <4> HIDE DEF m
        <4>2. m * p \in Nat
          BY <4>1, NatProduct
        <4> QED
          BY <4>2 DEF m
      <3>6. worth[s] = (one * q) * p
        BY <3>3
      <3> HIDE DEF worth
      <3> QED
        BY <3>5, <3>6
    <2> HIDE DEF worth
    <2> QED
      BY <1>5, <2>1, SumIsInt
  <1>7. SumFunctionOnSet(a.costs, held) = SumFunctionOnSet(a.costs, Symbols)
    <2>1. held \in SUBSET Symbols /\ \A s \in Symbols \ held : a.costs[s] = 0
      BY <1>1
    <2> HIDE DEF held
    <2> QED
      BY <1>5, <2>1, SumOfSome
  <1>8. SumFunctionOnSet(a.costs, Symbols) \in Int
    BY <1>5, SumIsInt
  <1>9. ledger.cash \in Int /\ ledger.initial \in Int
    <2>1. ledger.initial \in Capitals /\ Capitals \subseteq Nat /\ ledger.cash \in Nat
      BY HereType, BacktestEngineAssumption DEF Ledgers
    <2>2. ledger.initial \in Nat
      BY <2>1
    <2> QED
      BY <2>1, <2>2
  <1> HIDE DEF worth, marked, held
  <1>10. a.realized + Unrealized(a, prices) = Equity(ledger, prices) - ledger.initial
    BY <1>1, <1>2, <1>3, <1>4, <1>5, <1>6, <1>7, <1>8, <1>9
  <1> QED
    BY <1>10 DEF a

(* The profit a page shows, realised and unrealised, marked at any prices   *)
(* (backtest/analysis.py:45-54, 82-91), is the equity the ledger has at     *)
(* those prices (backtest/ledger.py:57-63) less what it began with: no      *)
(* rounding of a share of the cost is ever lost.                            *)
THEOREM ProfitAlwaysAddsUp == Spec => []ProfitAddsUp
  <1>1. IInv /\ BooksInv => ProfitAddsUp
    BY ProfitOfBooks DEF IInv, BooksInv
  <1> QED
    BY <1>1, Invariance, BooksInvariance, PTL
=============================================================================
