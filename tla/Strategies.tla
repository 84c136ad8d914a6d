----------------------------- MODULE Strategies -----------------------------
(***************************************************************************)
(* What the three strategies ask for when a candle closes (strategies/).   *)
(*                                                                         *)
(* A strategy is a pure function of the candle that closed, its position   *)
(* and the values the engine keeps for it.  Moving averages, RSI and       *)
(* Bollinger bands are data: what they say is the argument `signal`, free  *)
(* as soon as there are candles enough to compute them.  The grid is       *)
(* computed from the prices.                                               *)
(***************************************************************************)
EXTENDS Ledger, SequencesExt

CONSTANTS
    \* TrendConfig; a TakeProfit of 0 stands for None
    SlowPeriod, Confirmation, ExitConfirmation,
    FixedStop, TrailingStop, TakeProfit, EntryAllocation, Cooldown,
    \* MeanReversionConfig
    RsiPeriod, BollingerPeriod, StagedEntries, StagedDistance, MaxHolding,
    StopLoss, ReversionProfit, MinimumProfit,
    \* GridConfig, with arithmetic spacing
    LowerBound, UpperBound, GridCount, CapitalPerGrid, MaximumInventory,
    CloseOutOfRange, GridStop

ASSUME StrategiesAssumption ==
    /\ {SlowPeriod, Confirmation, ExitConfirmation, RsiPeriod, BollingerPeriod,
        MaxHolding, LowerBound, UpperBound, GridCount}
           \subseteq Nat \ {0}
    \* a stage is a share of the cash that One can express (config.py:71)
    /\ StagedEntries \in 1..One
    /\ {FixedStop, TrailingStop, StagedDistance, StopLoss, GridStop} \subseteq 1..(One - 1)
    /\ {EntryAllocation, CapitalPerGrid, MaximumInventory} \subseteq 1..One
    /\ {TakeProfit, ReversionProfit, MinimumProfit, Cooldown} \subseteq Nat
    /\ LowerBound < UpperBound /\ CloseOutOfRange \in BOOLEAN

-----------------------------------------------------------------------------
MarketSell(symbol, quantity) ==
    [symbol |-> symbol, side |-> "sell", allocation |-> 0, quantity |-> quantity,
     limit |-> 0]

MarketBuy(symbol, allocation) ==
    [symbol |-> symbol, side |-> "buy", allocation |-> allocation, quantity |-> 0,
     limit |-> 0]

(* price <= average * (1 - loss), and price >= average * (1 + gain). *)
FallenBy(price, average, loss) == price * One <= average * (One - loss)
RisenBy(price, average, gain) == price * One >= average * (One + gain)

(* What is known after candle number `index`. *)
Signals == [entry : BOOLEAN, exit : BOOLEAN]

-----------------------------------------------------------------------------
(* TrendStrategy *)

(* A cross needs `confirmation` candles after one with both averages.      *)
CrossKnown(index, confirmation) == index + 1 >= SlowPeriod + confirmation

(* Faulty variant: the fixed stop only. *)
TrendExitsUntrailed(index, close, position, values, signal) ==
    \/ FallenBy(close, position.average, FixedStop)
    \/ TakeProfit # 0 /\ RisenBy(close, position.average, TakeProfit)
    \/ signal.exit /\ CrossKnown(index, ExitConfirmation)

TrendExits(index, close, position, values, signal) ==
    \/ FallenBy(close, position.average, FixedStop)
    \/ FallenBy(close, values.peak, TrailingStop)
    \/ TakeProfit # 0 /\ RisenBy(close, position.average, TakeProfit)
    \/ signal.exit /\ CrossKnown(index, ExitConfirmation)

CoolingDown(index, values) ==
    values.lastExit # -1 /\ index - values.lastExit <= Cooldown

TrendIntents(symbol, index, close, position, values, signal) ==
    CASE position.quantity > 0 /\ TrendExits(index, close, position, values, signal) ->
           <<MarketSell(symbol, position.quantity)>>
      [] /\ position.quantity = 0 /\ ~CoolingDown(index, values)
         /\ signal.entry /\ CrossKnown(index, Confirmation) ->
           <<MarketBuy(symbol, EntryAllocation)>>
      [] OTHER -> <<>>

-----------------------------------------------------------------------------
(* MeanReversionStrategy *)

IndicatorsKnown(index) == index + 1 > RsiPeriod /\ index + 1 >= BollingerPeriod

ReversionExits(close, position, values, signal) ==
    \/ FallenBy(close, position.average, StopLoss)
    \/ RisenBy(close, position.average, ReversionProfit)
    \/ values.holding >= MaxHolding
    \/ signal.exit /\ RisenBy(close, position.average, MinimumProfit)

StageOpen(close, values) ==
    /\ values.entries < StagedEntries
    /\ values.entries > 0 => FallenBy(close, values.lastEntry, StagedDistance)

ReversionIntents(symbol, index, close, position, values, signal) ==
    CASE ~IndicatorsKnown(index) -> <<>>
      [] /\ IndicatorsKnown(index) /\ position.quantity > 0
         /\ ReversionExits(close, position, values, signal) ->
           <<MarketSell(symbol, position.quantity)>>
      [] /\ IndicatorsKnown(index) /\ signal.entry /\ StageOpen(close, values)
         /\ ~(position.quantity > 0 /\ ReversionExits(close, position, values, signal)) ->
           <<MarketBuy(symbol, RoundDiv(One, StagedEntries))>>
      [] OTHER -> <<>>

-----------------------------------------------------------------------------
(* GridStrategy *)

Level(i) == LowerBound + RoundDiv(UpperBound - LowerBound, GridCount) * i
Levels == {Level(i) : i \in 0..GridCount}

(* The path a candle is taken to have followed. *)
Path(candle) ==
    IF candle.close <= candle.open
    THEN <<candle.open, candle.low, candle.high, candle.close>>
    ELSE <<candle.open, candle.high, candle.low, candle.close>>

Crossings(side, levels) == [i \in DOMAIN levels |-> [side |-> side, level |-> levels[i]]]

(* sorted *)
Ascending(S) ==
    CHOOSE f \in [1..Cardinality(S) -> S] : \A i, j \in DOMAIN f : i < j => f[i] < f[j]

(* Levels crossed on the way down buy, levels crossed on the way up sell.  *)
CrossedOn(start, end) ==
    Crossings("buy", Reverse(Ascending({l \in Levels : end <= l /\ l < start})))
    \o Crossings("sell", Ascending({l \in Levels : start < l /\ l <= end}))

CrossedLevels(candle) ==
    LET path == Path(candle)
    IN  CrossedOn(path[1], path[2]) \o CrossedOn(path[2], path[3])
            \o CrossedOn(path[3], path[4])

BuyAt(symbol, level) ==
    [symbol |-> symbol, side |-> "buy", quantity |-> 0, allocation |-> CapitalPerGrid,
     limit |-> level]

SellAt(symbol, size, level) ==
    [symbol |-> symbol, side |-> "sell", quantity |-> size, allocation |-> 0,
     limit |-> level]

(* Faulty variant: without a position it offers nothing for sale. *)
TakeCrossingEmptySale(symbol, size, acc, crossing) ==
    CASE crossing.side = "buy" /\ acc.inventory < MaximumInventory ->
           [acc EXCEPT !.inventory = @ + CapitalPerGrid,
                       !.intents = Append(@, BuyAt(symbol, crossing.level))]
      [] crossing.side = "sell" /\ acc.held >= size ->
           [acc EXCEPT !.held = @ - size,
                       !.intents = Append(@, SellAt(symbol, size, crossing.level))]
      [] OTHER -> acc

(* Each crossing asks for an order, until the inventory bought in this very *)
(* batch reaches its limit or what was held is on its way out.              *)
TakeCrossing(symbol, size, acc, crossing) ==
    CASE crossing.side = "buy" /\ acc.inventory < MaximumInventory ->
           [acc EXCEPT !.inventory = @ + CapitalPerGrid,
                       !.intents = Append(@, BuyAt(symbol, crossing.level))]
      [] crossing.side = "sell" /\ size > 0 /\ acc.held >= size ->
           [acc EXCEPT !.held = @ - size,
                       !.intents = Append(@, SellAt(symbol, size, crossing.level))]
      [] OTHER -> acc

GridOrders(symbol, candle, quantity) ==
    LET size == RoundDiv(quantity, GridCount)
        Take(acc, crossing) == TakeCrossing(symbol, size, acc, crossing)
    IN  FoldLeft(Take, [inventory |-> 0, held |-> quantity, intents |-> <<>>],
                 CrossedLevels(candle)).intents

OutOfRange(close) == close < LowerBound \/ close > UpperBound

(* Faulty variant: outside its range the grid does nothing, stop or not. *)
GridIntentsRangeFirst(symbol, candle, position) ==
    LET holding == position.quantity > 0
    IN  CASE OutOfRange(candle.close) ->
               IF CloseOutOfRange /\ holding
               THEN <<MarketSell(symbol, position.quantity)>> ELSE <<>>
          [] ~OutOfRange(candle.close) /\ holding
               /\ FallenBy(candle.close, position.average, GridStop) ->
               <<MarketSell(symbol, position.quantity)>>
          [] OTHER -> GridOrders(symbol, candle, position.quantity)

GridIntents(symbol, candle, position) ==
    LET holding == position.quantity > 0
        stopped == holding /\ FallenBy(candle.close, position.average, GridStop)
    IN  CASE stopped \/ (OutOfRange(candle.close) /\ CloseOutOfRange /\ holding) ->
               <<MarketSell(symbol, position.quantity)>>
          [] OutOfRange(candle.close) /\ ~stopped /\ ~(CloseOutOfRange /\ holding) -> <<>>
          [] OTHER -> GridOrders(symbol, candle, position.quantity)

-----------------------------------------------------------------------------
(* Strategy.generate *)
Generate(kind, symbol, index, candle, position, values, signal) ==
    CASE kind = "trend" ->
           TrendIntents(symbol, index, candle.close, position, values, signal)
      [] kind = "mean_reversion" ->
           ReversionIntents(symbol, index, candle.close, position, values, signal)
      [] kind = "grid" -> GridIntents(symbol, candle, position)
=============================================================================
