--------------------------- MODULE BacktestEngine ---------------------------
(***************************************************************************)
(* BacktestEngine.run for one strategy: its symbols are played one after   *)
(* the other, each over the whole period, on the one ledger of the         *)
(* strategy; a decision made when a candle closes is executed against the  *)
(* next candle (backtest/engine.py).  The engine repeats this for every    *)
(* strategy, on a ledger of its own and without anything else in common,   *)
(* so a behaviour is the pass of the strategy chosen in Init.              *)
(***************************************************************************)
EXTENDS Strategies, Analysis

CONSTANTS Universes,   \* sorted symbols with their weight and number of candles
          Candles,     \* [open, high, low, close] of any candle
          Kinds,       \* the strategies to choose from
          Slippages,   \* the values of config.slippage_bps to choose from
          Capitals     \* the values of the strategy's initial cash

ASSUME BacktestEngineAssumption ==
    /\ IsFiniteSet(Symbols)
    /\ \A u \in Universes :
         /\ u # <<>>
         /\ u \in Seq([symbol : Symbols, weight : 1..One, length : Nat \ {0, 1}])
         /\ \A k, l \in DOMAIN u : u[k].symbol = u[l].symbol => k = l
    /\ Candles \subseteq [open : Nat \ {0}, high : Nat \ {0}, low : Nat \ {0},
                          close : Nat \ {0}]
    /\ Kinds \subseteq {"trend", "mean_reversion", "grid"}
    /\ Slippages \subseteq 0..One
    /\ Capitals \subseteq Nat
    \* the unit of a price is fine enough for what a sale has left of it; the
    \* code's decimals keep 28 digits of however small a price
    /\ \A c \in Candles, s \in Slippages : s < One => 2 * c.open * (One - s) > One

VARIABLES kind, slippage,     \* of the configuration
          universe,           \* the symbols of the strategy
          ledger,
          at,                 \* "open", "decide", "execute", "done" or "raised"
          turn, index,        \* the symbol and the candle of the two loops
          candle, next,       \* series[index] and series[index + 1]
          values,             \* StrategyState.values
          intents             \* what is left of the batch of orders

config == <<kind, slippage, universe>>
loops == <<turn, index, candle, next>>
vars == <<config, ledger, at, loops, values, intents>>

-----------------------------------------------------------------------------
Symbol == universe[turn].symbol
Position == ledger.positions[Symbol]

(* A peak of 0 stands for an absent one, a last exit of -1 for none.       *)
NoValues == [holding |-> 0, entries |-> 0, lastEntry |-> 0, peak |-> 0, lastExit |-> -1]

Values == [holding : Nat, entries : Nat, lastEntry : Nat, peak : Nat,
           lastExit : Nat \cup {-1}]

NoCandle == [open |-> 0, high |-> 0, low |-> 0, close |-> 0]

Init ==
    /\ kind \in Kinds /\ slippage \in Slippages /\ universe \in Universes
    /\ \E cash \in Capitals : ledger = NewLedger(cash)
    /\ at = "open" /\ turn = 1 /\ index = 0
    /\ candle = NoCandle /\ next = NoCandle
    /\ values = NoValues /\ intents = <<>>

(* The series of the next symbol, with a strategy and a state of its own.  *)
OpenSymbol ==
    /\ at = "open"
    /\ \E c \in Candles : candle' = c
    /\ at' = "decide" /\ index' = 0 /\ values' = NoValues
    /\ UNCHANGED <<config, ledger, turn, next, intents>>

-----------------------------------------------------------------------------
(* _before_decision, on the values v and a position, when a candle closes.  *)
Prepared(v, position, close) ==
    IF position.quantity = 0 THEN v
    ELSE [v EXCEPT !.holding = @ + 1, !.peak = Larger(@, close)]

BeforeDecision == Prepared(values, Position, candle.close)

(* The candle closes and the strategy decides; building an OrderIntent that *)
(* its model refuses raises.                                                *)
DecideOn(c, signal) ==
    LET batch == Generate(kind, Symbol, index, candle, Position, BeforeDecision, signal)
    IN  /\ at = "decide"
        /\ next' = c
        /\ intents' = batch
        /\ at' = IF batch \in Seq(Intent) THEN "execute" ELSE "raised"
        /\ values' = BeforeDecision
        /\ UNCHANGED <<config, ledger, turn, index, candle>>

Decide == \E c \in Candles, signal \in Signals : DecideOn(c, signal)

-----------------------------------------------------------------------------
(* ExecutionModel.fill: what an intent decided on at candle i is filled at, *)
(* by a ledger l and the candle c that follows.                             *)
FillAt(l, i, c, intent) ==
    LET price == EligiblePrice(intent, c, slippage)
    IN  [symbol |-> Symbol, side |-> intent.side, price |-> price, time |-> i + 1,
         quantity |-> Quantity(intent, universe[turn].weight, price, l)]

FillOf(intent) == FillAt(ledger, index, next, intent)

Filled(intent) == Reached(intent, next) /\ Fillable(FillOf(intent), ledger)

(* Faulty variant: a sale of everything leaves the index of the last exit. *)
AfterFillForgetsExit(v, i, f, quantity) ==
    IF f.side = "buy"
    THEN [v EXCEPT !.entries = @ + 1, !.lastEntry = f.price,
                   !.peak = Larger(@, f.price), !.holding = 0]
    ELSE IF quantity # 0 THEN v
    ELSE [v EXCEPT !.entries = 0, !.holding = 0, !.peak = 0]

(* Faulty variant: a sale of everything leaves the peak of the holding. *)
AfterFillKeepsPeak(v, i, f, quantity) ==
    IF f.side = "buy"
    THEN [v EXCEPT !.entries = @ + 1, !.lastEntry = f.price,
                   !.peak = Larger(@, f.price), !.holding = 0]
    ELSE IF quantity # 0 THEN v
    ELSE [v EXCEPT !.entries = 0, !.holding = 0, !.lastExit = i]

(* _after_fill on the values v, with the quantity held after the fill.     *)
AfterFill(v, i, f, quantity) ==
    IF f.side = "buy"
    THEN [v EXCEPT !.entries = @ + 1, !.lastEntry = f.price,
                   !.peak = Larger(@, f.price), !.holding = 0]
    ELSE IF quantity # 0 THEN v
    ELSE [v EXCEPT !.entries = 0, !.holding = 0, !.peak = 0, !.lastExit = i]

(* An order that is not filled is gone. *)
Drop ==
    /\ at = "execute" /\ intents # <<>> /\ ~Filled(Head(intents))
    /\ intents' = Tail(intents)
    /\ UNCHANGED <<config, ledger, at, loops, values>>

Execute ==
    /\ at = "execute" /\ intents # <<>> /\ Filled(Head(intents))
    /\ LET f == FillOf(Head(intents))
       IN  /\ f.price > 0 /\ Accepts(ledger, f)
           /\ ledger' = Apply(ledger, f)
           /\ values' = AfterFill(values, index, f, QuantityAfter(ledger, f))
    /\ intents' = Tail(intents)
    /\ UNCHANGED <<config, at, loops>>

(* A fill must have a price, and the ledger must accept it. *)
Raise ==
    /\ at = "execute" /\ intents # <<>> /\ Filled(Head(intents))
    /\ LET f == FillOf(Head(intents)) IN ~(f.price > 0 /\ Accepts(ledger, f))
    /\ at' = "raised"
    /\ UNCHANGED <<config, ledger, loops, values, intents>>

-----------------------------------------------------------------------------
(* The last candle of a series is never decided on. *)
NextCandle ==
    /\ at = "execute" /\ intents = <<>> /\ index + 2 < universe[turn].length
    /\ at' = "decide" /\ index' = index + 1 /\ candle' = next
    /\ UNCHANGED <<config, ledger, turn, next, values, intents>>

SymbolDone ==
    /\ at = "execute" /\ intents = <<>> /\ index + 2 >= universe[turn].length
    /\ IF turn < Len(universe)
       THEN at' = "open" /\ turn' = turn + 1
       ELSE at' = "done" /\ turn' = turn
    /\ UNCHANGED <<config, ledger, index, candle, next, values, intents>>

Terminated == at \in {"done", "raised"} /\ UNCHANGED vars

Next ==
    OpenSymbol \/ Decide \/ Drop \/ Execute \/ Raise \/ NextCandle \/ SymbolDone
    \/ Terminated

Spec == Init /\ [][Next]_vars

-----------------------------------------------------------------------------
(* Vocabulary of the properties. *)

Delta(f) == IF f.side = "buy" THEN f.quantity ELSE -f.quantity

Flow(f) == IF f.side = "buy" THEN -(Notional(f) + Fee(f)) ELSE Notional(f) - Fee(f)

(* What is held of s after the first n fills. *)
HeldAfter(s, n) ==
    SumFunctionOnSet([i \in DOMAIN ledger.fills |-> Delta(ledger.fills[i])],
                     {i \in 1..n : ledger.fills[i].symbol = s})

(* The purchases of s since it was last flat, and the sales among them.     *)
OpenFills(s, side) ==
    {n \in DOMAIN ledger.fills :
        /\ ledger.fills[n].symbol = s /\ ledger.fills[n].side = side
        /\ \A m \in n..Len(ledger.fills) : HeldAfter(s, m) > 0}

(* The average price of the holding lies between the prices it was bought at. *)
AverageOfPurchases ==
    Position.quantity > 0 =>
        \E low, high \in OpenFills(Symbol, "buy") :
            /\ ledger.fills[low].price <= Position.average
            /\ Position.average <= ledger.fills[high].price

(* The batch under way has bought. *)
Bought ==
    \E n \in DOMAIN ledger.fills :
        /\ ledger.fills[n].symbol = Symbol /\ ledger.fills[n].side = "buy"
        /\ ledger.fills[n].time = index + 1

(* The candle closed at or below a stop of the holding. *)
StopHit(v) ==
    \/ FallenBy(candle.close, Position.average,
                CASE kind = "trend" -> FixedStop
                  [] kind = "mean_reversion" -> StopLoss
                  [] kind = "grid" -> GridStop)
    \/ kind = "trend" /\ FallenBy(candle.close, v.peak, TrailingStop)

-----------------------------------------------------------------------------
(* Every variable has its type; in particular neither cash nor inventory is *)
(* ever negative (backtest/ledger.py:35-57).                                *)
TypeOK ==
    /\ kind \in Kinds /\ slippage \in Slippages /\ universe \in Universes
    /\ at \in {"open", "decide", "execute", "done", "raised"}
    /\ turn \in 1..Len(universe) /\ index \in Nat
    /\ candle \in Candles \cup {NoCandle} /\ next \in Candles \cup {NoCandle}
    /\ values \in Values
    /\ at = "execute" => intents \in Seq(Intent) /\ next \in Candles
    /\ ledger \in [initial : Capitals, cash : Nat, fills : Seq(Fill),
                   positions : [Symbols -> [quantity : Nat, average : Nat]]]

(* The ledger kept while trading and the analysis replayed from its fills   *)
(* afterwards agree on the cash and on every position, so no fill is booked *)
(* twice, lost, or booked for another amount (ledger.py, analysis.py:32-56).*)
AnalysisMatchesLedger ==
    LET analysis == AnalyzeLedger(ledger.initial, ledger.fills)
    IN  /\ analysis.cash = ledger.cash
        /\ \A s \in Symbols : analysis.quantities[s] = ledger.positions[s].quantity

(* Whatever prices the holdings are marked at, realised and unrealised      *)
(* profit add up to what the equity has gained, through partial sales and   *)
(* rounded shares of the cost (analysis.py:45-54,82-91).                    *)
ProfitAddsUp ==
    \A prices \in [Symbols -> {c.close : c \in Candles}] :
        LET analysis == AnalyzeLedger(ledger.initial, ledger.fills)
        IN  analysis.realized + Unrealized(analysis, prices)
                = Equity(ledger, prices) - ledger.initial

(* What a strategy is told belongs to the holding it has now: the entry     *)
(* count is the number of purchases since it was flat, the average price is *)
(* one of their prices or between them, and no peak and no holding time of  *)
(* an earlier holding survives an exit (engine.py:105-152, ledger.py:35-57).*)
ValuesFollowPosition ==
    at \in {"decide", "execute"} =>
        /\ values.entries = Cardinality(OpenFills(Symbol, "buy"))
        /\ AverageOfPurchases
        /\ Position.quantity = 0 <=> values.peak = 0
        /\ Position.quantity = 0 => values.holding = 0

(* Between an exit of the trend strategy and its next purchase of the same  *)
(* symbol lie more than cooldown_candles candles (trend.py:27-32).          *)
CooldownRespected ==
    kind = "trend" =>
        \A n, m \in DOMAIN ledger.fills :
            LET exit == ledger.fills[n]
                entry == ledger.fills[m]
            IN  n < m /\ exit.symbol = entry.symbol
                  /\ exit.side = "sell" /\ entry.side = "buy"
                => entry.time - exit.time > Cooldown

(* No position outlives a candle that closed at or below its stop: the sale *)
(* it calls for is never refused, and no other rule of a strategy goes      *)
(* first (trend.py:43-58, mean_reversion.py:67-70, grid.py:72-78).          *)
StopsHonoured ==
    /\ at = "execute" /\ intents = <<>> /\ Position.quantity > 0 /\ ~Bought
    => ~StopHit(values)

(* The ledger never refuses what the execution model let through: both      *)
(* compare the same cash and the same inventory (execution.py:29-33,        *)
(* ledger.py:36-51).                                                        *)
LedgerAccepts ==
    at = "execute" /\ intents # <<>> /\ Filled(Head(intents))
    => Accepts(ledger, FillOf(Head(intents)))

(* A run raises in one case only: slippage of the whole price leaves a sale *)
(* without a price (execution.py:34-42,86).  In particular the strategies   *)
(* never ask for an order their own model refuses (types.py:32-49).         *)
OnlyPricelessSalesRaise ==
    at = "raised" => slippage = One /\ intents # <<>> /\ Head(intents).side = "sell"

-----------------------------------------------------------------------------
(* What the documents say and the code does not do. *)

(* "Processes signals in chronological order": the fills of a strategy,     *)
(* taken in the order of their candles, never spend money that comes in     *)
(* only later (engine.py:66-80).                                            *)
FundedInTime ==
    \A t \in {f.time : f \in ToSet(ledger.fills)} :
        ledger.initial
          + SumFunctionOnSet([i \in DOMAIN ledger.fills |-> Flow(ledger.fills[i])],
                             {i \in DOMAIN ledger.fills : ledger.fills[i].time <= t}) >= 0

(* The grid adds no inventory at its configured limit: as long as it has    *)
(* sold nothing of a holding, it buys another share only while the shares   *)
(* bought are below maximum_inventory (grid.py:89-106).                     *)
GridInventoryBounded ==
    kind = "grid" =>
        \A s \in Symbols : OpenFills(s, "sell") = {} =>
            (Cardinality(OpenFills(s, "buy")) - 1) * CapitalPerGrid < MaximumInventory
=============================================================================
