------------------------------- MODULE Ledger -------------------------------
(***************************************************************************)
(* The virtual ledger of one strategy and the execution model that turns   *)
(* an order intent into a fill (backtest/ledger.py, backtest/execution.py, *)
(* backtest/types.py).                                                     *)
(*                                                                         *)
(* Decimals are integers here.  A quantity and a price count their         *)
(* smallest unit, a ratio (fee rate, slippage, allocation, weight) counts  *)
(* units of 1/One, and an amount of money counts units of 1/One of         *)
(* quantity * price, so that products are exact; a quotient is rounded     *)
(* half to even, as the Decimal context does at its 28th digit.            *)
(***************************************************************************)
EXTENDS Integers, Sequences

CONSTANTS Symbols,
          One,      \* the denominator of every ratio
          FeeRate   \* config.fee_rate

ASSUME LedgerAssumption == One \in Nat \ {0} /\ FeeRate \in 0..(One - 1)

-----------------------------------------------------------------------------
Larger(a, b) == IF a >= b THEN a ELSE b
Smaller(a, b) == IF a <= b THEN a ELSE b

(* n / d, rounded half to even. *)
RoundDiv(n, d) ==
    LET q == n \div d
        twice == 2 * (n % d)
    IN  IF twice > d \/ (twice = d /\ q % 2 = 1) THEN q + 1 ELSE q

Flat == [quantity |-> 0, average |-> 0]

NewLedger(cash) ==
    [initial |-> cash, cash |-> cash, positions |-> [s \in Symbols |-> Flat],
     fills |-> <<>>]

Fill == [symbol : Symbols, side : {"buy", "sell"}, quantity : Nat \ {0},
         price : Nat \ {0}, time : Nat]

Notional(f) == One * f.quantity * f.price
Fee(f) == FeeRate * f.quantity * f.price

-----------------------------------------------------------------------------
(* Ledger.apply *)

(* Faulty variant: the fee of a sale is forgotten. *)
CashAfterFreeSale(ledger, f) ==
    IF f.side = "buy" THEN ledger.cash - (Notional(f) + Fee(f))
                      ELSE ledger.cash + Notional(f)

(* The money and the inventory a fill leaves behind. *)
CashAfter(ledger, f) ==
    IF f.side = "buy" THEN ledger.cash - (Notional(f) + Fee(f))
                      ELSE ledger.cash + Notional(f) - Fee(f)

QuantityAfter(ledger, f) ==
    LET held == ledger.positions[f.symbol].quantity
    IN  IF f.side = "buy" THEN held + f.quantity ELSE held - f.quantity

(* The average price moves with purchases only. *)
AverageAfter(ledger, f) ==
    LET held == ledger.positions[f.symbol]
    IN  IF f.side = "buy"
        THEN RoundDiv(held.quantity * held.average + f.quantity * f.price,
                      QuantityAfter(ledger, f))
        ELSE IF QuantityAfter(ledger, f) = 0 THEN 0 ELSE held.average

(* What apply refuses with ValueError. *)
Accepts(ledger, f) ==
    /\ f.side = "buy" => Notional(f) + Fee(f) <= ledger.cash
    /\ f.side = "sell" => f.quantity <= ledger.positions[f.symbol].quantity
    /\ CashAfter(ledger, f) >= 0 /\ QuantityAfter(ledger, f) >= 0

(* Faulty variant: a purchase is charged its fee twice. *)
ApplyFeeTwice(ledger, f) ==
    [ledger EXCEPT
        !.cash = CashAfter(ledger, f) - (IF f.side = "buy" THEN Fee(f) ELSE 0),
        !.positions[f.symbol] = [quantity |-> QuantityAfter(ledger, f),
                                 average  |-> AverageAfter(ledger, f)],
        !.fills = Append(@, f)]

Apply(ledger, f) ==
    [ledger EXCEPT
        !.cash = CashAfter(ledger, f),
        !.positions[f.symbol] = [quantity |-> QuantityAfter(ledger, f),
                                 average  |-> AverageAfter(ledger, f)],
        !.fills = Append(@, f)]

-----------------------------------------------------------------------------
(* ExecutionModel.  An intent carries a size as an allocation or as a      *)
(* quantity, the other being 0, and is a limit order unless its limit is 0.*)

Intent ==
    {i \in [symbol : Symbols, side : {"buy", "sell"}, allocation : 0..One,
            quantity : Nat, limit : Nat] : i.allocation > 0 \/ i.quantity > 0}

MarketPrice(side, base, slippage) ==
    RoundDiv(base * (IF side = "buy" THEN One + slippage ELSE One - slippage), One)

(* The candle after the decision decides whether a limit order is filled.  *)
Reached(intent, candle) ==
    \/ intent.limit = 0
    \/ intent.side = "buy" /\ candle.low <= intent.limit
    \/ intent.side = "sell" /\ candle.high >= intent.limit

EligiblePrice(intent, candle, slippage) ==
    CASE intent.limit = 0     -> MarketPrice(intent.side, candle.open, slippage)
      [] intent.limit # 0 /\ intent.side = "buy"  -> Smaller(candle.open, intent.limit)
      [] intent.limit # 0 /\ intent.side = "sell" -> Larger(candle.open, intent.limit)

(* `weight` is the share of the symbol the engine multiplies the allocation*)
(* of a purchase with.                                                     *)
Quantity(intent, weight, price, ledger) ==
    CASE intent.quantity # 0 -> intent.quantity
      [] intent.quantity = 0 /\ intent.side = "buy" ->
           RoundDiv(ledger.cash * intent.allocation * weight,
                    price * (One + FeeRate) * One * One)
      [] intent.quantity = 0 /\ intent.side = "sell" ->
           RoundDiv(ledger.positions[intent.symbol].quantity * intent.allocation, One)

(* Faulty variant: the fee is not part of what the cash has to pay.        *)
FillableBeforeFee(f, ledger) ==
    /\ f.quantity > 0
    /\ f.side = "buy" => Notional(f) <= ledger.cash
    /\ f.side = "sell" => f.quantity <= ledger.positions[f.symbol].quantity

(* Neither a purchase the cash cannot pay nor a sale of more than is held. *)
Fillable(f, ledger) ==
    /\ f.quantity > 0
    /\ f.side = "buy" => Notional(f) + Fee(f) <= ledger.cash
    /\ f.side = "sell" => f.quantity <= ledger.positions[f.symbol].quantity
=============================================================================
