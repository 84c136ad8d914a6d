------------------------------ MODULE Analysis ------------------------------
(***************************************************************************)
(* The profit and loss replayed from the fills of a ledger, which is what  *)
(* the pages and the stored runs show (backtest/analysis.py).  It keeps    *)
(* the cost of what is held, fees included, on its own: nothing of it is   *)
(* taken from the ledger's balances.                                       *)
(***************************************************************************)
EXTENDS Ledger, SequencesExt

(* Faulty variant: the cost of what was sold stays with what is held. *)
ReplayKeepsCost(acc, f) ==
    LET held == acc.quantities[f.symbol]
        paid == Notional(f) + Fee(f)
        received == Notional(f) - Fee(f)
        allocated == IF held = 0 THEN 0
                     ELSE RoundDiv(acc.costs[f.symbol] * f.quantity, held)
    IN  IF f.side = "buy"
        THEN [acc EXCEPT !.cash = @ - paid,
                         !.quantities[f.symbol] = @ + f.quantity,
                         !.costs[f.symbol] = @ + paid]
        ELSE [acc EXCEPT !.cash = @ + received,
                         !.quantities[f.symbol] = @ - f.quantity,
                         !.realized = @ + received - allocated]

(* One fill: a sale takes its share of the cost with it. *)
Replay(acc, f) ==
    LET held == acc.quantities[f.symbol]
        paid == Notional(f) + Fee(f)
        received == Notional(f) - Fee(f)
        allocated == IF held = 0 THEN 0
                     ELSE RoundDiv(acc.costs[f.symbol] * f.quantity, held)
    IN  IF f.side = "buy"
        THEN [acc EXCEPT !.cash = @ - paid,
                         !.quantities[f.symbol] = @ + f.quantity,
                         !.costs[f.symbol] = @ + paid]
        ELSE [acc EXCEPT !.cash = @ + received,
                         !.quantities[f.symbol] = @ - f.quantity,
                         !.costs[f.symbol] = @ - allocated,
                         !.realized = @ + received - allocated]

AnalyzeLedger(initial, fills) ==
    FoldLeft(Replay,
             [cash |-> initial, realized |-> 0,
              quantities |-> [s \in Symbols |-> 0], costs |-> [s \in Symbols |-> 0]],
             fills)

(* The summary, marked at `prices`. *)
PositionValue(analysis, prices) ==
    SumFunction([s \in Symbols |-> One * analysis.quantities[s] * prices[s]])

Unrealized(analysis, prices) ==
    PositionValue(analysis, prices)
        - SumFunctionOnSet(analysis.costs, {s \in Symbols : analysis.quantities[s] # 0})

(* Ledger.equity *)
Equity(ledger, prices) ==
    ledger.cash + SumFunction([s \in Symbols |-> One * ledger.positions[s].quantity * prices[s]])
=============================================================================
