---------------------------- MODULE PaperStrategy ----------------------------
(***************************************************************************)
(* PaperRuntime._process_strategy (paper/runtime.py) beside the backtest:  *)
(* both play the same closed candles of one symbol, the backtest as a pass *)
(* over the series, the paper session one event at a time from what its    *)
(* last checkpoint kept.  An event makes the decision of the candle before *)
(* it and executes it at once.                                             *)
(*                                                                         *)
(* With several symbols the two differ by design of the loop: the backtest *)
(* plays them one after the other, a session plays candles as they close.  *)
(* The session here follows universes of one symbol.                       *)
(***************************************************************************)
EXTENDS BacktestEngine

CONSTANT Window   \* the candles a session keeps: 1002

ASSUME PaperStrategyAssumption == Window \in Nat \ {0, 1}

VARIABLE paper   \* the state snapshot: candles closed, fills, values; and if on_candle raised

replayVars == <<vars, paper>>

-----------------------------------------------------------------------------
(* The ledger is rebuilt from its fills on every event.                     *)
Rebuilt == FoldLeft(Apply, NewLedger(ledger.initial), paper.fills)

(* Faulty variant: the window includes the candle of the event. *)
DecisionIndexAtEvent(closed) == Smaller(closed, Window) - 1

(* len(candles) - 2, of the candles that are left after the cut.            *)
DecisionIndex(closed) == Smaller(closed, Window) - 2

(* One order of the decision of candle i on what the orders before it have  *)
(* left, executed against candle c with the steps of the engine.            *)
Ordered(book, intent, i, c) ==
    LET f == FillAt(book.ledger, i, c, intent)
        fill == [f EXCEPT !.time = paper.closed]
    IN  IF book.raised \/ ~(Reached(intent, c) /\ Fillable(f, book.ledger)) THEN book
        ELSE IF ~(f.price > 0 /\ Accepts(book.ledger, f)) THEN [book EXCEPT !.raised = TRUE]
        ELSE [ledger |-> Apply(book.ledger, fill), raised |-> FALSE,
              values |-> AfterFill(book.values, i, f, QuantityAfter(book.ledger, f))]

(* The batch of a decision, order by order. *)
Settled(start, batch, i, c) ==
    LET Take(book, intent) == Ordered(book, intent, i, c)
    IN  FoldLeft(Take, start, batch)

(* The snapshot after the event of candle c; `candle` closed before it, and *)
(* `signal` is what the indicators say of the window.  Nothing is kept when *)
(* an order raises.                                                         *)
Processed(c, signal) ==
    LET i == DecisionIndex(paper.closed + 1)
        position == Rebuilt.positions[Symbol]
        prepared == Prepared(paper.values, position, candle.close)
        batch == Generate(kind, Symbol, i, candle, position, prepared, signal)
        book == Settled([ledger |-> Rebuilt, values |-> prepared,
                         raised |-> batch \notin Seq(Intent)], batch, i, c)
    IN  IF book.raised THEN [paper EXCEPT !.raised = TRUE]
        ELSE [closed |-> paper.closed + 1, fills |-> book.ledger.fills,
              values |-> book.values, raised |-> FALSE]

-----------------------------------------------------------------------------
Following == Len(universe) = 1

ReplayInit ==
    /\ Init
    /\ paper = [closed |-> 0, fills |-> <<>>, values |-> NoValues, raised |-> FALSE]

(* With a single candle there is nothing to decide yet. *)
FirstEvent ==
    /\ OpenSymbol
    /\ paper' = IF Following THEN [paper EXCEPT !.closed = 1] ELSE paper

(* A candle whose orders raise is delivered again, with the same result.    *)
Event ==
    \E c \in Candles, signal \in Signals :
        /\ DecideOn(c, signal)
        /\ paper' = IF Following /\ ~paper.raised THEN Processed(c, signal) ELSE paper

ReplayNext ==
    \/ FirstEvent \/ Event
    \/ (Drop \/ Execute \/ Raise \/ NextCandle \/ SymbolDone \/ Terminated) /\ UNCHANGED paper

ReplaySpec == ReplayInit /\ [][ReplayNext]_replayVars

-----------------------------------------------------------------------------
(* As long as the window has not been cut, a session that replays every     *)
(* ledger from its fills on every event, and decides one event later than   *)
(* the backtest, has made the same fills at the same candles and keeps the  *)
(* same values when the backtest is through with the candle; where the      *)
(* backtest raises, so does the session (paper/runtime.py:43-88).           *)
PaperAgrees ==
    Following /\ index + 2 <= Window =>
        /\ at = "execute" /\ intents = <<>> =>
             /\ paper.fills = ledger.fills /\ paper.values = values /\ Rebuilt = ledger
             /\ ~paper.raised
        /\ at = "raised" => paper.raised

(* "Cooldown candle count.": a session holds an entry back for as many      *)
(* candles after an exit as configured, no more (trend.py:27-32,            *)
(* paper/runtime.py:48,62).                                                 *)
CooldownEnds ==
    /\ kind = "trend" /\ Following /\ paper.closed >= 2
    /\ CoolingDown(DecisionIndex(paper.closed), paper.values)
    => \E n \in DOMAIN paper.fills :
         paper.fills[n].side = "sell" /\ paper.closed - 1 - paper.fills[n].time <= Cooldown
=============================================================================
