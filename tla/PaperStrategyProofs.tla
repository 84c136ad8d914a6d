------------------------- MODULE PaperStrategyProofs -------------------------
(***************************************************************************)
(* A paper session that follows one symbol makes the fills of the          *)
(* backtest, for every series of candles and every configuration, as long  *)
(* as its window of candles has not been cut (PaperAgrees of               *)
(* PaperStrategy).                                                         *)
(***************************************************************************)
EXTENDS PaperStrategy, BacktestEngineProofs

-----------------------------------------------------------------------------
(* A ledger is rebuilt from its fills one by one. *)

(* g has the ledgers after the fills with the given indices. *)
IsRebuild(g, initial, fills) ==
  g = [s \in SUBSET DOMAIN fills |->
         IF s = {} THEN NewLedger(initial)
         ELSE Apply(g[s \ {Max(s)}], fills[Max(s)])]

Rebuild(initial, fills) == FoldLeft(Apply, NewLedger(initial), fills)

(* The library's definition of a fold. *)
LEMMA RebuildUnfold ==
  ASSUME NEW initial, NEW fills
  PROVE  Rebuild(initial, fills) = (CHOOSE g : IsRebuild(g, initial, fills))[DOMAIN fills]
  BY DEF Rebuild, FoldLeft, MapThenFoldSet, IsRebuild

(* The ledgers exist: each comes from one with a fill less. *)
LEMMA RebuildExists ==
  ASSUME NEW initial, NEW fills, NEW n \in Nat, DOMAIN fills = 1..n
  PROVE  \E g : IsRebuild(g, initial, fills)
  <1> DEFINE Body(g, s) == IF s = {} THEN NewLedger(initial)
                           ELSE Apply(g[s \ {Max(s)}], fills[Max(s)])
             Upto(g, k) == g = [s \in SUBSET (1..k) |-> Body(g, s)]
             Good == {k \in Nat : k <= n => \E g : Upto(g, k)}
  <1>1. 0 \in Good
    <2> DEFINE g == [s \in SUBSET (1..0) |-> NewLedger(initial)]
    <2>1. ASSUME NEW s \in SUBSET (1..0) PROVE s = {}
      OBVIOUS
    <2>2. Upto(g, 0)
      BY <2>1
    <2> HIDE DEF g, Upto
    <2> QED
      BY <2>2
  <1>2. ASSUME NEW k \in Nat, k \in Good, k + 1 <= n PROVE \E h : Upto(h, k + 1)
    <2>1. PICK g : Upto(g, k)
      <3> HIDE DEF Upto
      <3> QED
        BY <1>2
    <2> DEFINE h == [s \in SUBSET (1..(k + 1)) |-> Body(g, s)]
    <2>2. ASSUME NEW s \in SUBSET (1..k) PROVE s \in SUBSET (1..(k + 1)) /\ h[s] = g[s]
      <3>1. s \in SUBSET (1..(k + 1))
        OBVIOUS
      <3>2. g[s] = Body(g, s)
        BY <2>1
      <3> QED
        BY <3>1, <3>2
    <2>3. ASSUME NEW s \in SUBSET (1..(k + 1)), s # {} PROVE s \ {Max(s)} \in SUBSET (1..k)
      BY <2>3, WithoutLast
    <2>4. ASSUME NEW s \in SUBSET (1..(k + 1)) PROVE  h[s] = Body(h, s)
      <3>1. CASE s = {}
        BY <3>1
      <3>2. CASE s # {}
        <4>1. h[s \ {Max(s)}] = g[s \ {Max(s)}]
          BY <3>2, <2>2, <2>3
        <4>2. h[s] = Apply(g[s \ {Max(s)}], fills[Max(s)])
          BY <3>2
        <4> HIDE DEF h
        <4> QED
          BY <4>1, <4>2, <3>2
      <3> QED
        BY <3>1, <3>2
    <2>5. h = [s \in SUBSET (1..(k + 1)) |-> h[s]]
      OBVIOUS
    <2> HIDE DEF h, Body
    <2>6. Upto(h, k + 1)
      BY <2>4, <2>5
    <2> QED
      BY <2>6
  <1>3. n \in Good
    <2>1. ASSUME NEW k \in Nat, k \in Good PROVE k + 1 \in Good
      <3>1. CASE k + 1 <= n
        <4> HIDE DEF Upto
        <4> QED
          BY <3>1, <2>1, <1>2
      <3>2. CASE ~(k + 1 <= n)
        BY <3>2
      <3> QED
        BY <3>1, <3>2
    <2> HIDE DEF Good
    <2> QED
      BY <1>1, <2>1, InductionOnNat
  <1>4. PICK g : Upto(g, n)
    <2> HIDE DEF Upto
    <2> QED
      BY <1>3
  <1> QED
    BY <1>4 DEF IsRebuild

(* A fill more changes nothing of the ledger before. *)
LEMMA RebuildOfPrefix ==
  ASSUME NEW n \in Nat, NEW fills, DOMAIN fills = 1..n, NEW more, DOMAIN more = 1..(n + 1),
         \A k \in 1..n : more[k] = fills[k],
         NEW initial, NEW g, IsRebuild(g, initial, fills), NEW h, IsRebuild(h, initial, more)
  PROVE  /\ h[1..n] = g[1..n]
         /\ h[1..(n + 1)] = Apply(h[1..n], more[n + 1])
  <1> DEFINE Good == {k \in Nat : k <= n => h[1..k] = g[1..k]}
  <1>1. 0 \in Good
    <2>1. 1..0 = {} /\ {} \in SUBSET (1..n) /\ {} \in SUBSET (1..(n + 1))
      OBVIOUS
    <2> QED
      BY <2>1 DEF IsRebuild
  <1>2. ASSUME NEW k \in Nat, k \in Good PROVE k + 1 \in Good
    <2> SUFFICES ASSUME k + 1 <= n PROVE h[1..(k + 1)] = g[1..(k + 1)]
      OBVIOUS
    <2>1. 1..(k + 1) \in SUBSET (1..n) /\ 1..(k + 1) \in SUBSET (1..(n + 1)) /\ 1..(k + 1) # {}
      OBVIOUS
    <2>2. Max(1..(k + 1)) = k + 1 /\ (1..(k + 1)) \ {k + 1} = 1..k
      BY LastIndex
    <2>3. g[1..(k + 1)] = Apply(g[1..k], fills[k + 1])
      BY <2>1, <2>2, ZenonT(40) DEF IsRebuild
    <2>4. h[1..(k + 1)] = Apply(h[1..k], more[k + 1])
      BY <2>1, <2>2 DEF IsRebuild
    <2> QED
      BY <2>3, <2>4, <1>2
  <1>3. n \in Good
    <2> HIDE DEF Good
    <2> QED
      BY <1>1, <1>2, InductionOnNat
  <1>4. h[1..(n + 1)] = Apply(h[1..n], more[n + 1])
    <2>1. 1..(n + 1) \in SUBSET (1..(n + 1)) /\ 1..(n + 1) # {}
      OBVIOUS
    <2>2. Max(1..(n + 1)) = n + 1 /\ (1..(n + 1)) \ {n + 1} = 1..n
      BY LastIndex
    <2> QED
      BY <2>1, <2>2 DEF IsRebuild
  <1> QED
    BY <1>3, <1>4

(* Without a fill it is a new ledger. *)
LEMMA RebuildOfNothing ==
  ASSUME NEW initial
  PROVE  Rebuild(initial, <<>>) = NewLedger(initial)
  <1>1. DOMAIN <<>> = 1..0
    OBVIOUS
  <1>2. PICK g : IsRebuild(g, initial, <<>>) /\ Rebuild(initial, <<>>) = g[1..0]
    BY <1>1, RebuildExists, RebuildUnfold
  <1> QED
    BY <1>1, <1>2 DEF IsRebuild

(* With a fill more it is the ledger before, and the fill. *)
LEMMA RebuildOfNext ==
  ASSUME NEW n \in Nat, NEW fills, DOMAIN fills = 1..n, NEW more, DOMAIN more = 1..(n + 1),
         \A k \in 1..n : more[k] = fills[k], NEW initial
  PROVE  Rebuild(initial, more) = Apply(Rebuild(initial, fills), more[n + 1])
  <1>1. n + 1 \in Nat
    OBVIOUS
  <1>2. PICK g : IsRebuild(g, initial, fills) /\ Rebuild(initial, fills) = g[1..n]
    BY RebuildExists, RebuildUnfold
  <1>3. PICK h : IsRebuild(h, initial, more) /\ Rebuild(initial, more) = h[1..(n + 1)]
    BY <1>1, RebuildExists, RebuildUnfold
  <1>4. h[1..n] = g[1..n] /\ h[1..(n + 1)] = Apply(h[1..n], more[n + 1])
    BY <1>2, <1>3, RebuildOfPrefix
  <1> QED
    BY <1>2, <1>3, <1>4

(* The ledger of the backtest is what its fills make of a new one. *)
LedgerReplays == Rebuild(ledger.initial, ledger.fills) = ledger

(* Only a fill changes the ledger, and it is applied as it is recorded. *)
LEMMA NextReplays == TypeOK /\ LedgerReplays /\ [Next]_vars => LedgerReplays'
  <1> SUFFICES ASSUME TypeOK, LedgerReplays, [Next]_vars PROVE LedgerReplays'
    OBVIOUS
  <1>1. CASE Execute
    <2> DEFINE f == FillOf(Head(intents))
               n == Len(ledger.fills)
    <2>1. /\ n \in Nat /\ DOMAIN ledger.fills = 1..n /\ DOMAIN ledger'.fills = 1..(n + 1)
          /\ \A k \in 1..n : ledger'.fills[k] = ledger.fills[k]
          /\ ledger'.fills[n + 1] = f
      BY <1>1, ExecuteEffect
    <2>2. ledger'.initial = ledger.initial /\ ledger' = Apply(ledger, f)
      BY <1>1, ExecuteBooks DEF Execute
    <2> HIDE DEF f, n
    <2>3. Rebuild(ledger.initial, ledger'.fills) = Apply(Rebuild(ledger.initial, ledger.fills), f)
      BY <2>1, RebuildOfNext
    <2> QED
      BY <2>2, <2>3 DEF LedgerReplays
  <1>2. CASE UNCHANGED ledger
    BY <1>2 DEF LedgerReplays
  <1> QED
    BY <1>1, <1>2, LedgerUnchanged

(* A new ledger has no fills. *)
LEMMA InitReplays == Init => LedgerReplays /\ ledger.fills = <<>>
  <1> SUFFICES ASSUME Init PROVE LedgerReplays /\ ledger.fills = <<>>
    OBVIOUS
  <1>1. PICK cash \in Capitals : ledger = NewLedger(cash)
    BY DEF Init
  <1>2. ledger.initial = cash /\ ledger.fills = <<>>
    BY <1>1 DEF NewLedger
  <1>3. Rebuild(cash, <<>>) = NewLedger(cash)
    BY RebuildOfNothing
  <1> QED
    BY <1>1, <1>2, <1>3 DEF LedgerReplays

-----------------------------------------------------------------------------
(* A batch of orders is taken one by one. *)

(* g has what the orders with the given indices leave. *)
IsBook(g, start, batch, i, c) ==
  g = [s \in SUBSET DOMAIN batch |->
         IF s = {} THEN start
         ELSE Ordered(g[s \ {Max(s)}], batch[Max(s)], i, c)]

(* The books exist: each comes from one with an order less. *)
LEMMA BookExists ==
  ASSUME NEW start, NEW batch, NEW i, NEW c, NEW n \in Nat, DOMAIN batch = 1..n
  PROVE  \E g : IsBook(g, start, batch, i, c)
  <1> DEFINE Body(g, s) == IF s = {} THEN start
                           ELSE Ordered(g[s \ {Max(s)}], batch[Max(s)], i, c)
             Upto(g, k) == g = [s \in SUBSET (1..k) |-> Body(g, s)]
             Good == {k \in Nat : k <= n => \E g : Upto(g, k)}
  <1>1. 0 \in Good
    <2> DEFINE g == [s \in SUBSET (1..0) |-> start]
    <2>1. ASSUME NEW s \in SUBSET (1..0) PROVE s = {}
      OBVIOUS
    <2>2. Upto(g, 0)
      BY <2>1
    <2> HIDE DEF g, Upto
    <2> QED
      BY <2>2
  <1>2. ASSUME NEW k \in Nat, k \in Good, k + 1 <= n PROVE \E h : Upto(h, k + 1)
    <2>1. PICK g : Upto(g, k)
      <3> HIDE DEF Upto
      <3> QED
        BY <1>2
    <2> DEFINE h == [s \in SUBSET (1..(k + 1)) |-> Body(g, s)]
    <2>2. ASSUME NEW s \in SUBSET (1..k) PROVE s \in SUBSET (1..(k + 1)) /\ h[s] = g[s]
      <3>1. s \in SUBSET (1..(k + 1))
        OBVIOUS
      <3>2. g[s] = Body(g, s)
        BY <2>1
      <3> QED
        BY <3>1, <3>2
    <2>3. ASSUME NEW s \in SUBSET (1..(k + 1)), s # {} PROVE s \ {Max(s)} \in SUBSET (1..k)
      BY <2>3, WithoutLast
    <2>4. ASSUME NEW s \in SUBSET (1..(k + 1)) PROVE  h[s] = Body(h, s)
      <3>1. CASE s = {}
        BY <3>1
      <3>2. CASE s # {}
        <4>1. h[s \ {Max(s)}] = g[s \ {Max(s)}]
          BY <3>2, <2>2, <2>3
        <4>2. h[s] = Ordered(g[s \ {Max(s)}], batch[Max(s)], i, c)
          BY <3>2
        <4> HIDE DEF h
        <4> QED
          BY <4>1, <4>2, <3>2
      <3> QED
        BY <3>1, <3>2
    <2>5. h = [s \in SUBSET (1..(k + 1)) |-> h[s]]
      OBVIOUS
    <2> HIDE DEF h, Body
    <2>6. Upto(h, k + 1)
      BY <2>4, <2>5
    <2> QED
      BY <2>6
  <1>3. n \in Good
    <2>1. ASSUME NEW k \in Nat, k \in Good PROVE k + 1 \in Good
      <3>1. CASE k + 1 <= n
        <4> HIDE DEF Upto
        <4> QED
          BY <3>1, <2>1, <1>2
      <3>2. CASE ~(k + 1 <= n)
        BY <3>2
      <3> QED
        BY <3>1, <3>2
    <2> HIDE DEF Good
    <2> QED
      BY <1>1, <2>1, InductionOnNat
  <1>4. PICK g : Upto(g, n)
    <2> HIDE DEF Upto
    <2> QED
      BY <1>3
  <1> QED
    BY <1>4 DEF IsBook

(* A batch leaves a book after each of its orders, the last one being the  *)
(* result. *)
LEMMA BatchTaken ==
  ASSUME NEW start, NEW batch, NEW i, NEW c, NEW n \in Nat, DOMAIN batch = 1..n
  PROVE  \E b : /\ b[0] = start /\ Settled(start, batch, i, c) = b[n]
                /\ \A k \in 1..n : b[k] = Ordered(b[k - 1], batch[k], i, c)
  <1>1. Settled(start, batch, i, c) = (CHOOSE g : IsBook(g, start, batch, i, c))[1..n]
    BY DEF Settled, FoldLeft, MapThenFoldSet, IsBook
  <1>2. PICK g : IsBook(g, start, batch, i, c) /\ Settled(start, batch, i, c) = g[1..n]
    BY <1>1, BookExists
  <1> DEFINE b == [k \in 0..n |-> g[1..k]]
  <1>3. b[0] = start
    <2>1. 1..0 = {} /\ {} \in SUBSET (1..n) /\ 0 \in 0..n
      OBVIOUS
    <2> QED
      BY <1>2, <2>1 DEF IsBook
  <1>4. ASSUME NEW k \in 1..n PROVE b[k] = Ordered(b[k - 1], batch[k], i, c)
    <2>1. PICK m \in Nat : k = m + 1
      <3>1. k - 1 \in Nat /\ k = (k - 1) + 1
        OBVIOUS
      <3> QED
        BY <3>1
    <2>2. 1..(m + 1) \in SUBSET (1..n) /\ m \in 0..n /\ m + 1 \in 0..n
      BY <2>1
    <2>3. Max(1..(m + 1)) = m + 1 /\ (1..(m + 1)) \ {m + 1} = 1..m /\ 1..(m + 1) # {}
      BY LastIndex
    <2>4. g[1..(m + 1)] = Ordered(g[1..m], batch[m + 1], i, c)
      BY <1>2, <2>2, <2>3, ZenonT(40) DEF IsBook
    <2>5. b[m + 1] = g[1..(m + 1)] /\ b[m] = g[1..m] /\ k - 1 = m
      BY <2>1, <2>2
    <2> HIDE DEF b
    <2> QED
      BY <2>1, <2>4, <2>5
  <1>5. b[n] = g[1..n]
    OBVIOUS
  <1> HIDE DEF b
  <1> QED
    BY <1>2, <1>3, <1>4, <1>5

-----------------------------------------------------------------------------
(* The session and the backtest. *)

(* One order as the backtest takes it: the time of the fill is its own. *)
OrderTaken(book, intent, i, c) ==
  LET f == FillAt(book.ledger, i, c, intent)
  IN  IF book.raised \/ ~(Reached(intent, c) /\ Fillable(f, book.ledger)) THEN book
      ELSE IF ~(f.price > 0 /\ Accepts(book.ledger, f)) THEN [book EXCEPT !.raised = TRUE]
      ELSE [ledger |-> Apply(book.ledger, f), raised |-> FALSE,
            values |-> AfterFill(book.values, i, f, QuantityAfter(book.ledger, f))]

(* The time of a decision is the number of candles closed when it is made. *)
LEMMA OrderedTaken ==
  ASSUME NEW book, NEW intent, NEW i, NEW c, paper.closed = i + 1
  PROVE  Ordered(book, intent, i, c) = OrderTaken(book, intent, i, c)
  <1> DEFINE f == FillAt(book.ledger, i, c, intent)
  <1>1. [f EXCEPT !.time = paper.closed] = f
    BY DEF FillAt
  <1> HIDE DEF f
  <1> QED
    BY <1>1 DEF Ordered, OrderTaken, f

Snapshot(closed, fills, v) == [closed |-> closed, fills |-> fills, values |-> v, raised |-> FALSE]

(* b has what is left after each order of the batch under way, and the      *)
(* session has the last of it.                                              *)
Foreseen(b) ==
  /\ b[0] = [ledger |-> ledger, values |-> values, raised |-> FALSE]
  /\ \A k \in 1..Len(intents) : b[k] = OrderTaken(b[k - 1], intents[k], index, next)
  /\ IF b[Len(intents)].raised THEN paper.raised
     ELSE paper = Snapshot(index + 2, b[Len(intents)].ledger.fills, b[Len(intents)].values)

(* The session is where the backtest will be when it is through with the    *)
(* batch.                                                                   *)
PaperInv ==
  Following =>
    /\ at = "open" => paper = Snapshot(0, <<>>, NoValues) /\ ledger.fills = <<>>
    /\ at = "decide" /\ index + 1 <= Window => paper = Snapshot(index + 1, ledger.fills, values)
    /\ at = "execute" /\ index + 2 <= Window => \E b : Foreseen(b)
    /\ at = "raised" /\ index + 2 <= Window => paper.raised

(* A batch taken up to its first order leaves what is left of it. *)
LEMMA RestForeseen ==
  ASSUME TypeOK, at = "execute", intents # <<>>, NEW b, Foreseen(b),
         UNCHANGED <<slippage, universe, turn, index, next, paper>>, intents' = Tail(intents),
         b[1] = [ledger |-> ledger', values |-> values', raised |-> FALSE]
  PROVE  (\E d : Foreseen(d))'
  <1>1. intents \in Seq(Intent)
    BY DEF TypeOK
  <1>2. PICK n \in Nat : Len(intents) = n + 1
    <2>1. Len(intents) - 1 \in Nat /\ Len(intents) = (Len(intents) - 1) + 1
      BY <1>1
    <2> QED
      BY <2>1
  <1>3. Len(intents') = n /\ \A k \in 1..n : intents'[k] = intents[k + 1]
    BY <1>1, <1>2
  <1> DEFINE d == [k \in 0..n |-> b[k + 1]]
  <1>4. d[0] = [ledger |-> ledger', values |-> values', raised |-> FALSE] /\ d[n] = b[n + 1]
    OBVIOUS
  <1>5. ASSUME NEW k \in 1..n PROVE d[k] = OrderTaken(d[k - 1], intents[k], index, next)'
    <2>1. k - 1 \in 0..n /\ k \in 0..n /\ k + 1 \in 1..(n + 1) /\ (k - 1) + 1 = k
      OBVIOUS
    <2>2. d[k] = b[k + 1] /\ d[k - 1] = b[k]
      BY <2>1
    <2>3. b[k + 1] = OrderTaken(b[k], intents[k + 1], index, next)
      <3>1. (k + 1) - 1 = k
        OBVIOUS
      <3> QED
        BY <1>2, <2>1, <3>1 DEF Foreseen
    <2> HIDE DEF d
    <2> QED
      BY ZenonT(40), <1>3, <2>2, <2>3 DEF OrderTaken, FillAt, Symbol
  <1>6. Foreseen(d)'
    <2> HIDE DEF d
    <2> QED
      BY <1>2, <1>3, <1>4, <1>5 DEF Foreseen, Snapshot
  <1> QED
    BY <1>6

(* An event before the cut decides what the backtest decides, from the same *)
(* ledger and the same values, and takes the whole batch at once. *)
LEMMA EventForesees ==
  ASSUME TypeOK, LedgerReplays, PaperStrategyAssumption, Event, Following,
         index + 2 <= Window, paper = Snapshot(index + 1, ledger.fills, values)
  PROVE  at' = "execute" /\ (\E b : Foreseen(b))'
  <1>1. PICK c \in Candles, signal \in Signals :
          DecideOn(c, signal) /\ paper' = Processed(c, signal)
    BY DEF Event, Snapshot
  <1> DEFINE batch == Generate(kind, Symbol, index, candle, Position, BeforeDecision, signal)
             start == [ledger |-> ledger, values |-> BeforeDecision, raised |-> FALSE]
             book == Settled(start, batch, index, c)
  <1>2. batch \in Seq(Intent)
    BY GenerateType
  <1>3. /\ next' = c /\ intents' = batch /\ at' = "execute" /\ values' = BeforeDecision
        /\ UNCHANGED <<kind, slippage, universe, ledger, turn, index, candle>>
    BY <1>1, <1>2 DEF DecideOn, config
  <1>4. index \in Nat /\ paper.closed = index + 1
    BY DEF TypeOK, Snapshot
  <1>5. DecisionIndex(paper.closed + 1) = index
    BY <1>4, PaperStrategyAssumption DEF DecisionIndex, Smaller
  <1>6. Rebuilt = ledger
    BY DEF Rebuilt, LedgerReplays, Rebuild, Snapshot
  <1>7. Prepared(paper.values, ledger.positions[Symbol], candle.close) = BeforeDecision
    BY DEF BeforeDecision, Position, Snapshot
  <1> HIDE DEF batch
  <1>8. paper' = IF book.raised THEN [paper EXCEPT !.raised = TRUE]
                 ELSE Snapshot(index + 2, book.ledger.fills, book.values)
    <2>1. paper.closed + 1 = index + 2
      BY <1>4
    <2> QED
      BY ZenonT(40), <1>1, <1>2, <1>5, <1>6, <1>7, <2>1 DEF Processed, Position, Snapshot, batch
  <1>9. PICK n \in Nat : DOMAIN batch = 1..n /\ Len(batch) = n
    <2>1. DOMAIN batch = 1..Len(batch) /\ Len(batch) \in Nat
      BY <1>2
    <2> QED
      BY <2>1
  <1> HIDE DEF start
  <1>10. PICK b : /\ b[0] = start /\ book = b[n]
                  /\ \A k \in 1..n : b[k] = Ordered(b[k - 1], batch[k], index, c)
    <2> HIDE DEF book
    <2>1. book = Settled(start, batch, index, c)
      BY DEF book
    <2>2. DOMAIN batch = 1..n
      BY <1>9
    <2>3. \E b : /\ b[0] = start /\ Settled(start, batch, index, c) = b[n]
                 /\ \A k \in 1..n : b[k] = Ordered(b[k - 1], batch[k], index, c)
      BY SMTT(40), <2>2, BatchTaken
    <2> QED
      BY ZenonT(40), <2>1, <2>3
  <1> HIDE DEF book
  <1>11. ASSUME NEW k \in 1..n PROVE b[k] = OrderTaken(b[k - 1], batch[k], index, c)
    BY <1>4, <1>10, OrderedTaken
  <1>12. Foreseen(b)'
    <2>1. b[0] = [ledger |-> ledger', values |-> values', raised |-> FALSE]
      BY <1>3, <1>10 DEF start
    <2>2. \A k \in 1..n : b[k] = OrderTaken(b[k - 1], intents[k], index, next)'
      BY <1>3, <1>11 DEF OrderTaken, FillAt, Symbol
    <2>3. IF b[n].raised THEN paper'.raised
          ELSE paper' = Snapshot(index + 2, b[n].ledger.fills, b[n].values)
      <3>1. [paper EXCEPT !.raised = TRUE].raised
        BY DEF Snapshot
      <3> QED
        BY <1>8, <1>10, <3>1
    <2> QED
      BY <1>3, <1>9, <2>1, <2>2, <2>3 DEF Foreseen, Snapshot
  <1> QED
    BY <1>3, <1>12

(* Where the backtest raises, so has the session. *)
LEMMA RaiseForeseen ==
  ASSUME TypeOK, Raise, NEW b, Foreseen(b)
  PROVE  paper.raised
  <1>1. intents \in Seq(Intent) /\ intents # <<>> /\ Head(intents) = intents[1]
    BY DEF TypeOK, Raise
  <1>2. PICK n \in Nat : Len(intents) = n
    BY <1>1
  <1>3. 1 \in 1..n
    BY <1>1, <1>2
  <1>4. /\ b[0] = [ledger |-> ledger, values |-> values, raised |-> FALSE]
        /\ b[1] = OrderTaken(b[0], intents[1], index, next)
    <2>1. b[1] = OrderTaken(b[1 - 1], intents[1], index, next)
      BY <1>2, <1>3 DEF Foreseen
    <2> QED
      BY <2>1 DEF Foreseen
  <1>5. b[1].raised = TRUE
    BY <1>1, <1>4 DEF OrderTaken, Raise, FillOf, Filled
  <1> DEFINE Lost(k) == k + 1 <= n => b[k + 1].raised = TRUE
             Good == {k \in Nat : Lost(k)}
  <1>6. 0 \in Good
    BY <1>5
  <1>7. ASSUME NEW k \in Nat, k \in Good PROVE k + 1 \in Good
    <2>1. ASSUME (k + 1) + 1 <= n PROVE b[(k + 1) + 1].raised = TRUE
      <3>1. k + 1 <= n /\ (k + 1) + 1 \in 1..n /\ ((k + 1) + 1) - 1 = k + 1
        BY <2>1
      <3>2. b[k + 1].raised = TRUE
        BY <1>7, <3>1
      <3>3. b[(k + 1) + 1] = OrderTaken(b[k + 1], intents[(k + 1) + 1], index, next)
        BY <1>2, <3>1 DEF Foreseen
      <3>4. b[(k + 1) + 1] = b[k + 1]
        BY <3>2, <3>3 DEF OrderTaken
      <3> QED
        BY <3>2, <3>4
    <2>2. Lost(k + 1)
      BY <2>1, Zenon
    <2> HIDE DEF Lost
    <2> QED
      BY <2>2
  <1>8. \A k \in Nat : k \in Good
    <2> HIDE DEF Good
    <2> QED
      BY <1>6, <1>7, InductionOnNat
  <1>9. b[n].raised = TRUE
    <2>1. n - 1 \in Nat /\ (n - 1) + 1 = n
      BY <1>3
    <2> QED
      BY <1>8, <2>1
  <1> QED
    BY <1>2, <1>9 DEF Foreseen

(* Without an order left the session is where the backtest is. *)
LEMMA NothingForeseen ==
  ASSUME intents = <<>>, NEW b, Foreseen(b)
  PROVE  paper = Snapshot(index + 2, ledger.fills, values)
  <1>1. Len(intents) = 0
    OBVIOUS
  <1>2. b[0] = [ledger |-> ledger, values |-> values, raised |-> FALSE]
    BY DEF Foreseen
  <1>3. IF b[0].raised THEN paper.raised ELSE paper = Snapshot(index + 2, b[0].ledger.fills, b[0].values)
    BY <1>1 DEF Foreseen
  <1> QED
    BY <1>2, <1>3

(* Every step of the backtest and the session keeps them together. *)
LEMMA NextPaper ==
  TypeOK /\ LedgerReplays /\ PaperInv /\ [ReplayNext]_replayVars => PaperInv'
  <1> SUFFICES ASSUME TypeOK, LedgerReplays, PaperInv, [ReplayNext]_replayVars, Following'
               PROVE  (/\ at = "open" => paper = Snapshot(0, <<>>, NoValues) /\ ledger.fills = <<>>
                       /\ at = "decide" /\ index + 1 <= Window =>
                            paper = Snapshot(index + 1, ledger.fills, values)
                       /\ at = "execute" /\ index + 2 <= Window => \E b : Foreseen(b)
                       /\ at = "raised" /\ index + 2 <= Window => paper.raised)'
    BY DEF PaperInv
  <1>1. Following
    BY DEF Following, ReplayNext, replayVars, vars, FirstEvent, OpenSymbol, Event, DecideOn, Drop,
           Execute, Raise, NextCandle, SymbolDone, Terminated, config
  <1>2. index \in Nat /\ Window \in Nat
    BY PaperStrategyAssumption DEF TypeOK
  <1>3. CASE FirstEvent
    <2>1. /\ at' = "decide" /\ index' = 0 /\ values' = NoValues /\ ledger' = ledger
          /\ at = "open" /\ paper' = [paper EXCEPT !.closed = 1]
      BY <1>1, <1>3 DEF FirstEvent, OpenSymbol
    <2>2. paper = Snapshot(0, <<>>, NoValues) /\ ledger.fills = <<>>
      BY <1>1, <2>1 DEF PaperInv
    <2>3. paper' = Snapshot(1, <<>>, NoValues)
      BY <2>1, <2>2 DEF Snapshot
    <2>4. index' + 1 = 1 /\ ledger'.fills = <<>>
      BY <2>1, <2>2
    <2>5. (paper = Snapshot(index + 1, ledger.fills, values))'
      BY <2>1, <2>3, <2>4 DEF Snapshot
    <2> QED
      BY <2>1, <2>5
  <1>4. CASE Event
    <2>1. at = "decide" /\ at' \in {"execute", "raised"} /\ index' = index
      BY <1>4 DEF Event, DecideOn
    <2>2. ASSUME index + 2 <= Window PROVE at' = "execute" /\ (\E b : Foreseen(b))'
      <3>1. index + 1 <= Window
        BY <1>2, <2>2
      <3>2. paper = Snapshot(index + 1, ledger.fills, values)
        BY <1>1, <2>1, <3>1 DEF PaperInv
      <3> QED
        BY <1>1, <1>4, <2>2, <3>2, EventForesees, PaperStrategyAssumption
    <2> QED
      BY <2>1, <2>2
  <1>5. CASE (Drop \/ Execute) /\ UNCHANGED paper
    <2>1. /\ at = "execute" /\ intents # <<>> /\ at' = at /\ intents' = Tail(intents)
          /\ UNCHANGED <<slippage, universe, turn, index, next, paper>>
      BY <1>5 DEF Drop, Execute, config, loops
    <2>2. ASSUME index + 2 <= Window PROVE (\E b : Foreseen(b))'
      <3>1. PICK b : Foreseen(b)
        BY <1>1, <2>1, <2>2 DEF PaperInv
      <3>2. intents \in Seq(Intent) /\ Head(intents) = intents[1] /\ 1 \in 1..Len(intents)
        BY <2>1 DEF TypeOK
      <3>3. b[0] = [ledger |-> ledger, values |-> values, raised |-> FALSE]
        BY <3>1 DEF Foreseen
      <3>4. b[1] = OrderTaken(b[0], Head(intents), index, next)
        <4>1. b[1] = OrderTaken(b[1 - 1], intents[1], index, next)
          BY <3>1, <3>2 DEF Foreseen
        <4> QED
          BY <3>2, <4>1
      <3>5. b[1] = [ledger |-> ledger', values |-> values', raised |-> FALSE]
        <4>1. CASE Drop
          <5>1. ~Filled(Head(intents)) /\ UNCHANGED <<ledger, values>>
            BY <4>1 DEF Drop
          <5> QED
            BY <3>3, <3>4, <5>1 DEF OrderTaken, Filled, FillOf
        <4>2. CASE Execute
          <5> DEFINE f == FillOf(Head(intents))
          <5>1. /\ Filled(Head(intents)) /\ f.price > 0 /\ Accepts(ledger, f)
                /\ ledger' = Apply(ledger, f)
                /\ values' = AfterFill(values, index, f, QuantityAfter(ledger, f))
            BY <4>2 DEF Execute
          <5> QED
            BY <3>3, <3>4, <5>1 DEF OrderTaken, Filled, FillOf
        <4> QED
          BY <1>5, <4>1, <4>2
      <3> QED
        BY <2>1, <3>1, <3>5, RestForeseen
    <2> QED
      BY <2>1, <2>2
  <1>6. CASE Raise /\ UNCHANGED paper
    <2>1. at = "execute" /\ at' = "raised" /\ index' = index /\ paper' = paper
      BY <1>6 DEF Raise, loops
    <2>2. ASSUME index + 2 <= Window PROVE paper.raised
      <3>1. PICK b : Foreseen(b)
        BY <1>1, <2>1, <2>2 DEF PaperInv
      <3> QED
        BY <1>6, <3>1, RaiseForeseen
    <2> QED
      BY <2>1, <2>2
  <1>7. CASE NextCandle /\ UNCHANGED paper
    <2>1. /\ at = "execute" /\ intents = <<>> /\ at' = "decide" /\ index' = index + 1
          /\ UNCHANGED <<ledger, values, paper>>
      BY <1>7 DEF NextCandle
    <2>2. ASSUME index' + 1 <= Window PROVE paper' = Snapshot(index' + 1, ledger'.fills, values')
      <3>1. index + 2 <= Window /\ index' + 1 = index + 2
        BY <1>2, <2>1, <2>2
      <3>2. PICK b : Foreseen(b)
        BY <1>1, <2>1, <3>1 DEF PaperInv
      <3>3. paper = Snapshot(index + 2, ledger.fills, values)
        BY <2>1, <3>2, NothingForeseen
      <3> QED
        BY <2>1, <3>1, <3>3
    <2> QED
      BY <2>1, <2>2 DEF Snapshot
  <1>8. CASE SymbolDone /\ UNCHANGED paper
    <2>1. turn \in 1..1
      BY <1>1 DEF TypeOK, Following
    <2>2. ~(turn < Len(universe))
      BY <1>1, <2>1 DEF Following
    <2>3. at' = "done"
      BY <1>8, <2>2 DEF SymbolDone
    <2> QED
      BY <2>3
  <1>9. CASE UNCHANGED replayVars
    <2>1. UNCHANGED <<slippage, universe, turn, index, next, ledger, values, intents, at, paper>>
      BY <1>9 DEF replayVars, vars, config, loops
    <2>2. ASSUME NEW b, Foreseen(b) PROVE Foreseen(b)'
      BY <2>1, <2>2 DEF Foreseen, Snapshot, OrderTaken, FillAt, Symbol
    <2> QED
      BY <1>1, <2>1, <2>2 DEF PaperInv, Snapshot
  <1>10. CASE Terminated /\ UNCHANGED paper
    BY <1>9, <1>10 DEF Terminated, replayVars
  <1> QED
    BY <1>3, <1>4, <1>5, <1>6, <1>7, <1>8, <1>9, <1>10 DEF ReplayNext

-----------------------------------------------------------------------------
(* The session beside the backtest. *)

(* The session only watches: a backtest beside it is a backtest as it is,   *)
(* and every theorem about BacktestEngine holds of it (backtest/engine.py,  *)
(* paper/runtime.py:43-88 with a ledger and values of its own).             *)
THEOREM ReplayIsBacktest == ReplaySpec => Spec
  <1>1. ReplayInit => Init
    BY DEF ReplayInit
  <1>2. [ReplayNext]_replayVars => [Next]_vars
    BY DEF ReplayNext, replayVars, Next, FirstEvent, Event, Decide
  <1> QED
    BY <1>1, <1>2, PTL DEF ReplaySpec, Spec

(* The backtest and the session before the first candle. *)
LEMMA InitPaper == ReplayInit => LedgerReplays /\ PaperInv
  BY InitReplays DEF ReplayInit, PaperInv, Snapshot, Init

(* The session is always where the backtest will be. *)
THEOREM PaperInvariance == ReplaySpec => [](LedgerReplays /\ PaperInv)
  <1>1. TypeOK /\ LedgerReplays /\ PaperInv /\ [ReplayNext]_replayVars
          => (LedgerReplays /\ PaperInv)'
    <2>1. [ReplayNext]_replayVars => [Next]_vars
      BY DEF ReplayNext, replayVars, Next, FirstEvent, Event, Decide
    <2> QED
      BY <2>1, NextReplays, NextPaper
  <1> QED
    BY <1>1, InitPaper, ReplayIsBacktest, LedgerTypeCorrect, PTL DEF ReplaySpec

(* For every series of candles, every configuration and every batch of      *)
(* orders: as long as its window has not been cut, a session that replays   *)
(* its ledger from its fills on every event (paper/runtime.py:53-56) and    *)
(* executes a decision at once (paper/runtime.py:62-78) has the fills and   *)
(* the values of the backtest, and raises where the backtest does.          *)
THEOREM PaperAlwaysAgrees == ReplaySpec => []PaperAgrees
  <1>1. LedgerReplays /\ PaperInv => PaperAgrees
    <2> SUFFICES ASSUME LedgerReplays, PaperInv, Following, index + 2 <= Window
                 PROVE  /\ at = "execute" /\ intents = <<>> =>
                             /\ paper.fills = ledger.fills /\ paper.values = values
                             /\ Rebuilt = ledger /\ ~paper.raised
                        /\ at = "raised" => paper.raised
      BY DEF PaperAgrees
    <2>1. ASSUME at = "execute", intents = <<>>
          PROVE  /\ paper.fills = ledger.fills /\ paper.values = values
                 /\ Rebuilt = ledger /\ ~paper.raised
      <3>1. PICK b : Foreseen(b)
        BY <2>1 DEF PaperInv
      <3>2. paper = Snapshot(index + 2, ledger.fills, values)
        BY <2>1, <3>1, NothingForeseen
      <3> QED
        BY <3>2 DEF Snapshot, Rebuilt, LedgerReplays, Rebuild
    <2> QED
      BY <2>1 DEF PaperInv
  <1> QED
    BY <1>1, PaperInvariance, PTL

-----------------------------------------------------------------------------
(* The cooldown of a session. *)

(* The last exit kept for a strategy is the decision of one of its sales.   *)
ExitWasSold ==
  at \in {"decide", "execute"} /\ values.lastExit # -1 =>
    \E n \in DOMAIN ledger.fills :
      ledger.fills[n].side = "sell" /\ ledger.fills[n].time = values.lastExit + 1

(* Only a sale leaves one. *)
LEMMA NextExitSold == TypeOK /\ ExitWasSold /\ [Next]_vars => ExitWasSold'
  <1> SUFFICES ASSUME TypeOK, ExitWasSold, [Next]_vars, at' \in {"decide", "execute"},
                      values'.lastExit # -1
               PROVE  \E n \in DOMAIN ledger'.fills :
                        /\ ledger'.fills[n].side = "sell"
                        /\ ledger'.fills[n].time = values'.lastExit + 1
    BY DEF ExitWasSold
  <1>1. CASE OpenSymbol
    BY <1>1 DEF OpenSymbol, NoValues
  <1>2. CASE Decide
    <2>1. values' = BeforeDecision /\ ledger' = ledger /\ at = "decide"
      BY <1>2 DEF Decide, DecideOn
    <2> QED
      BY <2>1, LastExitKept DEF ExitWasSold
  <1>3. CASE Execute
    <2> DEFINE f == FillOf(Head(intents))
               n == Len(ledger.fills)
    <2>1. /\ f \in Fill /\ f.time = index + 1 /\ at = "execute"
          /\ DOMAIN ledger.fills = 1..n /\ n \in Nat /\ DOMAIN ledger'.fills = 1..(n + 1)
          /\ \A k \in 1..n : ledger'.fills[k] = ledger.fills[k]
          /\ ledger'.fills[n + 1] = f
          /\ values' = AfterFill(values, index, f, Position'.quantity)
      BY <1>3, ExecuteEffect DEF Execute
    <2>2. values \in Values
      BY DEF TypeOK
    <2> HIDE DEF f, n
    <2>3. CASE values'.lastExit = values.lastExit
      <3>1. PICK k \in 1..n : /\ ledger.fills[k].side = "sell"
                              /\ ledger.fills[k].time = values.lastExit + 1
        BY <2>1, <2>3 DEF ExitWasSold
      <3>2. k \in 1..(n + 1) /\ ledger'.fills[k] = ledger.fills[k]
        BY <2>1
      <3> QED
        BY <2>1, <2>3, <3>1, <3>2
    <2>4. CASE values'.lastExit # values.lastExit
      <3>1. f.side = "sell" /\ values'.lastExit = index
        BY <2>1, <2>2, <2>4 DEF AfterFill, Values, Fill
      <3>2. n + 1 \in 1..(n + 1)
        BY <2>1
      <3> QED
        BY <2>1, <3>1, <3>2
    <2> QED
      BY <2>3, <2>4
  <1>4. CASE Drop \/ NextCandle \/ UNCHANGED vars
    <2>1. UNCHANGED <<ledger, values>> /\ at \in {"decide", "execute"}
      BY <1>4 DEF Drop, NextCandle, vars
    <2> QED
      BY <2>1 DEF ExitWasSold
  <1>5. CASE Raise \/ SymbolDone
    BY <1>5 DEF Raise, SymbolDone
  <1> QED
    BY <1>1, <1>2, <1>3, <1>4, <1>5 DEF Next, Terminated

(* Before the window is cut, a session that holds an entry back has sold no *)
(* longer ago than the cooldown: that CooldownEnds fails is owed to the cut *)
(* of the window alone (paper/runtime.py:48).                               *)
THEOREM UncutCooldownEnds == ReplaySpec => [](at = "decide" /\ index < Window => CooldownEnds)
  <1>1. ReplayInit => ExitWasSold
    BY DEF ReplayInit, Init, ExitWasSold
  <1>2. TypeOK /\ ExitWasSold /\ [ReplayNext]_replayVars => ExitWasSold'
    <2>1. [ReplayNext]_replayVars => [Next]_vars
      BY DEF ReplayNext, replayVars, Next, FirstEvent, Event, Decide
    <2> QED
      BY <2>1, NextExitSold
  <1>3. TypeOK /\ PaperInv /\ ExitWasSold => (at = "decide" /\ index < Window => CooldownEnds)
    <2> SUFFICES ASSUME TypeOK, PaperInv, ExitWasSold, at = "decide", index < Window, Following,
                        CoolingDown(DecisionIndex(paper.closed), paper.values)
                 PROVE  \E n \in DOMAIN paper.fills :
                          /\ paper.fills[n].side = "sell"
                          /\ paper.closed - 1 - paper.fills[n].time <= Cooldown
      BY DEF CooldownEnds
    <2>1. index \in Nat /\ Window \in Nat /\ Cooldown \in Nat
      BY PaperStrategyAssumption, StrategiesAssumption DEF TypeOK
    <2>2. index + 1 <= Window
      BY <2>1
    <2>3. paper = Snapshot(index + 1, ledger.fills, values)
      BY <2>2 DEF PaperInv
    <2>4. paper.closed = index + 1 /\ paper.fills = ledger.fills /\ paper.values = values
      BY <2>3 DEF Snapshot
    <2>5. DecisionIndex(paper.closed) = index - 1
      BY <2>1, <2>2, <2>4 DEF DecisionIndex, Smaller
    <2>6. values.lastExit # -1 /\ (index - 1) - values.lastExit <= Cooldown
      BY <2>4, <2>5 DEF CoolingDown
    <2>7. PICK n \in DOMAIN ledger.fills :
            ledger.fills[n].side = "sell" /\ ledger.fills[n].time = values.lastExit + 1
      BY <2>6 DEF ExitWasSold
    <2>8. values.lastExit \in Int
      BY DEF TypeOK, Values
    <2>9. paper.closed - 1 - ledger.fills[n].time <= Cooldown
      BY <2>1, <2>4, <2>6, <2>7, <2>8
    <2> QED
      BY <2>4, <2>7, <2>9
  <1> QED
    BY <1>1, <1>2, <1>3, PaperInvariance, ReplayIsBacktest, LedgerTypeCorrect, PTL DEF ReplaySpec
=============================================================================
