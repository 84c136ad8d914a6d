---------------------------- MODULE CandleStore ----------------------------
(***************************************************************************)
(* The local candle store for one symbol and interval: CandleRepository    *)
(* (market/repository.py) over BinancePublicClient (market/binance_client  *)
(* .py) and validate_candles (market/validation.py), as the refresh and    *)
(* delete endpoints (api/datasets.py) and the backtest job                 *)
(* (backtest/service.py) use it.                                           *)
(*                                                                         *)
(* Endpoints run on worker threads and the backtest on the event loop, so  *)
(* requests interleave between any two SELECTs, downloads and COMMITs.     *)
(* Candle t covers [t, t + 1); its prices are abstracted to whether they   *)
(* are the final ones, those of a candle still forming, or inconsistent.   *)
(***************************************************************************)
EXTENDS Integers, Sequences, FiniteSets, SequencesExt, FiniteSetsExt

CONSTANTS Workers,
          Backtests,   \* the workers that run backtests; the others refresh
          Ranges,      \* pairs <<start, end>> that are asked for
          PageLimit,   \* rows of a page, 1000 in the code
          MaxAttempts, \* BinancePublicClient.max_attempts
          MaxClock,    \* bound: the newest candle that ever forms
          MaxRequests, \* bound: requests begun
          MaxGlitches, \* bound: pages the exchange answers wrongly
          MaxDeletes   \* bound: datasets deleted

ASSUME CandleStoreAssumption ==
    /\ Backtests \subseteq Workers
    /\ Ranges \subseteq Nat \X Nat /\ \A r \in Ranges : r[1] < r[2]
    /\ PageLimit \in Nat \ {0} /\ MaxAttempts \in Nat \ {0}
    /\ MaxClock \in Nat /\ MaxRequests \in Nat
    /\ MaxGlitches \in Nat /\ MaxDeletes \in Nat

VARIABLES datasets, \* candle_datasets with their candles
          runs,     \* backtest_runs: the range, the dataset cited, what was read
          task,     \* task[w]: the local variables of the request w serves
          clock,    \* the candle that is forming
          requests, glitches, deletes

vars == <<datasets, runs, task, clock, requests, glitches, deletes>>

(* `stored` candles were read back from NUMERIC(38, 18) columns: they have *)
(* other digits, hence another fingerprint, than the same candle as        *)
(* downloaded.                                                             *)
Candle == [time: 0..MaxClock, content: {"final", "forming", "malformed"}, stored: BOOLEAN]

Dataset == [id: 1..MaxRequests, start: Nat, end: Nat, print: SUBSET Candle, valid: BOOLEAN]

NoDataset == [id |-> 0, start |-> 0, end |-> 0, print |-> {}, valid |-> FALSE]

Places == {"idle", "covering", "cached", "fetch", "store", "commit", "conflict",
           "answer", "validate"}

Request == [at: Places, id: 0..MaxRequests, start: Nat, end: Nat,
            cached: SUBSET Candle, missing: SUBSET (Nat \X Nat), cursor: Nat,
            attempt: 0..(MaxAttempts - 1), downloaded: Seq(Candle), clean: BOOLEAN,
            dataset: Dataset \cup {NoDataset}, series: SUBSET Candle]

NoRequest ==
    [at |-> "idle", id |-> 0, start |-> 0, end |-> 0,
     cached |-> {}, missing |-> {}, cursor |-> 0, attempt |-> 0,
     downloaded |-> <<>>, clean |-> TRUE, dataset |-> NoDataset, series |-> {}]

TimesOf(candles) == {c.time : c \in candles}
Stored(candles) == {[c EXCEPT !.stored = TRUE] : c \in candles}
(* `cached` is a dictionary keyed by open time.                            *)
OnePerTime(candles) == \A c, d \in candles : c.time = d.time => c = d

(* validate_candles reports nothing of rows in the order they came.        *)
Issueless(rows) ==
    /\ \A i \in 1..(Len(rows) - 1) : rows[i + 1].time = rows[i].time + 1
    /\ \A i \in DOMAIN rows : rows[i].content # "malformed"

(* Nor of the candles of a dictionary, which it gets in the order of their *)
(* times: each but the newest is followed by the next.                     *)
Gapless(candles) ==
    /\ \A c, d \in candles : c.time < d.time => c.time + 1 \in TimesOf(candles)
    /\ \A c \in candles : c.content # "malformed"

(* _contiguous_ranges: the longest runs of times, as <<first, end>>.       *)
MissingRanges(times) ==
    {r \in times \X {t + 1 : t \in times} :
        /\ r[1] < r[2] /\ r[1]..(r[2] - 1) \subseteq times
        /\ r[1] - 1 \notin times /\ r[2] \notin times}

(* The loop over them takes the earliest first.                            *)
First(missing) == CHOOSE r \in missing : \A q \in missing : r[1] <= q[1]

(* The loop over `downloaded`: a later row replaces an earlier one.        *)
Merged(cached, downloaded, start, end) ==
    LET rows == {i \in DOMAIN downloaded : downloaded[i].time \in start..(end - 1)}
        last == {i \in rows : \A j \in rows : downloaded[j].time = downloaded[i].time => j <= i}
    IN  {downloaded[i] : i \in last}
        \cup {c \in cached : c.time \notin {downloaded[i].time : i \in rows}}

Init ==
    /\ datasets = {} /\ runs = {}
    /\ task = [w \in Workers |-> NoRequest]
    /\ clock \in 0..MaxClock
    /\ requests = 0 /\ glitches = 0 /\ deletes = 0

Leave(w) == task' = [task EXCEPT ![w] = NoRequest]

Tick ==
    /\ clock < MaxClock /\ clock' = clock + 1
    /\ UNCHANGED <<datasets, runs, task, requests, glitches, deletes>>

Begin(w, r) ==
    /\ task[w].at = "idle" /\ requests < MaxRequests
    /\ requests' = requests + 1
    /\ task' = [task EXCEPT ![w] = [NoRequest EXCEPT !.at = "covering", !.id = requests',
                                                     !.start = r[1], !.end = r[2]]]
    /\ UNCHANGED <<datasets, runs, clock, glitches, deletes>>

(* Faulty variant: a dataset that ends too early is taken as well.         *)
CoversStart(d, t) == d.valid /\ d.start <= t.start

Covers(d, t) == d.valid /\ d.start <= t.start /\ d.end >= t.end

(* The first SELECT: the smallest valid dataset around the range.          *)
Covering(w) ==
    /\ task[w].at = "covering"
    /\ LET found == {d \in datasets : Covers(d, task[w])} IN
         \/ /\ found = {}
            /\ task' = [task EXCEPT ![w].at = "cached"]
         \/ \E d \in found :
              /\ \A e \in found : Cardinality(d.print) <= Cardinality(e.print)
              /\ task' = [task EXCEPT ![w].at = "answer", ![w].dataset = d]
    /\ UNCHANGED <<datasets, runs, clock, requests, glitches, deletes>>

(* _cached_candles: one candle of some valid dataset for every open time   *)
(* that has any; the query has no order, so which one is left to chance.   *)
CachedCandles(start, end) ==
    LET rows == {c \in UNION {Stored(d.print) : d \in {e \in datasets : e.valid}} :
                   c.time \in start..(end - 1)}
    IN  {S \in SUBSET rows : /\ TimesOf(S) = TimesOf(rows)
                             /\ OnePerTime(S)}

(* Request t has `missing` left to download, or stores what it has.        *)
Onward(t, missing) ==
    IF missing = {} THEN [t EXCEPT !.missing = {}, !.at = "store", !.cursor = 0]
    ELSE [t EXCEPT !.missing = missing, !.at = "fetch", !.cursor = First(missing)[1]]

Cached(w) ==
    /\ task[w].at = "cached"
    /\ \E cached \in CachedCandles(task[w].start, task[w].end) :
         LET missing == MissingRanges((task[w].start..(task[w].end - 1)) \ TimesOf(cached))
         IN  task' = [task EXCEPT ![w] = Onward([@ EXCEPT !.cached = cached], missing)]
    /\ UNCHANGED <<datasets, runs, clock, requests, glitches, deletes>>

(* Faulty variant: the next page begins with the last row of this one.     *)
NextCursorRepeats(page) == Max(TimesOf(ToSet(page)))

(* The page fills up and does not reach the end: ask for the next one.  A  *)
(* cursor that does not advance would raise; the exchange answers no row   *)
(* before startTime, so it does.                                           *)
NextCursor(page) == Max(TimesOf(ToSet(page))) + 1

MorePages(page, end) == Len(page) >= PageLimit /\ NextCursor(page) < end

ReceivePage(w, page) ==
    /\ MorePages(page, First(task[w].missing)[2])
    /\ task' = [task EXCEPT ![w].downloaded = @ \o page, ![w].attempt = 0,
                            ![w].cursor = NextCursor(page)]

(* The last page of a missing range: validate the raw rows, merge them.    *)
ReceiveRange(w, page) ==
    LET t == task[w]
        rows == t.downloaded \o page
        rest == t.missing \ {First(t.missing)}
    IN  /\ ~MorePages(page, First(t.missing)[2])
        /\ task' = [task EXCEPT ![w] =
             Onward([t EXCEPT !.cached = Merged(t.cached, rows, t.start, t.end),
                              !.clean = @ /\ Issueless(rows),
                              !.downloaded = <<>>, !.attempt = 0], rest)]

Receive(w, page) == ReceivePage(w, page) \/ ReceiveRange(w, page)

(* What the exchange has for klines from `cursor` up to `end`.             *)
Page(cursor, end) ==
    LET times == {t \in cursor..(end - 1) : t <= clock /\ t < cursor + PageLimit}
    IN  [i \in 1..Cardinality(times) |->
           [time |-> cursor + i - 1, stored |-> FALSE,
            content |-> IF cursor + i - 1 < clock THEN "final" ELSE "forming"]]

(* A page with a row left out, repeated, out of order or inconsistent.     *)
Faulty(page) ==
    (   {RemoveAt(page, i) : i \in DOMAIN page}
   \cup {[page EXCEPT ![i] = page[j]] : i, j \in DOMAIN page}
   \cup {[page EXCEPT ![i].content = "malformed"] : i \in DOMAIN page}
   \cup {Reverse(page)}) \ {page}

FetchPage(w) ==
    /\ task[w].at = "fetch"
    /\ Receive(w, Page(task[w].cursor, First(task[w].missing)[2]))
    /\ UNCHANGED <<datasets, runs, clock, requests, glitches, deletes>>

GlitchPage(w) ==
    /\ task[w].at = "fetch" /\ glitches < MaxGlitches
    /\ glitches' = glitches + 1
    /\ \E page \in Faulty(Page(task[w].cursor, First(task[w].missing)[2])) : Receive(w, page)
    /\ UNCHANGED <<datasets, runs, clock, requests, deletes>>

(* Faulty variant: one attempt too many.                                   *)
RetryOnceMore(w) ==
    /\ task[w].at = "fetch" /\ task[w].attempt < MaxAttempts
    /\ task' = [task EXCEPT ![w].attempt = @ + 1]
    /\ UNCHANGED <<datasets, runs, clock, requests, glitches, deletes>>

(* A timeout, a refused connection, 429 or 5xx.                            *)
Retry(w) ==
    /\ task[w].at = "fetch" /\ task[w].attempt + 1 < MaxAttempts
    /\ task' = [task EXCEPT ![w].attempt = @ + 1]
    /\ UNCHANGED <<datasets, runs, clock, requests, glitches, deletes>>

(* The same on the last attempt, or an answer that is not retried.         *)
GiveUp(w) ==
    /\ task[w].at = "fetch"
    /\ Leave(w)
    /\ UNCHANGED <<datasets, runs, clock, requests, glitches, deletes>>

(* The unique columns of uq_candle_dataset_identity.                       *)
SameIdentity(t) ==
    {d \in datasets : d.start = t.start /\ d.end = t.end /\ d.print = t.cached}

Existing(w) ==
    /\ task[w].at = "store"
    /\ \/ \E d \in SameIdentity(task[w]) :
            task' = [task EXCEPT ![w].at = "answer", ![w].dataset = d]
       \/ /\ SameIdentity(task[w]) = {}
          /\ task' = [task EXCEPT ![w].at = "commit"]
    /\ UNCHANGED <<datasets, runs, clock, requests, glitches, deletes>>

(* Faulty variant: candles are not counted.                                *)
IsValidByReport(t) == t.clean /\ Gapless(t.cached)

IsValid(t) ==
    /\ t.clean /\ Gapless(t.cached)
    /\ Cardinality(t.cached) = t.end - t.start

NewDataset(t) ==
    [id |-> t.id, start |-> t.start, end |-> t.end, print |-> t.cached, valid |-> IsValid(t)]

(* The dataset in hand keeps its candles in memory after the commit.       *)
Commit(w) ==
    /\ task[w].at = "commit"
    /\ \/ /\ SameIdentity(task[w]) = {}
          /\ datasets' = datasets \cup {NewDataset(task[w])}
          /\ task' = [task EXCEPT ![w].at = "answer", ![w].series = task[w].cached,
                                  ![w].dataset = NewDataset(task[w])]
       \/ /\ SameIdentity(task[w]) # {}
          /\ task' = [task EXCEPT ![w].at = "conflict"]
          /\ UNCHANGED datasets
    /\ UNCHANGED <<runs, clock, requests, glitches, deletes>>

(* Faulty variant: only a valid dataset counts as the winner.             *)
WinnerIfValid(w) ==
    \/ \E d \in SameIdentity(task[w]) :
         d.valid /\ task' = [task EXCEPT ![w].at = "answer", ![w].dataset = d]
    \/ (\A d \in SameIdentity(task[w]) : ~d.valid) /\ Leave(w)

(* After the IntegrityError: the dataset that was there first, or raise.   *)
Winner(w) ==
    \/ \E d \in SameIdentity(task[w]) :
         task' = [task EXCEPT ![w].at = "answer", ![w].dataset = d]
    \/ SameIdentity(task[w]) = {} /\ Leave(w)

Conflict(w) ==
    /\ task[w].at = "conflict"
    /\ Winner(w)
    /\ UNCHANGED <<datasets, runs, clock, requests, glitches, deletes>>

(* A refresh returns the dataset's description.                            *)
Answer(w) ==
    /\ task[w].at = "answer" /\ w \notin Backtests
    /\ Leave(w)
    /\ UNCHANGED <<datasets, runs, clock, requests, glitches, deletes>>

(* A backtest refuses an invalid dataset.                                  *)
Reject(w) ==
    /\ task[w].at = "answer" /\ w \in Backtests /\ ~task[w].dataset.valid
    /\ Leave(w)
    /\ UNCHANGED <<datasets, runs, clock, requests, glitches, deletes>>

(* dataset.candles: in memory, or selected now; none when the dataset has  *)
(* been deleted since.                                                     *)
Loaded(t) ==
    IF t.series # {} THEN t.series
    ELSE UNION {Stored(d.print) : d \in {e \in datasets : e.id = t.dataset.id}}

Read(w) ==
    /\ task[w].at = "answer" /\ w \in Backtests /\ task[w].dataset.valid
    /\ task' = [task EXCEPT ![w].at = "validate", ![w].series = Loaded(task[w])]
    /\ UNCHANGED <<datasets, runs, clock, requests, glitches, deletes>>

(* Faulty variant: no candles are enough.                                  *)
AnyCandles(series) == Cardinality(series) >= 0

EnoughCandles(series) == Cardinality(series) >= 2

TooShort(w) ==
    /\ task[w].at = "validate" /\ ~EnoughCandles(task[w].series)
    /\ Leave(w)
    /\ UNCHANGED <<datasets, runs, clock, requests, glitches, deletes>>

(* The engine runs and save_completed commits the result.                  *)
Save(w) ==
    /\ task[w].at = "validate" /\ EnoughCandles(task[w].series)
    /\ runs' = runs \cup {[start |-> task[w].start, end |-> task[w].end,
                           dataset |-> task[w].dataset.id, series |-> task[w].series]}
    /\ Leave(w)
    /\ UNCHANGED <<datasets, clock, requests, glitches, deletes>>

(* delete_unused: reference_count is 0, no code ever increments it.        *)
Delete(d) ==
    /\ deletes < MaxDeletes /\ deletes' = deletes + 1
    /\ datasets' = datasets \ {d}
    /\ UNCHANGED <<runs, task, clock, requests, glitches>>

Serve(w) ==
    \/ Covering(w) \/ Cached(w) \/ FetchPage(w) \/ GlitchPage(w) \/ Retry(w) \/ GiveUp(w)
    \/ Existing(w) \/ Commit(w) \/ Conflict(w)
    \/ Answer(w) \/ Reject(w) \/ Read(w) \/ TooShort(w) \/ Save(w)

(* Nobody asks for anything any more.                                      *)
Quiet ==
    /\ \A w \in Workers : task[w].at = "idle"
    /\ UNCHANGED vars

Next ==
    \/ Tick \/ Quiet
    \/ \E w \in Workers : Serve(w) \/ \E r \in Ranges : Begin(w, r)
    \/ \E d \in datasets : Delete(d)

Spec == Init /\ [][Next]_vars

-----------------------------------------------------------------------------
TypeOK ==
    /\ datasets \subseteq Dataset
    /\ runs \subseteq [start: Nat, end: Nat, dataset: 1..MaxRequests, series: SUBSET Candle]
    /\ task \in [Workers -> Request]
    /\ \A w \in Workers :
         /\ task[w].at # "idle" => <<task[w].start, task[w].end>> \in Ranges
         /\ task[w].at = "fetch" <=> task[w].missing # {}
    /\ clock \in 0..MaxClock /\ requests \in 0..MaxRequests
    /\ glitches \in 0..MaxGlitches /\ deletes \in 0..MaxDeletes

Complete(d) == TimesOf(d.print) = d.start..(d.end - 1)

(* A dataset marked valid has one consistent candle for every time of its  *)
(* range, whatever pages it was put together from: a gap at either end,    *)
(* which validate_candles does not see, included (repository.py:136).      *)
ValidMeansComplete ==
    \A d \in datasets : d.valid =>
        /\ Complete(d) /\ Cardinality(d.print) = d.end - d.start
        /\ \A c \in d.print : c.content # "malformed"

(* The dataset a request ends up with, whether found, created or lost in a *)
(* race to another request, spans the range asked for, and a valid one has *)
(* all its candles.                                                        *)
AnswersFit ==
    \A w \in Workers : task[w].at \in {"answer", "validate"} =>
        LET d == task[w].dataset IN
        /\ d.start <= task[w].start /\ task[w].end <= d.end
        /\ d.valid => task[w].start..(task[w].end - 1) \subseteq TimesOf(d.print)

(* A saved backtest has read a candle for every time of its range, also    *)
(* when its dataset was deleted between the answer and the reading of its  *)
(* candles (backtest/service.py:66-106).                                   *)
RunsSeeWholeRange ==
    \A x \in runs : x.start..(x.end - 1) \subseteq TimesOf(x.series)

(* As long as the exchange answers correctly, pages and cached candles fit *)
(* together without a gap: a dataset ends early only because its range had *)
(* not yet formed, and is valid otherwise, whoever else stored or deleted  *)
(* what in the meantime.                                                   *)
CorrectAnswersLeaveNoGaps ==
    glitches = 0 =>
        \A d \in datasets :
            /\ d.valid <=> Complete(d)
            /\ \E n \in d.start..d.end : TimesOf(d.print) = d.start..(n - 1)

(* The loser of a race for a dataset raises only when the winner's row has *)
(* been deleted before it is looked up (repository.py:170-183).            *)
NoLostConflict ==
    [][\A w \in Workers :
         task[w].at = "conflict" /\ task'[w].at = "idle" => deletes > 0]_vars

-----------------------------------------------------------------------------
(* Backtests are computed from closed candles only.                        *)
ClosedCandlesOnly ==
    \A x \in runs : \A c \in x.series : c.content = "final"
=============================================================================
