-------------------------- MODULE CandleStoreProofs --------------------------
(***************************************************************************)
(* Proofs about CandleStore for every set of workers and ranges, page      *)
(* size, number of attempts, requests, wrong pages and deletions.          *)
(***************************************************************************)
EXTENDS CandleStore, DataLemmas, SequenceTheorems, TLAPS

USE CandleStoreAssumption

-----------------------------------------------------------------------------
(* Why they hold.  Together with TypeOK the following is inductive.        *)

(* What the unique columns, the dictionary and is_valid make of a dataset. *)
DatasetFits(d) ==
    /\ <<d.start, d.end>> \in Ranges /\ d.id \in 1..requests
    /\ TimesOf(d.print) \subseteq d.start..(d.end - 1) /\ OnePerTime(d.print)
    /\ d.valid => /\ Complete(d) /\ Cardinality(d.print) = d.end - d.start
                  /\ \A c \in d.print : c.content # "malformed"

Answered == {"answer", "validate"}

RequestFits(t) ==
    /\ t.id <= requests /\ (t.at # "idle" => t.id > 0)
    /\ TimesOf(t.cached) \subseteq t.start..(t.end - 1) /\ OnePerTime(t.cached)
    /\ t.at \in Answered => /\ DatasetFits(t.dataset)
                            /\ t.dataset.start <= t.start /\ t.end <= t.dataset.end
    /\ t.at \notin Answered => t.series = {}
    /\ t.at = "answer" => t.series \in {{}, t.dataset.print}
    /\ t.at = "validate" => t.series = {} \/ t.start..(t.end - 1) \subseteq TimesOf(t.series)

(* An id is given out once: a dataset a request still holds is either in   *)
(* the table as it was or not at all.                                      *)
MayCommit == {"covering", "cached", "fetch", "store", "commit"}

IdsUnique ==
    /\ \A d, e \in datasets : d.id = e.id => d = e
    /\ \A w \in Workers : task[w].at \in Answered =>
         \A d \in datasets : d.id = task[w].dataset.id => d = task[w].dataset
    /\ \A w \in Workers : task[w].at \in MayCommit =>
         /\ \A d \in datasets : d.id # task[w].id
         /\ \A v \in Workers \ {w} :
              /\ task[v].at # "idle" => task[v].id # task[w].id
              /\ task[v].at \in Answered => task[v].dataset.id # task[w].id

WinnerStays ==
    \A w \in Workers : task[w].at = "conflict" /\ deletes = 0 => SameIdentity(task[w]) # {}

StoreInv ==
    /\ TypeOK
    /\ \A d \in datasets : DatasetFits(d)
    /\ \A w \in Workers : RequestFits(task[w])
    /\ IdsUnique /\ RunsSeeWholeRange /\ WinnerStays

(* And while the exchange answers correctly: a missing range is filled     *)
(* from its first time to the cursor, no two of them touch, and only the   *)
(* last one of a request can end with the candle that is forming.          *)
Sound(candles) == \A c \in candles : c.time <= clock /\ c.content # "malformed"

Prefix(candles, start, end) == \E n \in start..end : TimesOf(candles) = start..(n - 1)

RangesLeft(t) ==
    /\ \A i \in t.start..(t.end - 1) :
         i \in TimesOf(t.cached) <=> ~\E r \in t.missing : r[1] <= i /\ i < r[2]
    /\ \A r \in t.missing :
         /\ t.start <= r[1] /\ r[1] < r[2] /\ r[2] <= t.end
         /\ r[2] = t.end \/ r[2] \in TimesOf(t.cached)
    /\ \A r, q \in t.missing : r = q \/ r[2] < q[1] \/ q[2] < r[1]

RowsInOrder(rows, first) ==
    \A i \in 1..Len(rows) :
       rows[i].time = first + i - 1 /\ rows[i].time <= clock /\ rows[i].content # "malformed"

DownloadFits(t) ==
    /\ t.cursor = First(t.missing)[1] + Len(t.downloaded) /\ t.cursor < First(t.missing)[2]
    /\ RowsInOrder(t.downloaded, First(t.missing)[1])

Orderly(t) ==
    /\ t.clean /\ Sound(t.cached)
    /\ t.at = "fetch" => RangesLeft(t) /\ DownloadFits(t)
    /\ t.at # "fetch" => t.downloaded = <<>>
    /\ t.at \in {"store", "commit", "conflict"} => Prefix(t.cached, t.start, t.end)

CleanInv ==
    glitches = 0 =>
        /\ \A d \in datasets : /\ Sound(d.print) /\ Prefix(d.print, d.start, d.end)
                               /\ d.valid <=> Complete(d)
        /\ \A w \in Workers : Orderly(task[w])

IInv == StoreInv /\ CleanInv

-----------------------------------------------------------------------------
(* Missing ranges. *)

(* The loop over the missing ranges takes an earliest one. *)
LEMMA FirstIsLeast ==
  ASSUME NEW missing \in SUBSET (Nat \X Nat), missing # {}
  PROVE  First(missing) \in missing /\ \A q \in missing : First(missing)[1] <= q[1]
  <1> DEFINE starts == {r[1] : r \in missing}
  <1>1. starts \in SUBSET Nat /\ starts # {}
    OBVIOUS
  <1>2. PICK n \in starts : \A m \in starts : n <= m
    <2> HIDE DEF starts
    <2> QED
      BY <1>1, LeastOfNat
  <1>3. \E r \in missing : \A q \in missing : r[1] <= q[1]
    BY <1>2
  <1> QED
    BY <1>3 DEF First

(* A missing range begins with a missing time and ends before one that is  *)
(* not; two of them neither meet nor touch.                                *)
LEMMA MissingRangesShape ==
  ASSUME NEW times \in SUBSET Nat
  PROVE  /\ MissingRanges(times) \in SUBSET (Nat \X Nat)
         /\ \A r \in MissingRanges(times) :
              /\ r[1] \in times /\ r[2] - 1 \in times /\ r[2] \notin times /\ r[1] < r[2]
              /\ \A i \in Nat : r[1] <= i /\ i < r[2] => i \in times
         /\ \A r, q \in MissingRanges(times) : r = q \/ r[2] < q[1] \/ q[2] < r[1]
  <1>1. \A r \in MissingRanges(times) :
              /\ r \in Nat \X Nat
              /\ r[1] \in times /\ r[2] - 1 \in times /\ r[2] \notin times /\ r[1] < r[2]
              /\ r[1] - 1 \notin times /\ r[1]..(r[2] - 1) \subseteq times
    <2> SUFFICES ASSUME NEW r \in MissingRanges(times)
                 PROVE  /\ r \in Nat \X Nat
                        /\ r[1] \in times /\ r[2] - 1 \in times /\ r[2] \notin times
                        /\ r[1] < r[2]
                        /\ r[1] - 1 \notin times /\ r[1]..(r[2] - 1) \subseteq times
      OBVIOUS
    <2>1. /\ r \in times \X {i + 1 : i \in times} /\ r[1] < r[2]
          /\ r[1]..(r[2] - 1) \subseteq times
          /\ r[1] - 1 \notin times /\ r[2] \notin times
      BY DEF MissingRanges
    <2>2. PICK a \in times, b \in {i + 1 : i \in times} : r = <<a, b>>
      BY <2>1
    <2>3. PICK i \in times : b = i + 1
      BY <2>2
    <2>4. r[1] = a /\ r[2] = i + 1 /\ a \in Nat /\ i \in Nat /\ r[2] - 1 = i
      BY <2>2, <2>3
    <2>5. r \in Nat \X Nat
      BY <2>2, <2>3, <2>4
    <2> QED
      BY <2>1, <2>4, <2>5
  <1>2. \A r \in MissingRanges(times) :
           \A i \in Nat : r[1] <= i /\ i < r[2] => i \in times
    <2> SUFFICES ASSUME NEW r \in MissingRanges(times), NEW i \in Nat, r[1] <= i, i < r[2]
                 PROVE  i \in times
      OBVIOUS
    <2>1. r[1] \in Nat /\ r[2] \in Nat /\ r[1]..(r[2] - 1) \subseteq times
      BY <1>1
    <2>2. i \in r[1]..(r[2] - 1)
      BY <2>1
    <2> QED
      BY <2>1, <2>2
  <1>3. ASSUME NEW r \in MissingRanges(times), NEW q \in MissingRanges(times), r[1] <= q[1]
        PROVE  r = q \/ r[2] < q[1]
    <2>1. /\ r \in Nat \X Nat /\ q \in Nat \X Nat /\ r = <<r[1], r[2]>> /\ q = <<q[1], q[2]>>
          /\ r[1] \in Nat /\ r[2] \in Nat /\ q[1] \in Nat /\ q[2] \in Nat
      BY <1>1
    <2>2. SUFFICES ASSUME q[1] <= r[2] PROVE r = q
      BY <2>1
    <2>3. q[1] < r[2]
      BY <1>1, <2>1, <2>2
    <2>4. q[1] = r[1]
      <3>1. q[1] > r[1] => q[1] - 1 \in Nat /\ r[1] <= q[1] - 1 /\ q[1] - 1 < r[2]
        BY <2>1, <2>3
      <3> QED
        BY <1>1, <1>2, <1>3, <2>1, <3>1
    <2>5. q[2] = r[2]
      <3>1. ~(r[2] < q[2])
        BY <1>1, <1>2, <1>3, <2>1, <2>4
      <3>2. ~(q[2] < r[2])
        BY <1>1, <1>2, <1>3, <2>1, <2>4
      <3> QED
        BY <2>1, <3>1, <3>2
    <2> QED
      BY <2>1, <2>4, <2>5
  <1>4. \A r, q \in MissingRanges(times) : r[1] <= q[1] \/ q[1] <= r[1]
    BY <1>1
  <1> QED
    BY <1>1, <1>2, <1>3, <1>4

(* Every missing time lies in a missing range. *)
LEMMA MissingRangesCover ==
  ASSUME NEW times \in SUBSET Nat, NEW end \in Nat, \A i \in times : i < end,
         NEW t \in times
  PROVE  \E r \in MissingRanges(times) : r[1] <= t /\ t < r[2]
  <1> DEFINE L == {a \in Nat : a <= t /\ a..t \subseteq times}
             H == {b \in Nat : b > t /\ b \notin times}
  <1>1. PICK a \in L : \A x \in L : a <= x
    <2>1. t \in L /\ L \in SUBSET Nat
      OBVIOUS
    <2> HIDE DEF L
    <2> QED
      BY <2>1, LeastOfNat
  <1>2. PICK b \in H : \A x \in H : b <= x
    <2>1. end \in H /\ H \in SUBSET Nat
      OBVIOUS
    <2> HIDE DEF H
    <2> QED
      BY <2>1, LeastOfNat
  <1>3. a \in Nat /\ a <= t /\ a..t \subseteq times /\ b \in Nat /\ b > t /\ b \notin times
    BY <1>1, <1>2
  <1>4. a - 1 \notin times
    <2> SUFFICES ASSUME a - 1 \in times PROVE FALSE
      OBVIOUS
    <2>1. a - 1 \in Nat
      OBVIOUS
    <2>2. (a - 1)..t \subseteq times
      <3> SUFFICES ASSUME NEW i \in (a - 1)..t PROVE i \in times
        OBVIOUS
      <3>1. i = a - 1 \/ i \in a..t
        BY <1>3, <2>1
      <3> QED
        BY <1>3, <3>1
    <2>3. a - 1 \in L
      BY <1>3, <2>1, <2>2
    <2> QED
      BY <1>1, <1>3, <2>3
  <1>5. a..(b - 1) \subseteq times
    <2> SUFFICES ASSUME NEW i \in a..(b - 1) PROVE i \in times
      OBVIOUS
    <2>1. CASE i <= t
      BY <1>3, <2>1
    <2>2. CASE i > t
      <3>1. i \in Nat /\ i < b
        BY <1>3
      <3>2. i \notin H
        BY <1>2, <1>3, <3>1
      <3> QED
        BY <2>2, <3>1, <3>2
    <2> QED
      BY <1>3, <2>1, <2>2
  <1>6. a \in times /\ b - 1 \in times /\ b = (b - 1) + 1 /\ a < b
    BY <1>3, <1>5
  <1> HIDE DEF L, H
  <1>7. <<a, b>> \in times \X {i + 1 : i \in times}
    BY <1>6
  <1>8. <<a, b>> \in MissingRanges(times)
    BY <1>3, <1>4, <1>5, <1>6, <1>7 DEF MissingRanges
  <1> QED
    BY <1>3, <1>8
-----------------------------------------------------------------------------
(* Pages. *)

(* The rows of a page, one by one. *)
LEMMA PageRows ==
  ASSUME NEW cursor \in Nat, NEW end \in Nat, clock \in 0..MaxClock
  PROVE  LET page == Page(cursor, end) IN
         /\ page \in Seq(Candle)
         /\ Len(page) <= PageLimit
         /\ \A i \in 1..Len(page) :
              /\ page[i].time = cursor + i - 1 /\ page[i].time <= clock /\ page[i].time < end
              /\ page[i].content # "malformed"
         /\ \/ Len(page) = PageLimit
            \/ cursor + Len(page) >= end
            \/ cursor + Len(page) > clock
  <1> DEFINE times == {t \in cursor..(end - 1) : t <= clock /\ t < cursor + PageLimit}
             n == Cardinality(times)
  <1>1. PICK last \in Int :
           /\ last <= end - 1 /\ last <= clock /\ last < cursor + PageLimit
           /\ last = end - 1 \/ last = clock \/ last = cursor + PageLimit - 1
    <2> DEFINE LastTime(l) ==
                 /\ l \in Int /\ l <= end - 1 /\ l <= clock /\ l < cursor + PageLimit
                 /\ l = end - 1 \/ l = clock \/ l = cursor + PageLimit - 1
    <2>1. LastTime(end - 1) \/ LastTime(clock) \/ LastTime(cursor + PageLimit - 1)
      OBVIOUS
    <2> QED
      BY <2>1
  <1>2. times = cursor..last
    BY <1>1
  <1>3. n = IF cursor > last THEN 0 ELSE last - cursor + 1
    <2>1. cursor \in Int /\ last \in Int
      OBVIOUS
    <2>2. Cardinality(cursor..last) = IF cursor > last THEN 0 ELSE last - cursor + 1
      BY <2>1, FS_Interval
    <2> HIDE DEF times
    <2> QED
      BY <1>2, <2>2
  <1> HIDE DEF n
  <1>4. n \in Nat /\ n <= PageLimit /\ \A i \in 1..n : cursor + i - 1 <= last
    BY <1>1, <1>3
  <1> DEFINE page == Page(cursor, end)
  <1>5. page = [i \in 1..n |->
           [time |-> cursor + i - 1, stored |-> FALSE,
            content |-> IF cursor + i - 1 < clock THEN "final" ELSE "forming"]]
    BY DEF Page, n
  <1> HIDE DEF page, times
  <1>6. ASSUME NEW i \in 1..n
        PROVE  /\ page[i] \in Candle
               /\ page[i].time = cursor + i - 1 /\ page[i].time <= clock /\ page[i].time < end
               /\ page[i].content # "malformed"
    <2>1. page[i] = [time |-> cursor + i - 1, stored |-> FALSE,
            content |-> IF cursor + i - 1 < clock THEN "final" ELSE "forming"]
      BY <1>5
    <2>2. cursor + i - 1 \in 0..MaxClock /\ cursor + i - 1 <= clock /\ cursor + i - 1 < end
      BY <1>1, <1>4
    <2>3. (IF cursor + i - 1 < clock THEN "final" ELSE "forming") \in {"final", "forming"}
      OBVIOUS
    <2> QED
      BY <2>1, <2>2, <2>3 DEF Candle
  <1>7. page \in Seq(Candle) /\ Len(page) = n
    <2>1. DOMAIN page = 1..n
      BY <1>5
    <2>2. page \in [1..n -> Candle]
      BY <1>5, <1>6
    <2> QED
      BY <1>4, <2>1, <2>2, IsASeq, LenProperties
  <1>8. n = PageLimit \/ cursor + n >= end \/ cursor + n > clock
    BY <1>1, <1>3
  <1> QED
    BY <1>4, <1>6, <1>7, <1>8 DEF page

(* A page answered wrongly is still a sequence of candles. *)
LEMMA FaultyPages ==
  ASSUME NEW page \in Seq(Candle), NEW wrong \in Faulty(page)
  PROVE  wrong \in Seq(Candle)
  <1>1. CASE \E i \in DOMAIN page : wrong = RemoveAt(page, i)
    <2>1. PICK i \in 1..Len(page) : wrong = SubSeq(page, 1, i - 1) \o SubSeq(page, i + 1, Len(page))
      BY <1>1, LenProperties DEF RemoveAt
    <2>2. SubSeq(page, 1, i - 1) \in Seq(Candle)
      BY SubSeqProperties, LenProperties
    <2>3. SubSeq(page, i + 1, Len(page)) \in Seq(Candle)
      BY SubSeqProperties, LenProperties
    <2> QED
      BY <2>1, <2>2, <2>3, ConcatProperties
  <1>2. CASE \E i, j \in DOMAIN page : wrong = [page EXCEPT ![i] = page[j]]
    <2>1. PICK i \in 1..Len(page), j \in 1..Len(page) : wrong = [page EXCEPT ![i] = page[j]]
      BY <1>2, LenProperties
    <2>2. page[j] \in Candle
      BY ElementOfSeq
    <2> QED
      BY <2>1, <2>2, ExceptSeq
  <1>3. CASE \E i \in DOMAIN page : wrong = [page EXCEPT ![i].content = "malformed"]
    <2>1. PICK i \in 1..Len(page) : wrong = [page EXCEPT ![i] = [page[i] EXCEPT !.content = "malformed"]]
      BY <1>3, LenProperties
    <2>2. [page[i] EXCEPT !.content = "malformed"] \in Candle
      <3>1. page[i] \in Candle
        BY ElementOfSeq
      <3> QED
        BY <3>1 DEF Candle
    <2> QED
      BY <2>1, <2>2, ExceptSeq
  <1>4. CASE wrong = Reverse(page)
    <2>1. Len(page) \in Nat /\ wrong = [i \in 1..Len(page) |-> page[(Len(page) - i) + 1]]
      BY <1>4, LenProperties DEF Reverse
    <2>2. \A i \in 1..Len(page) : page[(Len(page) - i) + 1] \in Candle
      <3> SUFFICES ASSUME NEW i \in 1..Len(page) PROVE page[(Len(page) - i) + 1] \in Candle
        OBVIOUS
      <3>1. (Len(page) - i) + 1 \in 1..Len(page)
        BY <2>1
      <3> QED
        BY <3>1, ElementOfSeq
    <2> QED
      BY <2>1, <2>2, IsASeq
  <1> QED
    BY <1>1, <1>2, <1>3, <1>4 DEF Faulty

(* The next cursor is one past the newest row of the page. *)
LEMMA NextCursorPast ==
  ASSUME NEW page \in Seq(Candle), page # <<>>
  PROVE  /\ NextCursor(page) \in Nat
         /\ \A i \in 1..Len(page) : page[i].time < NextCursor(page)
         /\ \E i \in 1..Len(page) : NextCursor(page) = page[i].time + 1
  <1> DEFINE times == TimesOf(ToSet(page))
  <1>1. \A i \in 1..Len(page) : page[i] \in Candle /\ page[i].time \in 0..MaxClock
    <2>1. \A c \in Candle : c.time \in 0..MaxClock
      BY DEF Candle
    <2>2. \A i \in 1..Len(page) : page[i] \in Candle
      BY ElementOfSeq
    <2> QED
      BY <2>1, <2>2
  <1>2. times = {page[i].time : i \in 1..Len(page)}
    BY LenProperties DEF TimesOf, ToSet
  <1>3. 1 \in 1..Len(page)
    BY EmptySeq, LenProperties
  <1>4. times \in SUBSET (0..MaxClock) /\ times # {}
    BY <1>1, <1>2, <1>3
  <1>5. \E n \in times : \A m \in times : n >= m
    <2> HIDE DEF times
    <2> QED
      BY <1>4, GreatestOfNat
  <1>6. Max(times) \in times /\ \A m \in times : Max(times) >= m
    BY <1>5 DEF Max
  <1>7. NextCursor(page) = Max(times) + 1
    BY DEF NextCursor
  <1> HIDE DEF times
  <1>8. PICK m : m = Max(times)
    OBVIOUS
  <1>9. m \in times /\ (\A k \in times : m >= k) /\ NextCursor(page) = m + 1
    BY <1>8, <1>6, <1>7
  <1>10. m \in Nat
    BY <1>4, <1>9
  <1>11. NextCursor(page) \in Nat
    BY <1>9, <1>10
  <1>12. \A i \in 1..Len(page) : page[i].time < NextCursor(page)
    <2> SUFFICES ASSUME NEW i \in 1..Len(page) PROVE page[i].time < NextCursor(page)
      OBVIOUS
    <2>1. page[i].time \in times /\ page[i].time \in Nat
      BY <1>1, <1>2
    <2> QED
      BY <1>9, <1>10, <2>1
  <1>13. \E i \in 1..Len(page) : NextCursor(page) = page[i].time + 1
    BY <1>2, <1>6, <1>7
  <1> QED
    BY <1>11, <1>12, <1>13

(* Of a right page it follows the last row. *)
LEMMA NextCursorOfPage ==
  ASSUME NEW cursor \in Nat, NEW end \in Nat, clock \in 0..MaxClock, Page(cursor, end) # <<>>
  PROVE  NextCursor(Page(cursor, end)) = cursor + Len(Page(cursor, end))
  <1> DEFINE page == Page(cursor, end)
             n == Len(page)
  <1>1. page \in Seq(Candle) /\ \A i \in 1..n : page[i].time = cursor + i - 1
    BY PageRows
  <1>2. page # <<>>
    OBVIOUS
  <1> HIDE DEF page
  <1>3. n \in Nat /\ n \in 1..n
    BY <1>1, <1>2, EmptySeq, LenProperties
  <1>4. /\ NextCursor(page) \in Nat /\ \A i \in 1..n : page[i].time < NextCursor(page)
        /\ \E i \in 1..n : NextCursor(page) = page[i].time + 1
    BY <1>1, <1>2, NextCursorPast
  <1>5. cursor + n - 1 < NextCursor(page)
    BY <1>1, <1>3, <1>4
  <1>6. NextCursor(page) <= cursor + n
    BY <1>1, <1>3, <1>4
  <1> QED
    BY <1>3, <1>4, <1>5, <1>6 DEF page
-----------------------------------------------------------------------------
(* Merging downloaded rows into the dictionary. *)

(* Whatever the rows are: the last row of each time within the range wins, *)
(* the rest of the dictionary stays.                                       *)
LEMMA MergedShape ==
  ASSUME NEW cached \in SUBSET Candle, NEW rows \in Seq(Candle),
         NEW start \in Nat, NEW end \in Nat, OnePerTime(cached),
         TimesOf(cached) \subseteq start..(end - 1)
  PROVE  LET merged == Merged(cached, rows, start, end) IN
         /\ merged \in SUBSET Candle /\ OnePerTime(merged)
         /\ TimesOf(merged) \subseteq start..(end - 1)
         /\ \A c \in merged : c \in cached \/ \E i \in 1..Len(rows) : c = rows[i]
         /\ \A t : t \in TimesOf(merged) <=>
              \/ t \in TimesOf(cached)
              \/ t \in start..(end - 1) /\ \E i \in 1..Len(rows) : rows[i].time = t
  <1> DEFINE within == {i \in DOMAIN rows : rows[i].time \in start..(end - 1)}
             last == {i \in within : \A j \in within : rows[j].time = rows[i].time => j <= i}
             new == {rows[i] : i \in last}
             old == {c \in cached : c.time \notin {rows[i].time : i \in within}}
             merged == Merged(cached, rows, start, end)
  <1>1. merged = new \cup old
    BY DEF Merged
  <1>2. DOMAIN rows = 1..Len(rows) /\ Len(rows) \in Nat
    BY LenProperties
  <1>3. /\ \A i \in 1..Len(rows) : rows[i] \in Candle
        /\ \A i \in within : i \in 1..Len(rows) /\ rows[i].time \in start..(end - 1)
        /\ last \subseteq within
    BY <1>2, ElementOfSeq
  <1>4. \A i, j \in last : rows[i].time = rows[j].time => i = j
    BY <1>2
  <1>5. ASSUME NEW i \in within PROVE \E j \in last : rows[j].time = rows[i].time
    <2> DEFINE same == {j \in within : rows[j].time = rows[i].time}
    <2>1. same \in SUBSET (0..Len(rows)) /\ same # {}
      BY <1>2
    <2>2. PICK j \in same : \A k \in same : j >= k
      <3> HIDE DEF same
      <3> QED
        BY <1>2, <2>1, GreatestOfNat
    <2>3. j \in last
      BY <1>2, <2>2
    <2> QED
      BY <2>2, <2>3
  <1> HIDE DEF within, last
  <1>6. merged \in SUBSET Candle
    BY <1>1, <1>3
  <1>7. OnePerTime(merged)
    <2> SUFFICES ASSUME NEW c \in merged, NEW d \in merged, c.time = d.time PROVE c = d
      BY DEF OnePerTime
    <2>1. CASE c \in new /\ d \in new
      BY <1>4, <2>1
    <2>2. CASE c \in old /\ d \in old
      BY <2>2 DEF OnePerTime
    <2>3. CASE c \in new /\ d \in old
      BY <1>3, <2>3
    <2>4. CASE c \in old /\ d \in new
      BY <1>3, <2>4
    <2> QED
      BY <1>1, <2>1, <2>2, <2>3, <2>4
  <1>8. \A c \in merged : c \in cached \/ \E i \in 1..Len(rows) : c = rows[i]
    BY <1>1, <1>3
  <1>9. ASSUME NEW t
        PROVE  t \in TimesOf(merged) <=>
                 \/ t \in TimesOf(cached)
                 \/ t \in start..(end - 1) /\ \E i \in 1..Len(rows) : rows[i].time = t
    <2>1. ASSUME t \in TimesOf(merged)
          PROVE  \/ t \in TimesOf(cached)
                 \/ t \in start..(end - 1) /\ \E i \in 1..Len(rows) : rows[i].time = t
      <3>1. PICK c \in merged : c.time = t
        BY <2>1 DEF TimesOf
      <3>2. CASE c \in new
        BY <1>3, <3>1, <3>2
      <3>3. CASE c \in old
        BY <3>1, <3>3 DEF TimesOf
      <3> QED
        BY <1>1, <3>2, <3>3
    <2>2. ASSUME NEW i \in within, rows[i].time = t PROVE t \in TimesOf(merged)
      <3>1. PICK j \in last : rows[j].time = t
        BY <1>5, <2>2
      <3>2. rows[j] \in merged
        BY <1>1
      <3> QED
        BY <3>1, <3>2 DEF TimesOf
    <2>3. ASSUME t \in TimesOf(cached) PROVE t \in TimesOf(merged)
      <3>1. PICK c \in cached : c.time = t
        BY <2>3 DEF TimesOf
      <3>2. CASE \E i \in within : rows[i].time = t
        BY <2>2, <3>2
      <3>3. CASE ~\E i \in within : rows[i].time = t
        <4>1. c \in merged
          BY <1>1, <3>1, <3>3
        <4> QED
          BY <3>1, <4>1 DEF TimesOf
      <3> QED
        BY <3>2, <3>3
    <2>4. ASSUME t \in start..(end - 1), NEW i \in 1..Len(rows), rows[i].time = t
          PROVE  t \in TimesOf(merged)
      <3>1. i \in within
        BY <1>2, <2>4 DEF within
      <3> QED
        BY <2>2, <2>4, <3>1
    <2> QED
      BY <2>1, <2>3, <2>4
  <1>10. TimesOf(merged) \subseteq start..(end - 1)
    BY <1>9
  <1> HIDE DEF new, old, merged
  <1> QED
    BY <1>6, <1>7, <1>8, <1>9, <1>10 DEF merged

(* Rows in order, followed by a page that goes on where they end.          *)
LEMMA RowsThenPage ==
  ASSUME NEW rows \in Seq(Candle), NEW first \in Nat, NEW end \in Nat, clock \in 0..MaxClock,
         RowsInOrder(rows, first), first + Len(rows) < end
  PROVE  LET cursor == first + Len(rows)
             all == rows \o Page(cursor, end)
         IN  /\ all \in Seq(Candle) /\ RowsInOrder(all, first)
             /\ Len(all) = Len(rows) + Len(Page(cursor, end))
             /\ \A i \in 1..Len(all) : all[i].time < end
  <1> DEFINE cursor == first + Len(rows)
             page == Page(cursor, end)
             all == rows \o page
  <1>1. Len(rows) \in Nat /\ cursor \in Nat
    BY LenProperties
  <1>2. /\ page \in Seq(Candle)
        /\ \A i \in 1..Len(page) :
             /\ page[i].time = cursor + i - 1 /\ page[i].time <= clock /\ page[i].time < end
             /\ page[i].content # "malformed"
    <2> HIDE DEF cursor
    <2> QED
      BY <1>1, PageRows
  <1> HIDE DEF page
  <1>3. Len(page) \in Nat
    BY <1>2, LenProperties
  <1>4. /\ all \in Seq(Candle) /\ Len(all) = Len(rows) + Len(page)
        /\ \A i \in 1..Len(all) : all[i] = IF i <= Len(rows) THEN rows[i] ELSE page[i - Len(rows)]
    BY <1>2, ConcatProperties
  <1> HIDE DEF all
  <1>5. ASSUME NEW i \in 1..Len(all)
        PROVE  /\ all[i].time = first + i - 1 /\ all[i].time <= clock
               /\ all[i].content # "malformed" /\ all[i].time < end
    <2>1. CASE i <= Len(rows)
      <3>1. i \in 1..Len(rows) /\ all[i] = rows[i]
        BY <1>1, <1>3, <1>4, <2>1
      <3>2. rows[i].time = first + i - 1 /\ rows[i].time <= clock /\ rows[i].content # "malformed"
        BY <3>1 DEF RowsInOrder
      <3> QED
        BY <1>1, <3>1, <3>2
    <2>2. CASE i > Len(rows)
      <3>1. i - Len(rows) \in 1..Len(page) /\ all[i] = page[i - Len(rows)]
        BY <1>1, <1>3, <1>4, <2>2
      <3> QED
        BY <1>1, <1>2, <1>3, <3>1
    <2> QED
      BY <1>1, <1>4, <2>1, <2>2
  <1> QED
    BY <1>4, <1>5 DEF RowsInOrder, all, page

-----------------------------------------------------------------------------
(* StoreInv: one lemma per way a request moves. *)

Run == [start: Nat, end: Nat, dataset: 1..MaxRequests, series: SUBSET Candle]

(* Nothing is stored, nobody has asked. *)
LEMMA InitStore == Init => StoreInv
  <1> SUFFICES ASSUME Init PROVE StoreInv
    OBVIOUS
  <1>1. NoRequest \in Request
    <2>1. <<>> \in Seq(Candle) /\ 0 \in 0..(MaxAttempts - 1) /\ 0 \in 0..MaxRequests
      BY EmptySeq
    <2> QED
      BY <2>1 DEF NoRequest, Request, Places
  <1>2. /\ NoRequest.at = "idle" /\ NoRequest.missing = {} /\ NoRequest.id = 0
        /\ NoRequest.cached = {} /\ NoRequest.series = {} /\ NoRequest.start = 0 /\ NoRequest.end = 0
    BY DEF NoRequest
  <1>3. \A w \in Workers : task[w] = NoRequest
    BY DEF Init
  <1> HIDE DEF NoRequest
  <1>4. TypeOK
    BY <1>1, <1>2, <1>3 DEF Init, TypeOK
  <1>5. \A w \in Workers : RequestFits(task[w])
    BY <1>2, <1>3 DEF Init, RequestFits, Answered, TimesOf, OnePerTime
  <1> QED
    BY <1>2, <1>3, <1>4, <1>5 DEF Init, StoreInv, IdsUnique, Answered, MayCommit,
       RunsSeeWholeRange, WinnerStays

(* The request of worker w becomes t; datasets stay. *)
LEMMA TaskStep ==
  ASSUME StoreInv, NEW w \in Workers, NEW t \in Request, task' = [task EXCEPT ![w] = t],
         UNCHANGED <<datasets, requests, deletes, clock>>, glitches' \in 0..MaxGlitches,
         runs' \subseteq Run, RunsSeeWholeRange',
         t.at # "idle" => <<t.start, t.end>> \in Ranges,
         t.at = "fetch" <=> t.missing # {},
         RequestFits(t),
         t.at # "idle" => task[w].at # "idle" /\ t.id = task[w].id,
         t.at \in MayCommit => task[w].at \in MayCommit,
         t.at \in Answered => \/ t.dataset \in datasets
                              \/ task[w].at \in Answered /\ t.dataset = task[w].dataset,
         t.at = "conflict" /\ deletes = 0 => SameIdentity(t) # {}
  PROVE  StoreInv'
  <1>1. /\ task'[w] = t /\ \A v \in Workers \ {w} : task'[v] = task[v]
        /\ task' \in [Workers -> Request]
    BY DEF StoreInv, TypeOK
  <1>2. TypeOK'
    BY <1>1 DEF StoreInv, TypeOK, Run
  <1>3. \A d \in datasets' : DatasetFits(d)'
    BY DEF StoreInv, DatasetFits
  <1>4. \A v \in Workers : RequestFits(task[v])'
    <2> SUFFICES ASSUME NEW v \in Workers PROVE RequestFits(task[v])'
      OBVIOUS
    <2>1. PICK u : u = task'[v]
      OBVIOUS
    <2>2. RequestFits(u)
      BY <1>1, <2>1 DEF StoreInv
    <2>3. RequestFits(u)'
      BY <2>2 DEF RequestFits, DatasetFits
    <2> QED
      BY <2>1, <2>3 DEF RequestFits, DatasetFits
  <1>5. IdsUnique'
    <2>1. MayCommit \cap Answered = {} /\ "idle" \notin MayCommit /\ "idle" \notin Answered
      BY DEF MayCommit, Answered
    <2>2. IdsUnique
      BY DEF StoreInv
    <2>3. ASSUME NEW v \in Workers, task'[v].at \in Answered, NEW d \in datasets,
                 d.id = task'[v].dataset.id
          PROVE  d = task'[v].dataset
      <3>1. CASE v = w
        BY <1>1, <2>2, <2>3, <3>1 DEF IdsUnique
      <3>2. CASE v # w
        BY <1>1, <2>2, <2>3, <3>2 DEF IdsUnique
      <3> QED
        BY <3>1, <3>2
    <2>4. ASSUME NEW v \in Workers, task'[v].at \in MayCommit
          PROVE  /\ \A d \in datasets : d.id # task'[v].id
                 /\ \A u \in Workers \ {v} :
                      /\ task'[u].at # "idle" => task'[u].id # task'[v].id
                      /\ task'[u].at \in Answered => task'[u].dataset.id # task'[v].id
      <3>1. CASE v = w
        BY <1>1, <2>1, <2>2, <2>4, <3>1 DEF IdsUnique
      <3>2. CASE v # w
        <4>1. /\ task'[v] = task[v] /\ \A d \in datasets : d.id # task[v].id
              /\ \A u \in Workers \ {v} :
                      /\ task[u].at # "idle" => task[u].id # task[v].id
                      /\ task[u].at \in Answered => task[u].dataset.id # task[v].id
          BY <1>1, <2>2, <2>4, <3>2 DEF IdsUnique
        <4>2. t.at # "idle" => t.id # task[v].id
          BY <3>2, <4>1
        <4>3. t.at \in Answered => t.dataset.id # task[v].id
          BY <3>2, <4>1
        <4> QED
          BY <1>1, <4>1, <4>2, <4>3
      <3> QED
        BY <3>1, <3>2
    <2> QED
      BY <2>2, <2>3, <2>4 DEF IdsUnique
  <1>6. WinnerStays'
    <2> SUFFICES ASSUME NEW v \in Workers, task'[v].at = "conflict", deletes = 0
                 PROVE  SameIdentity(task'[v]) # {}
      BY DEF WinnerStays, SameIdentity
    <2>1. CASE v = w
      BY <1>1, <2>1
    <2>2. CASE v # w
      BY <1>1, <2>2 DEF StoreInv, WinnerStays
    <2> QED
      BY <2>1, <2>2
  <1> QED
    BY <1>2, <1>3, <1>4, <1>5, <1>6 DEF StoreInv

(* A request ends, whatever it was doing. *)
LEMMA LeaveStore ==
  ASSUME StoreInv, NEW w \in Workers, Leave(w),
         UNCHANGED <<datasets, requests, deletes, clock>>, glitches' \in 0..MaxGlitches,
         runs' \subseteq Run, RunsSeeWholeRange'
  PROVE  StoreInv'
  <1>1. NoRequest \in Request
    <2>1. <<>> \in Seq(Candle) /\ 0 \in 0..(MaxAttempts - 1) /\ 0 \in 0..MaxRequests
      BY EmptySeq
    <2> QED
      BY <2>1 DEF NoRequest, Request, Places
  <1>2. /\ NoRequest.at = "idle" /\ NoRequest.missing = {} /\ NoRequest.id = 0
        /\ NoRequest.cached = {} /\ NoRequest.series = {} /\ NoRequest.start = 0 /\ NoRequest.end = 0
    BY DEF NoRequest
  <1>3. task' = [task EXCEPT ![w] = NoRequest]
    BY DEF Leave
  <1> HIDE DEF NoRequest
  <1>4. RequestFits(NoRequest)
    BY <1>2 DEF RequestFits, Answered, TimesOf, OnePerTime, StoreInv, TypeOK
  <1>5. NoRequest.at \notin MayCommit /\ NoRequest.at \notin Answered
    BY <1>2 DEF MayCommit, Answered
  <1> QED
    BY <1>1, <1>2, <1>3, <1>4, <1>5, TaskStep

(* The request of worker w becomes t, in the same stage of the download.   *)
Moved(w, t) ==
    /\ task' = [task EXCEPT ![w] = t]
    /\ t.id = task[w].id /\ t.start = task[w].start /\ t.end = task[w].end
    /\ t.cached = task[w].cached /\ t.missing = task[w].missing
    /\ t.downloaded = task[w].downloaded /\ t.clean = task[w].clean

(* A request outside the download loop moves on: it may take a dataset and *)
(* its candles, and keeps the rest.                                        *)
LEMMA MoveStore ==
  ASSUME StoreInv, NEW w \in Workers, NEW t \in Request, Moved(w, t),
         UNCHANGED <<datasets, runs, requests, deletes, clock, glitches>>,
         task[w].at \notin {"idle", "fetch"}, t.at \notin {"idle", "fetch"},
         t.at \in MayCommit => task[w].at \in MayCommit,
         t.at \in Answered =>
            /\ \/ t.dataset \in datasets
               \/ task[w].at \in Answered /\ t.dataset = task[w].dataset
            /\ t.dataset.start <= t.start /\ t.end <= t.dataset.end,
         t.at \notin Answered => t.series = {},
         t.at = "answer" => t.series = {},
         t.at = "validate" => t.series = {} \/ t.start..(t.end - 1) \subseteq TimesOf(t.series),
         t.at = "conflict" => SameIdentity(task[w]) # {}
  PROVE  StoreInv'
  <1>1. RequestFits(task[w]) /\ TypeOK /\ RunsSeeWholeRange
    BY DEF StoreInv
  <1>2. <<t.start, t.end>> \in Ranges /\ t.missing = {}
    BY <1>1 DEF TypeOK, Moved
  <1>3. t.at \in Answered => DatasetFits(t.dataset)
    BY <1>1 DEF StoreInv, RequestFits
  <1>4. RequestFits(t)
    BY <1>1, <1>3 DEF RequestFits, Moved
  <1>5. runs' \subseteq Run /\ RunsSeeWholeRange' /\ glitches' \in 0..MaxGlitches
    BY <1>1 DEF TypeOK, Run, RunsSeeWholeRange
  <1>6. t.at = "conflict" => SameIdentity(t) # {}
    BY DEF SameIdentity, Moved
  <1> QED
    BY <1>2, <1>4, <1>5, <1>6, TaskStep DEF Moved

(* The field `at` of a request changes. *)
LEMMA PlaceChanged ==
  ASSUME TypeOK, NEW w \in Workers, NEW p \in Places, task' = [task EXCEPT ![w].at = p]
  PROVE  \E t \in Request :
            /\ Moved(w, t) /\ t.at = p
            /\ t.dataset = task[w].dataset /\ t.series = task[w].series
  <1> DEFINE t == [task[w] EXCEPT !.at = p]
  <1>1. task[w] \in Request
    BY DEF TypeOK
  <1>2. /\ t \in Request /\ t.at = p
        /\ t.id = task[w].id /\ t.start = task[w].start /\ t.end = task[w].end
        /\ t.cached = task[w].cached /\ t.missing = task[w].missing
        /\ t.downloaded = task[w].downloaded /\ t.clean = task[w].clean
        /\ t.dataset = task[w].dataset /\ t.series = task[w].series
    BY <1>1 DEF Request
  <1>3. task' = [task EXCEPT ![w] = t]
    OBVIOUS
  <1> HIDE DEF t
  <1> QED
    BY <1>2, <1>3 DEF Moved

(* `at` and `dataset` change. *)
LEMMA DatasetTaken ==
  ASSUME TypeOK, NEW w \in Workers, NEW d \in datasets,
         task' = [task EXCEPT ![w].at = "answer", ![w].dataset = d]
  PROVE  \E t \in Request :
            /\ Moved(w, t) /\ t.at = "answer" /\ t.dataset = d
            /\ t.series = task[w].series
  <1> DEFINE t == [task[w] EXCEPT !.at = "answer", !.dataset = d]
  <1>1. task[w] \in Request /\ d \in Dataset /\ task \in [Workers -> Request]
    BY DEF TypeOK
  <1>2. /\ t \in Request /\ t.at = "answer" /\ t.dataset = d
        /\ t.id = task[w].id /\ t.start = task[w].start /\ t.end = task[w].end
        /\ t.cached = task[w].cached /\ t.missing = task[w].missing
        /\ t.downloaded = task[w].downloaded /\ t.clean = task[w].clean
        /\ t.series = task[w].series
    BY <1>1 DEF Request, Places
  <1>3. task' = [task EXCEPT ![w] = t]
    BY <1>1 DEF Request
  <1> HIDE DEF t
  <1> QED
    BY <1>2, <1>3 DEF Moved

(* A dataset that is found ends the search.                                *)
LEMMA TakeStore ==
  ASSUME StoreInv, NEW w \in Workers, NEW d \in datasets,
         task' = [task EXCEPT ![w].at = "answer", ![w].dataset = d],
         task[w].at \in {"covering", "store", "conflict"},
         d.start <= task[w].start, task[w].end <= d.end,
         UNCHANGED <<datasets, runs, requests, deletes, clock, glitches>>
  PROVE  StoreInv'
  <1>1. TypeOK /\ RequestFits(task[w])
    BY DEF StoreInv
  <1>2. PICK t \in Request :
            /\ Moved(w, t) /\ t.at = "answer" /\ t.dataset = d
            /\ t.series = task[w].series
    BY <1>1, DatasetTaken
  <1>3. t.series = {}
    BY <1>1, <1>2 DEF RequestFits, Answered
  <1>4. t.dataset \in datasets /\ t.dataset.start <= t.start /\ t.end <= t.dataset.end
    BY <1>2 DEF Moved
  <1>5. /\ task[w].at \notin {"idle", "fetch"} /\ t.at \notin {"idle", "fetch"}
        /\ t.at \notin MayCommit /\ t.at # "conflict" /\ t.at # "validate"
    BY <1>2 DEF MayCommit
  <1> QED
    BY <1>2, <1>3, <1>4, <1>5, MoveStore

(* A dataset with the same identity has the very range that was asked for. *)
LEMMA IdentityRange ==
  ASSUME TypeOK, NEW w \in Workers, task[w].at # "idle", NEW d \in SameIdentity(task[w])
  PROVE  d \in datasets /\ d.start <= task[w].start /\ task[w].end <= d.end
  BY DEF SameIdentity, TypeOK, Request

LEMMA CoveringStore == ASSUME StoreInv, NEW w \in Workers, Covering(w) PROVE StoreInv'
  <1>1. TypeOK /\ RequestFits(task[w])
    BY DEF StoreInv
  <1>2. CASE task' = [task EXCEPT ![w].at = "cached"]
    <2>1. "cached" \in Places
      BY DEF Places
    <2>2. PICK t \in Request :
            /\ Moved(w, t) /\ t.at = "cached"
            /\ t.series = task[w].series
      BY <1>1, <1>2, <2>1, PlaceChanged
    <2>3. t.series = {} /\ task[w].at = "covering"
      BY <1>1, <2>2 DEF RequestFits, Answered, Covering
    <2> QED
      BY <2>2, <2>3, MoveStore DEF Covering, MayCommit, Answered
  <1>3. CASE \E d \in datasets : Covers(d, task[w])
                /\ task' = [task EXCEPT ![w].at = "answer", ![w].dataset = d]
    <2>1. PICK d \in datasets : Covers(d, task[w])
                /\ task' = [task EXCEPT ![w].at = "answer", ![w].dataset = d]
      BY <1>3
    <2>2. d.start <= task[w].start /\ task[w].end <= d.end
      BY <1>1, <2>1 DEF Covers, TypeOK, Dataset, Request
    <2> QED
      BY <2>1, <2>2, TakeStore DEF Covering
  <1> QED
    BY <1>2, <1>3 DEF Covering

LEMMA ExistingStore == ASSUME StoreInv, NEW w \in Workers, Existing(w) PROVE StoreInv'
  <1>1. TypeOK /\ RequestFits(task[w])
    BY DEF StoreInv
  <1>2. CASE task' = [task EXCEPT ![w].at = "commit"]
    <2>1. "commit" \in Places
      BY DEF Places
    <2>2. PICK t \in Request :
            /\ Moved(w, t) /\ t.at = "commit"
            /\ t.series = task[w].series
      BY <1>1, <1>2, <2>1, PlaceChanged
    <2>3. t.series = {} /\ task[w].at = "store"
      BY <1>1, <2>2 DEF RequestFits, Answered, Existing
    <2> QED
      BY <2>2, <2>3, MoveStore DEF Existing, MayCommit, Answered
  <1>3. CASE \E d \in SameIdentity(task[w]) :
                task' = [task EXCEPT ![w].at = "answer", ![w].dataset = d]
    BY <1>1, <1>3, IdentityRange, TakeStore DEF Existing
  <1> QED
    BY <1>2, <1>3 DEF Existing

(* The loser of a race finds the winner's dataset or raises.               *)
LEMMA ConflictStore == ASSUME StoreInv, NEW w \in Workers, Conflict(w) PROVE StoreInv'
  <1>1. TypeOK /\ RunsSeeWholeRange
    BY DEF StoreInv
  <1>2. CASE \E d \in SameIdentity(task[w]) :
                task' = [task EXCEPT ![w].at = "answer", ![w].dataset = d]
    BY <1>1, <1>2, IdentityRange, TakeStore DEF Conflict
  <1>3. CASE Leave(w)
    <2>1. runs' \subseteq Run /\ RunsSeeWholeRange' /\ glitches' \in 0..MaxGlitches
      BY <1>1 DEF Conflict, TypeOK, Run, RunsSeeWholeRange
    <2> QED
      BY <1>3, <2>1, LeaveStore DEF Conflict
  <1> QED
    BY <1>2, <1>3 DEF Conflict, Winner

(* Requests that end without a result. *)
LEMMA EndStore ==
  ASSUME StoreInv, NEW w \in Workers, GiveUp(w) \/ Answer(w) \/ Reject(w) \/ TooShort(w)
  PROVE  StoreInv'
  <1>1. TypeOK /\ RunsSeeWholeRange
    BY DEF StoreInv
  <1>2. Leave(w) /\ UNCHANGED <<datasets, runs, clock, requests, glitches, deletes>>
    BY DEF GiveUp, Answer, Reject, TooShort
  <1>3. runs' \subseteq Run /\ RunsSeeWholeRange' /\ glitches' \in 0..MaxGlitches
    BY <1>1, <1>2 DEF TypeOK, Run, RunsSeeWholeRange
  <1> QED
    BY <1>2, <1>3, LeaveStore

(* Reading back what was stored keeps the times. *)
LEMMA StoredTimes ==
  ASSUME NEW candles \in SUBSET Candle
  PROVE  Stored(candles) \in SUBSET Candle /\ TimesOf(Stored(candles)) = TimesOf(candles)
  <1>1. \A c \in candles : /\ [c EXCEPT !.stored = TRUE] \in Candle
                           /\ [c EXCEPT !.stored = TRUE].time = c.time
                           /\ [c EXCEPT !.stored = TRUE].content = c.content
    BY DEF Candle
  <1>2. Stored(candles) \in SUBSET Candle
    BY <1>1 DEF Stored
  <1>3. TimesOf(Stored(candles)) = {[c EXCEPT !.stored = TRUE].time : c \in candles}
    BY DEF Stored, TimesOf
  <1> QED
    BY <1>1, <1>2, <1>3 DEF TimesOf

(* The candles of a valid dataset are there when they are read, or it was  *)
(* deleted and there are none.                                             *)
LEMMA LoadedCandles ==
  ASSUME StoreInv, NEW w \in Workers, task[w].at = "answer", task[w].dataset.valid
  PROVE  LET series == Loaded(task[w]) IN
         /\ series \in SUBSET Candle
         /\ series = {} \/ task[w].start..(task[w].end - 1) \subseteq TimesOf(series)
  <1> DEFINE t == task[w]
             d == t.dataset
             series == Loaded(t)
  <1>1. /\ t \in Request /\ RequestFits(t) /\ IdsUnique /\ datasets \subseteq Dataset
        /\ t.at = "answer" /\ d.valid
    BY DEF StoreInv, TypeOK
  <1>2. /\ DatasetFits(d) /\ d.start <= t.start /\ t.end <= d.end
        /\ t.series \in {{}, d.print}
        /\ \A e \in datasets : e.id = d.id => e = d
        /\ \A e \in datasets : e.print \in SUBSET Candle
    BY <1>1 DEF RequestFits, Answered, IdsUnique, Dataset
  <1>3. t.start \in Nat /\ t.end \in Nat /\ d.start \in Nat /\ d.end \in Nat /\ d.print \in SUBSET Candle
    BY <1>1 DEF Request, Dataset, NoDataset
  <1>4. TimesOf(d.print) = d.start..(d.end - 1)
    BY <1>1, <1>2 DEF DatasetFits, Complete
  <1>5. t.start..(t.end - 1) \subseteq TimesOf(d.print)
    BY <1>2, <1>3, <1>4
  <1>6. CASE t.series # {}
    <2>1. series = d.print
      BY <1>2, <1>6 DEF Loaded
    <2> QED
      BY <1>3, <1>5, <2>1
  <1>7. CASE t.series = {} /\ d \in datasets
    <2>1. {e \in datasets : e.id = d.id} = {d}
      BY <1>2, <1>7
    <2>2. series = Stored(d.print)
      BY <1>7, <2>1 DEF Loaded
    <2> QED
      BY <1>3, <1>5, <2>2, StoredTimes
  <1>8. CASE t.series = {} /\ d \notin datasets
    <2>1. {e \in datasets : e.id = d.id} = {}
      BY <1>2, <1>8
    <2>2. series = {}
      BY <1>8, <2>1 DEF Loaded
    <2> QED
      BY <2>2
  <1> QED
    BY <1>6, <1>7, <1>8

LEMMA ReadStore == ASSUME StoreInv, NEW w \in Workers, Read(w) PROVE StoreInv'
  <1> DEFINE series == Loaded(task[w])
             t == [task[w] EXCEPT !.at = "validate", !.series = series]
  <1>1. /\ task[w] \in Request /\ RequestFits(task[w]) /\ task[w].at = "answer"
        /\ task \in [Workers -> Request]
    BY DEF StoreInv, TypeOK, Read
  <1>2. /\ series \in SUBSET Candle
        /\ series = {} \/ task[w].start..(task[w].end - 1) \subseteq TimesOf(series)
    BY LoadedCandles DEF Read
  <1>3. task' = [task EXCEPT ![w].at = "validate", ![w].series = series]
    BY DEF Read
  <1>4. UNCHANGED <<datasets, runs, requests, deletes, clock, glitches>>
    BY DEF Read
  <1> HIDE DEF series
  <1>5. task' = [task EXCEPT ![w] = t]
    BY <1>1, <1>3 DEF Request
  <1>6. /\ t \in Request /\ t.at = "validate" /\ t.series = series
        /\ t.dataset = task[w].dataset
        /\ t.id = task[w].id /\ t.start = task[w].start /\ t.end = task[w].end
        /\ t.cached = task[w].cached /\ t.missing = task[w].missing
        /\ t.downloaded = task[w].downloaded /\ t.clean = task[w].clean
    BY <1>1, <1>2 DEF Request, Places
  <1> HIDE DEF t
  <1>7. Moved(w, t)
    BY <1>5, <1>6 DEF Moved
  <1>8. /\ t.at \notin {"idle", "fetch"} /\ task[w].at \notin {"idle", "fetch"}
        /\ t.at \notin MayCommit /\ t.at \in Answered /\ task[w].at \in Answered
        /\ t.at # "answer" /\ t.at # "conflict"
    BY <1>1, <1>6 DEF MayCommit, Answered
  <1>9. t.dataset.start <= t.start /\ t.end <= t.dataset.end
    BY <1>1, <1>6, <1>8 DEF RequestFits
  <1>10. t.series = {} \/ t.start..(t.end - 1) \subseteq TimesOf(t.series)
    BY <1>2, <1>6
  <1> QED
    BY <1>4, <1>6, <1>7, <1>8, <1>9, <1>10, MoveStore

(* A run is saved only with candles, hence with all of them.               *)
LEMMA SaveStore == ASSUME StoreInv, NEW w \in Workers, Save(w) PROVE StoreInv'
  <1> DEFINE x == [start |-> task[w].start, end |-> task[w].end,
                   dataset |-> task[w].dataset.id, series |-> task[w].series]
  <1>1. /\ task[w] \in Request /\ RequestFits(task[w]) /\ task[w].at = "validate"
        /\ TypeOK /\ RunsSeeWholeRange /\ runs' = runs \cup {x} /\ Leave(w)
        /\ UNCHANGED <<datasets, clock, requests, glitches, deletes>>
    BY DEF StoreInv, TypeOK, Save
  <1>2. task[w].series # {}
    BY FS_EmptySet DEF Save, EnoughCandles
  <1>3. DatasetFits(task[w].dataset) /\ task[w].start..(task[w].end - 1) \subseteq TimesOf(task[w].series)
    BY <1>1, <1>2 DEF RequestFits, Answered
  <1>4. task[w].dataset.id \in 1..MaxRequests
    BY <1>1, <1>3 DEF DatasetFits, TypeOK
  <1>5. x \in Run
    BY <1>1, <1>4 DEF Run, Request
  <1>6. x.start = task[w].start /\ x.end = task[w].end /\ x.series = task[w].series
    OBVIOUS
  <1> HIDE DEF x
  <1>7. RunsSeeWholeRange'
    BY <1>1, <1>3, <1>6 DEF RunsSeeWholeRange
  <1>8. runs' \subseteq Run /\ glitches' \in 0..MaxGlitches
    BY <1>1, <1>5 DEF TypeOK, Run
  <1> QED
    BY <1>1, <1>7, <1>8, LeaveStore

(* An attempt is counted. *)
LEMMA RetryStore == ASSUME StoreInv, NEW w \in Workers, Retry(w) PROVE StoreInv'
  <1> DEFINE t == [task[w] EXCEPT !.attempt = @ + 1]
  <1>1. /\ task[w] \in Request /\ RequestFits(task[w]) /\ task[w].at = "fetch" /\ TypeOK
        /\ RunsSeeWholeRange /\ task[w].attempt + 1 < MaxAttempts /\ task' = [task EXCEPT ![w] = t]
        /\ UNCHANGED <<datasets, runs, clock, requests, glitches, deletes>>
    BY DEF StoreInv, TypeOK, Retry
  <1>2. /\ t.at = task[w].at /\ t.id = task[w].id /\ t.start = task[w].start
        /\ t.end = task[w].end /\ t.cached = task[w].cached /\ t.missing = task[w].missing
        /\ t.dataset = task[w].dataset /\ t.series = task[w].series
    BY <1>1 DEF Request
  <1>3. t \in Request
    <2>1. task[w].attempt + 1 \in 0..(MaxAttempts - 1)
      BY <1>1, SMTT(30) DEF Request
    <2> QED
      BY <1>1, <2>1 DEF Request
  <1> HIDE DEF t
  <1>4. RequestFits(t)
    BY <1>1, <1>2 DEF RequestFits
  <1>5. /\ t.at # "idle" => <<t.start, t.end>> \in Ranges
        /\ t.at = "fetch" <=> t.missing # {}
        /\ t.at \notin Answered /\ t.at # "conflict"
    BY <1>1, <1>2 DEF TypeOK, Answered
  <1>6. runs' \subseteq Run /\ RunsSeeWholeRange' /\ glitches' \in 0..MaxGlitches
    BY <1>1 DEF TypeOK, Run, RunsSeeWholeRange
  <1> QED
    BY <1>1, <1>2, <1>3, <1>4, <1>5, <1>6, TaskStep

(* A request goes on with the first missing range, or with storing. *)
LEMMA OnwardShape ==
  ASSUME NEW u \in Request, NEW missing \in SUBSET (Nat \X Nat)
  PROVE  LET t == Onward(u, missing) IN
         /\ t \in Request /\ t.missing = missing
         /\ t.at = IF missing = {} THEN "store" ELSE "fetch"
         /\ missing # {} => t.cursor = First(missing)[1]
         /\ t.id = u.id /\ t.start = u.start /\ t.end = u.end /\ t.cached = u.cached
         /\ t.series = u.series /\ t.downloaded = u.downloaded /\ t.clean = u.clean
         /\ t.dataset = u.dataset
  <1>1. CASE missing = {}
    <2> DEFINE t == [u EXCEPT !.missing = {}, !.at = "store", !.cursor = 0]
    <2>1. Onward(u, missing) = t
      BY <1>1 DEF Onward
    <2>2. /\ t \in Request /\ t.missing = missing /\ t.at = "store"
          /\ t.id = u.id /\ t.start = u.start /\ t.end = u.end /\ t.cached = u.cached
          /\ t.series = u.series /\ t.downloaded = u.downloaded /\ t.clean = u.clean
          /\ t.dataset = u.dataset
      BY <1>1 DEF Request, Places
    <2> HIDE DEF t
    <2> QED
      BY <1>1, <2>1, <2>2
  <1>2. CASE missing # {}
    <2> DEFINE t == [u EXCEPT !.missing = missing, !.at = "fetch", !.cursor = First(missing)[1]]
    <2>1. Onward(u, missing) = t
      BY <1>2 DEF Onward
    <2>2. First(missing)[1] \in Nat
      BY <1>2, FirstIsLeast
    <2>3. /\ t \in Request /\ t.missing = missing /\ t.at = "fetch"
          /\ t.cursor = First(missing)[1]
          /\ t.id = u.id /\ t.start = u.start /\ t.end = u.end /\ t.cached = u.cached
          /\ t.series = u.series /\ t.downloaded = u.downloaded /\ t.clean = u.clean
          /\ t.dataset = u.dataset
      BY <2>2 DEF Request, Places
    <2> HIDE DEF t
    <2> QED
      BY <1>2, <2>1, <2>3
  <1> QED
    BY <1>1, <1>2

LEMMA OnwardStore ==
  ASSUME StoreInv, NEW w \in Workers, NEW u \in Request, NEW missing \in SUBSET (Nat \X Nat),
         task' = [task EXCEPT ![w] = Onward(u, missing)],
         task[w].at \in {"cached", "fetch"},
         u.id = task[w].id, u.start = task[w].start, u.end = task[w].end,
         u.series = task[w].series, OnePerTime(u.cached),
         TimesOf(u.cached) \subseteq u.start..(u.end - 1),
         UNCHANGED <<datasets, runs, requests, deletes, clock>>, glitches' \in 0..MaxGlitches
  PROVE  StoreInv'
  <1> DEFINE t == Onward(u, missing)
  <1>1. /\ t \in Request /\ t.missing = missing
        /\ t.at = IF missing = {} THEN "store" ELSE "fetch"
        /\ t.id = u.id /\ t.start = u.start /\ t.end = u.end /\ t.cached = u.cached
        /\ t.series = u.series
    BY OnwardShape
  <1>2. task' = [task EXCEPT ![w] = t]
    OBVIOUS
  <1> HIDE DEF t
  <1>3. RequestFits(task[w]) /\ TypeOK /\ RunsSeeWholeRange
    BY DEF StoreInv
  <1>4. /\ t.at \notin Answered /\ t.at \in MayCommit /\ task[w].at \in MayCommit
        /\ t.at \notin {"idle", "conflict"} /\ task[w].at # "idle" /\ task[w].at \notin Answered
    BY <1>1 DEF Answered, MayCommit
  <1>5. RequestFits(t)
    BY <1>1, <1>3, <1>4 DEF RequestFits, Answered
  <1>6. <<t.start, t.end>> \in Ranges
    BY <1>1, <1>3, <1>4 DEF TypeOK
  <1>7. runs' \subseteq Run /\ RunsSeeWholeRange'
    BY <1>3 DEF TypeOK, Run, RunsSeeWholeRange
  <1>8. t.at = "fetch" <=> t.missing # {}
    BY <1>1
  <1> QED
    BY <1>1, <1>2, <1>4, <1>5, <1>6, <1>7, <1>8, TaskStep

(* The cached candles: one for every time that has any, all of them final  *)
(* readings of stored ones; the missing times are the other ones.          *)
LEMMA CachedShape ==
  ASSUME TypeOK, NEW start \in Nat, NEW end \in Nat, NEW cached \in CachedCandles(start, end)
  PROVE  /\ cached \in SUBSET Candle /\ OnePerTime(cached)
         /\ TimesOf(cached) \subseteq start..(end - 1)
         /\ \A c \in cached : \E d \in datasets : \E e \in d.print :
               d.valid /\ c.time = e.time /\ c.content = e.content
         /\ MissingRanges((start..(end - 1)) \ TimesOf(cached)) \in SUBSET (Nat \X Nat)
  <1> DEFINE rows == {c \in UNION {Stored(d.print) : d \in {e \in datasets : e.valid}} :
                        c.time \in start..(end - 1)}
  <1>1. cached \subseteq rows /\ OnePerTime(cached)
    BY DEF CachedCandles
  <1>2. ASSUME NEW c \in rows
        PROVE  /\ c \in Candle /\ c.time \in start..(end - 1)
               /\ \E d \in datasets : \E e \in d.print :
                    d.valid /\ c.time = e.time /\ c.content = e.content
    <2>1. PICK d \in datasets : d.valid /\ c \in Stored(d.print)
      OBVIOUS
    <2>2. PICK e \in d.print : c = [e EXCEPT !.stored = TRUE]
      BY <2>1 DEF Stored
    <2>3. e \in Candle
      BY DEF TypeOK, Dataset
    <2>4. c \in Candle /\ c.time = e.time /\ c.content = e.content
      BY <2>2, <2>3 DEF Candle
    <2> QED
      BY <2>1, <2>4
  <1> HIDE DEF rows
  <1>3. TimesOf(cached) \subseteq start..(end - 1)
    BY <1>1, <1>2 DEF TimesOf
  <1>4. (start..(end - 1)) \ TimesOf(cached) \in SUBSET Nat
    OBVIOUS
  <1>5. MissingRanges((start..(end - 1)) \ TimesOf(cached)) \in SUBSET (Nat \X Nat)
    BY <1>4, MissingRangesShape
  <1> QED
    BY <1>1, <1>2, <1>3, <1>5

LEMMA CachedStore == ASSUME StoreInv, NEW w \in Workers, Cached(w) PROVE StoreInv'
  <1>1. /\ TypeOK /\ task[w] \in Request /\ task[w].at = "cached"
        /\ UNCHANGED <<datasets, runs, clock, requests, glitches, deletes>>
    BY DEF StoreInv, TypeOK, Cached
  <1>2. PICK start \in Nat, end \in Nat : start = task[w].start /\ end = task[w].end
    BY <1>1 DEF Request
  <1>3. PICK cached \in CachedCandles(start, end) :
           task' = [task EXCEPT ![w] =
             Onward([task[w] EXCEPT !.cached = cached],
                    MissingRanges((start..(end - 1)) \ TimesOf(cached)))]
    BY <1>2 DEF Cached
  <1>4. /\ cached \in SUBSET Candle /\ OnePerTime(cached)
        /\ TimesOf(cached) \subseteq start..(end - 1)
        /\ MissingRanges((start..(end - 1)) \ TimesOf(cached)) \in SUBSET (Nat \X Nat)
    BY <1>1, CachedShape
  <1> DEFINE u == [task[w] EXCEPT !.cached = cached]
             missing == MissingRanges((start..(end - 1)) \ TimesOf(cached))
  <1>5. /\ u \in Request /\ u.cached = cached
        /\ u.id = task[w].id /\ u.start = start /\ u.end = end
        /\ u.series = task[w].series
    BY <1>1, <1>2, <1>4 DEF Request
  <1>6. missing \in SUBSET (Nat \X Nat) /\ task' = [task EXCEPT ![w] = Onward(u, missing)]
    BY <1>3, <1>4
  <1>7. glitches' \in 0..MaxGlitches
    BY <1>1 DEF TypeOK
  <1> HIDE DEF u, missing
  <1> QED
    BY <1>1, <1>2, <1>4, <1>5, <1>6, <1>7, OnwardStore

(* A page arrives, right or wrong. *)
LEMMA ReceiveStore ==
  ASSUME StoreInv, NEW w \in Workers, task[w].at = "fetch", NEW page \in Seq(Candle),
         Receive(w, page), UNCHANGED <<datasets, runs, requests, deletes, clock>>,
         glitches' \in 0..MaxGlitches
  PROVE  StoreInv'
  <1>1. /\ TypeOK /\ task[w] \in Request /\ RequestFits(task[w]) /\ RunsSeeWholeRange
        /\ task \in [Workers -> Request]
    BY DEF StoreInv, TypeOK
  <1>2. /\ task[w].start \in Nat /\ task[w].end \in Nat /\ task[w].cached \in SUBSET Candle
        /\ task[w].downloaded \in Seq(Candle) /\ task[w].missing \in SUBSET (Nat \X Nat)
        /\ task[w].clean \in BOOLEAN
    BY <1>1 DEF Request
  <1>3. task[w].downloaded \o page \in Seq(Candle)
    BY <1>2, ConcatProperties
  <1>4. CASE ReceivePage(w, page)
    <2> DEFINE t == [task[w] EXCEPT !.downloaded = @ \o page, !.attempt = 0,
                                    !.cursor = NextCursor(page)]
    <2>1. page # <<>>
      <3>1. Len(page) >= PageLimit
        BY <1>4 DEF ReceivePage, MorePages
      <3> QED
        BY <3>1, EmptySeq
    <2>2. NextCursor(page) \in Nat /\ 0 \in 0..(MaxAttempts - 1)
      BY <2>1, NextCursorPast
    <2>3. task' = [task EXCEPT ![w] = t]
      BY <1>1, <1>4 DEF ReceivePage, Request
    <2>4. /\ t \in Request /\ t.at = task[w].at /\ t.id = task[w].id /\ t.start = task[w].start
          /\ t.end = task[w].end /\ t.cached = task[w].cached /\ t.missing = task[w].missing
          /\ t.dataset = task[w].dataset /\ t.series = task[w].series
      BY <1>1, <1>3, <2>2 DEF Request
    <2> HIDE DEF t
    <2>5. RequestFits(t)
      BY <1>1, <2>4 DEF RequestFits
    <2>6. /\ t.at # "idle" => <<t.start, t.end>> \in Ranges
          /\ t.at = "fetch" <=> t.missing # {}
          /\ t.at \notin Answered /\ t.at # "conflict"
      BY <1>1, <2>4 DEF TypeOK, Answered
    <2>7. runs' \subseteq Run /\ RunsSeeWholeRange'
      BY <1>1 DEF TypeOK, Run, RunsSeeWholeRange
    <2> QED
      BY <2>3, <2>4, <2>5, <2>6, <2>7, TaskStep
  <1>5. CASE ReceiveRange(w, page)
    <2> DEFINE rows == task[w].downloaded \o page
               merged == Merged(task[w].cached, rows, task[w].start, task[w].end)
               clean == task[w].clean /\ Issueless(rows)
               u == [task[w] EXCEPT !.cached = merged, !.clean = clean,
                                    !.downloaded = <<>>, !.attempt = 0]
               rest == task[w].missing \ {First(task[w].missing)}
    <2>1. task' = [task EXCEPT ![w] = Onward(u, rest)]
      BY <1>5 DEF ReceiveRange
    <2>2. /\ merged \in SUBSET Candle /\ OnePerTime(merged)
          /\ TimesOf(merged) \subseteq task[w].start..(task[w].end - 1)
      BY <1>1, <1>2, <1>3, MergedShape DEF RequestFits
    <2>3. <<>> \in Seq(Candle) /\ 0 \in 0..(MaxAttempts - 1) /\ clean \in BOOLEAN
      BY EmptySeq
    <2> HIDE DEF rows, merged, clean
    <2>4. /\ u \in Request /\ u.cached = merged
          /\ u.id = task[w].id /\ u.start = task[w].start /\ u.end = task[w].end
          /\ u.series = task[w].series
      BY <1>1, <2>2, <2>3 DEF Request
    <2>5. rest \in SUBSET (Nat \X Nat)
      BY <1>2
    <2> HIDE DEF u, rest
    <2> QED
      BY <2>1, <2>2, <2>4, <2>5, OnwardStore
  <1> QED
    BY <1>4, <1>5 DEF Receive

LEMMA FetchStore ==
  ASSUME StoreInv, NEW w \in Workers, FetchPage(w) \/ GlitchPage(w) PROVE StoreInv'
  <1> DEFINE right == Page(task[w].cursor, First(task[w].missing)[2])
  <1>1. /\ TypeOK /\ task[w] \in Request /\ task[w].at = "fetch"
        /\ task[w].missing \in SUBSET (Nat \X Nat) /\ task[w].missing # {}
        /\ task[w].cursor \in Nat /\ clock \in 0..MaxClock
    BY DEF StoreInv, TypeOK, Request, FetchPage, GlitchPage
  <1>2. First(task[w].missing)[2] \in Nat
    BY <1>1, FirstIsLeast
  <1>3. right \in Seq(Candle)
    BY <1>1, <1>2, PageRows
  <1> HIDE DEF right
  <1>4. CASE FetchPage(w)
    BY <1>1, <1>3, <1>4, ReceiveStore DEF FetchPage, TypeOK, right
  <1>5. CASE GlitchPage(w)
    <2>1. PICK page \in Faulty(right) : Receive(w, page)
      BY <1>5 DEF GlitchPage, right
    <2>2. page \in Seq(Candle)
      BY <1>3, FaultyPages
    <2>3. glitches' \in 0..MaxGlitches
      BY <1>1, <1>5 DEF GlitchPage, TypeOK
    <2> QED
      BY <1>1, <1>5, <2>1, <2>2, <2>3, ReceiveStore DEF GlitchPage
  <1> QED
    BY <1>4, <1>5

(* Counting candles tells whether any time is without one.                 *)
LEMMA CountTellsComplete ==
  ASSUME NEW candles \in SUBSET Candle, OnePerTime(candles), NEW start \in Nat, NEW end \in Nat,
         start < end, TimesOf(candles) \subseteq start..(end - 1)
  PROVE  Cardinality(candles) = end - start <=> TimesOf(candles) = start..(end - 1)
  <1> DEFINE span == start..(end - 1)
             time == [c \in candles |-> c.time]
  <1>1. start \in Int /\ end - 1 \in Int /\ ~(start > end - 1) /\ (end - 1) - start + 1 = end - start
    OBVIOUS
  <1>2. IsFiniteSet(span) /\ Cardinality(span) = end - start
    BY <1>1, FS_Interval
  <1>3. \A c \in candles : time[c] = c.time /\ c.time \in span
    BY DEF TimesOf
  <1>4. TimesOf(candles) = {time[c] : c \in candles}
    BY DEF TimesOf
  <1> HIDE DEF span
  <1>5. time \in [candles -> span]
    BY <1>3
  <1>6. \A c, d \in candles : time[c] = time[d] => c = d
    BY <1>3 DEF OnePerTime
  <1> HIDE DEF time
  <1>7. time \in Injection(candles, span)
    BY <1>5, <1>6 DEF Injection, IsInjective
  <1>8. Cardinality(candles) = end - start <=> time \in Surjection(candles, span)
    BY <1>2, <1>7, FS_Injection
  <1>9. time \in Surjection(candles, span) <=> TimesOf(candles) = span
    BY <1>4, <1>5 DEF Surjection
  <1> QED
    BY <1>8, <1>9 DEF span

(* What a request would store. *)
LEMMA NewDatasetShape ==
  ASSUME TypeOK, NEW w \in Workers, task[w].at = "commit", RequestFits(task[w])
  PROVE  LET d == NewDataset(task[w]) IN
         /\ d \in Dataset /\ DatasetFits(d)
         /\ d.id = task[w].id /\ d.start = task[w].start /\ d.end = task[w].end
         /\ d.print = task[w].cached /\ d.valid = IsValid(task[w])
  <1> DEFINE d == NewDataset(task[w])
  <1>1. PICK t \in Request : t = task[w]
    BY DEF TypeOK
  <1>2. t.start \in Nat /\ t.end \in Nat /\ t.cached \in SUBSET Candle /\ t.clean \in BOOLEAN
    BY DEF Request
  <1>3. <<t.start, t.end>> \in Ranges /\ t.start < t.end
    BY <1>1 DEF TypeOK
  <1>4. t.id \in 1..requests /\ t.id \in 1..MaxRequests
    BY <1>1 DEF RequestFits, Request, TypeOK
  <1>5. IsValid(t) \in BOOLEAN
    BY DEF IsValid
  <1>6. /\ d \in Dataset
        /\ d.id = t.id /\ d.start = t.start /\ d.end = t.end
        /\ d.print = t.cached /\ d.valid = IsValid(t)
    BY <1>1, <1>2, <1>4, <1>5 DEF NewDataset, Dataset
  <1> HIDE DEF d
  <1>7. TimesOf(t.cached) \subseteq t.start..(t.end - 1) /\ OnePerTime(t.cached)
    BY <1>1 DEF RequestFits
  <1>8. Cardinality(t.cached) = t.end - t.start <=> TimesOf(t.cached) = t.start..(t.end - 1)
    BY <1>2, <1>3, <1>7, CountTellsComplete
  <1>9. d.valid => /\ Complete(d) /\ Cardinality(d.print) = d.end - d.start
                   /\ \A c \in d.print : c.content # "malformed"
    BY <1>6, <1>8 DEF IsValid, Complete, Gapless
  <1>10. DatasetFits(d)
    BY <1>3, <1>4, <1>6, <1>7, <1>9 DEF DatasetFits
  <1> QED
    BY <1>1, <1>6, <1>10 DEF d

(* The dataset is stored, under an id nobody has seen before.              *)
LEMMA AddStore ==
  ASSUME StoreInv, NEW w \in Workers, task[w].at = "commit",
         NEW t \in Request, task' = [task EXCEPT ![w] = t],
         t.at = "answer", t.id = task[w].id, t.start = task[w].start, t.end = task[w].end,
         t.cached = task[w].cached, t.missing = task[w].missing, t.series = t.cached,
         t.dataset = NewDataset(task[w]), datasets' = datasets \cup {NewDataset(task[w])},
         UNCHANGED <<runs, clock, requests, glitches, deletes>>
  PROVE  StoreInv'
  <1> DEFINE d == NewDataset(task[w])
  <1>1. TypeOK /\ RequestFits(task[w]) /\ IdsUnique /\ task[w] \in Request
    BY DEF StoreInv, TypeOK
  <1>2. /\ d \in Dataset /\ DatasetFits(d)
        /\ d.id = task[w].id /\ d.start = task[w].start /\ d.end = task[w].end
        /\ d.print = task[w].cached
    BY <1>1, NewDatasetShape
  <1> HIDE DEF d
  <1>3. t.dataset = d /\ datasets' = datasets \cup {d}
    BY DEF d
  <1>4. /\ task'[w] = t /\ \A v \in Workers \ {w} : task'[v] = task[v]
        /\ task' \in [Workers -> Request]
    BY <1>1 DEF TypeOK
  <1>5. TypeOK'
    BY <1>1, <1>2, <1>3, <1>4 DEF TypeOK
  <1>6. ASSUME NEW e \in datasets' PROVE DatasetFits(e)'
    <2>1. DatasetFits(e)
      BY <1>2, <1>3 DEF StoreInv
    <2> QED
      BY <2>1 DEF DatasetFits
  <1>7. RequestFits(t)
    <2>1. t.start <= t.start /\ t.end <= t.end
      BY DEF Request
    <2> QED
      BY <1>1, <1>2, <1>3, <2>1 DEF RequestFits, Answered
  <1>8. \A v \in Workers : RequestFits(task[v])'
    <2> SUFFICES ASSUME NEW v \in Workers PROVE RequestFits(task[v])'
      OBVIOUS
    <2>1. PICK u : u = task'[v]
      OBVIOUS
    <2>2. RequestFits(u)
      BY <1>4, <1>7, <2>1 DEF StoreInv
    <2>3. RequestFits(u)'
      BY <2>2 DEF RequestFits, DatasetFits
    <2> QED
      BY <2>1, <2>3 DEF RequestFits, DatasetFits
  <1>9. IdsUnique'
    <2>1. /\ task[w].at \in MayCommit /\ task[w].at # "idle"
          /\ t.at \notin MayCommit /\ t.at \in Answered
      BY DEF MayCommit, Answered
    <2>2. /\ \A e \in datasets : e.id # d.id
          /\ \A v \in Workers \ {w} :
               /\ task[v].at # "idle" => task[v].id # d.id
               /\ task[v].at \in Answered => task[v].dataset.id # d.id
      BY <1>1, <1>2, <2>1 DEF IdsUnique
    <2>3. \A e, f \in datasets' : e.id = f.id => e = f
      BY <1>1, <1>3, <2>2 DEF IdsUnique
    <2>4. ASSUME NEW v \in Workers, task'[v].at \in Answered, NEW e \in datasets',
                 e.id = task'[v].dataset.id
          PROVE  e = task'[v].dataset
      <3>1. CASE v = w
        BY <1>3, <1>4, <2>2, <2>4, <3>1
      <3>2. CASE v # w
        BY <1>1, <1>3, <1>4, <2>2, <2>4, <3>2 DEF IdsUnique
      <3> QED
        BY <3>1, <3>2
    <2>5. ASSUME NEW v \in Workers, task'[v].at \in MayCommit
          PROVE  /\ \A e \in datasets' : e.id # task'[v].id
                 /\ \A u \in Workers \ {v} :
                      /\ task'[u].at # "idle" => task'[u].id # task'[v].id
                      /\ task'[u].at \in Answered => task'[u].dataset.id # task'[v].id
      <3>1. v # w /\ task'[v] = task[v] /\ task[v].at # "idle"
        BY <1>4, <2>1, <2>5 DEF MayCommit
      <3>2. /\ \A e \in datasets : e.id # task[v].id
            /\ \A u \in Workers \ {v} :
                      /\ task[u].at # "idle" => task[u].id # task[v].id
                      /\ task[u].at \in Answered => task[u].dataset.id # task[v].id
        BY <1>1, <2>5, <3>1 DEF IdsUnique
      <3>3. d.id # task[v].id
        BY <2>2, <3>1
      <3> QED
        BY <1>2, <1>3, <1>4, <3>1, <3>2, <3>3
    <2> QED
      BY <2>3, <2>4, <2>5 DEF IdsUnique
  <1>10. WinnerStays'
    <2> SUFFICES ASSUME NEW v \in Workers, task'[v].at = "conflict", deletes = 0
                 PROVE  \E e \in datasets' : /\ e.start = task'[v].start /\ e.end = task'[v].end
                                             /\ e.print = task'[v].cached
      BY DEF WinnerStays, SameIdentity
    <2>1. v # w /\ task'[v] = task[v]
      BY <1>4
    <2>2. PICK e \in datasets : e.start = task[v].start /\ e.end = task[v].end /\ e.print = task[v].cached
      BY <2>1 DEF StoreInv, WinnerStays, SameIdentity
    <2> QED
      BY <1>3, <2>1, <2>2
  <1>11. RunsSeeWholeRange'
    BY DEF StoreInv, RunsSeeWholeRange
  <1> QED
    BY <1>5, <1>6, <1>8, <1>9, <1>10, <1>11 DEF StoreInv

LEMMA CommitStore == ASSUME StoreInv, NEW w \in Workers, Commit(w) PROVE StoreInv'
  <1>1. TypeOK /\ RequestFits(task[w]) /\ task[w] \in Request /\ task[w].at = "commit"
    BY DEF StoreInv, TypeOK, Commit
  <1>2. CASE /\ SameIdentity(task[w]) # {} /\ UNCHANGED datasets
             /\ task' = [task EXCEPT ![w].at = "conflict"]
    <2>1. "conflict" \in Places
      BY DEF Places
    <2>2. PICK t \in Request :
            /\ Moved(w, t) /\ t.at = "conflict"
            /\ t.series = task[w].series
      BY <1>1, <1>2, <2>1, PlaceChanged, ZenonT(60)
    <2>3. t.series = {}
      BY <1>1, <2>2 DEF RequestFits, Answered
    <2>4. UNCHANGED <<datasets, runs, requests, deletes, clock, glitches>>
      BY <1>2 DEF Commit
    <2> QED
      BY <1>1, <1>2, <2>2, <2>3, <2>4, MoveStore DEF MayCommit, Answered
  <1>3. CASE /\ datasets' = datasets \cup {NewDataset(task[w])}
             /\ task' = [task EXCEPT ![w].at = "answer", ![w].series = task[w].cached,
                                     ![w].dataset = NewDataset(task[w])]
    <2> DEFINE d == NewDataset(task[w])
               t == [task[w] EXCEPT !.at = "answer", !.series = task[w].cached, !.dataset = d]
    <2>1. d \in Dataset
      BY <1>1, NewDatasetShape
    <2>2. datasets' = datasets \cup {d}
      BY <1>3
    <2>3. task' = [task EXCEPT ![w].at = "answer", ![w].series = task[w].cached, ![w].dataset = d]
      BY <1>3
    <2> HIDE DEF d
    <2>4. task' = [task EXCEPT ![w] = t]
      BY <1>1, <2>3 DEF TypeOK, Request
    <2>5. /\ t \in Request /\ t.at = "answer" /\ t.dataset = d /\ t.series = task[w].cached
          /\ t.id = task[w].id /\ t.start = task[w].start /\ t.end = task[w].end
          /\ t.cached = task[w].cached /\ t.missing = task[w].missing
      BY <1>1, <2>1 DEF Request, Places
    <2> HIDE DEF t
    <2>6. UNCHANGED <<runs, clock, requests, glitches, deletes>>
      BY DEF Commit
    <2> QED
      BY <1>1, <2>2, <2>4, <2>5, <2>6, AddStore DEF d
  <1> QED
    BY <1>2, <1>3 DEF Commit

(* A request begins under a number of its own. *)
LEMMA BeginStore ==
  ASSUME StoreInv, NEW w \in Workers, NEW r \in Ranges, Begin(w, r) PROVE StoreInv'
  <1> DEFINE t == [NoRequest EXCEPT !.at = "covering", !.id = requests + 1,
                                    !.start = r[1], !.end = r[2]]
  <1>1. /\ TypeOK /\ IdsUnique /\ task[w].at = "idle" /\ requests < MaxRequests
        /\ requests' = requests + 1 /\ requests \in Nat
        /\ UNCHANGED <<datasets, runs, clock, glitches, deletes>>
    BY DEF StoreInv, TypeOK, Begin
  <1>2. task' = [task EXCEPT ![w] = t]
    BY DEF Begin
  <1>3. r \in Nat \X Nat /\ <<r[1], r[2]>> \in Ranges
    OBVIOUS
  <1>4. /\ t \in Request /\ t.at = "covering" /\ t.id = requests + 1 /\ t.start = r[1] /\ t.end = r[2]
        /\ t.missing = {} /\ t.cached = {} /\ t.series = {}
    <2>1. <<>> \in Seq(Candle) /\ 0 \in 0..(MaxAttempts - 1) /\ requests + 1 \in 0..MaxRequests
      BY <1>1, EmptySeq DEF TypeOK
    <2> QED
      BY <1>3, <2>1 DEF NoRequest, Request, Places
  <1> HIDE DEF t
  <1>5. /\ task'[w] = t /\ \A v \in Workers \ {w} : task'[v] = task[v]
        /\ task' \in [Workers -> Request]
    BY <1>1, <1>2, <1>4 DEF TypeOK
  <1>6. TypeOK'
    BY <1>1, <1>3, <1>4, <1>5 DEF TypeOK
  <1>7. ASSUME NEW d \in datasets' PROVE d.id <= requests /\ DatasetFits(d)'
    <2>1. DatasetFits(d)
      BY <1>1 DEF StoreInv
    <2>2. d.id \in 1..requests /\ d.id \in 1..requests'
      BY <1>1, <2>1 DEF DatasetFits
    <2> QED
      BY <2>1, <2>2 DEF DatasetFits
  <1>8. ASSUME NEW v \in Workers, v # w
        PROVE  /\ task[v].id <= requests /\ RequestFits(task[v])'
               /\ task[v].at \in Answered => task[v].dataset.id <= requests
    <2>1. PICK u : u = task[v] /\ u = task'[v]
      BY <1>5, <1>8
    <2>2. RequestFits(u)
      BY <2>1 DEF StoreInv
    <2>3. u.id \in Nat
      <3>1. PICK x \in Request : x = u
        BY <1>1, <2>1 DEF TypeOK
      <3> QED
        BY <3>1 DEF Request
    <2>4. u.id <= requests /\ u.id <= requests' /\ (u.at \in Answered => u.dataset.id <= requests)
      BY <1>1, <2>2, <2>3 DEF RequestFits, DatasetFits
    <2>5. DatasetFits(u.dataset) => DatasetFits(u.dataset)'
      BY <1>1 DEF DatasetFits
    <2>6. RequestFits(u)'
      BY <2>2, <2>4, <2>5 DEF RequestFits
    <2> QED
      BY <2>1, <2>4, <2>6 DEF RequestFits, DatasetFits
  <1>9. RequestFits(task[w])'
    <2>1. PICK u : u = t /\ u = task'[w]
      BY <1>5
    <2>2. u.at = "covering" /\ u.id = requests + 1 /\ u.cached = {} /\ u.series = {}
      BY <1>4, <2>1
    <2>3. TimesOf(u.cached) = {} /\ OnePerTime(u.cached)
      BY <2>2 DEF TimesOf, OnePerTime
    <2>4. u.at \notin Answered
      BY <2>2 DEF Answered
    <2>5. RequestFits(u)'
      BY <1>1, <2>2, <2>3, <2>4 DEF RequestFits
    <2> QED
      BY <2>1, <2>5 DEF RequestFits, DatasetFits
  <1>10. IdsUnique'
    <2>1. t.at \in MayCommit /\ t.at \notin Answered
      BY <1>4 DEF MayCommit, Answered
    <2>2. ASSUME NEW v \in Workers, task'[v].at \in MayCommit
          PROVE  /\ \A d \in datasets : d.id # task'[v].id
                 /\ \A u \in Workers \ {v} :
                      /\ task'[u].at # "idle" => task'[u].id # task'[v].id
                      /\ task'[u].at \in Answered => task'[u].dataset.id # task'[v].id
      <3>1. CASE v = w
        <4>1. \A d \in datasets : d.id # t.id
          BY <1>1, <1>4, <1>7 DEF TypeOK, Dataset
        <4>2. \A u \in Workers \ {w} :
                 /\ task[u].id # t.id
                 /\ task[u].at \in Answered => task[u].dataset.id # t.id
          <5> SUFFICES ASSUME NEW u \in Workers \ {w}
                       PROVE  /\ task[u].id # t.id
                              /\ task[u].at \in Answered => task[u].dataset.id # t.id
            OBVIOUS
          <5>1. task[u].id <= requests /\ (task[u].at \in Answered => task[u].dataset.id <= requests)
            BY <1>8
          <5>2. PICK x \in Request : x = task[u]
            BY <1>1 DEF TypeOK
          <5>3. x.id \in Nat /\ x.dataset \in Dataset \cup {NoDataset}
            BY DEF Request
          <5>4. x.dataset.id \in Nat
            BY <5>3 DEF Dataset, NoDataset
          <5> QED
            BY <1>1, <1>4, <5>1, <5>2, <5>3, <5>4
        <4> QED
          BY <1>5, <3>1, <4>1, <4>2
      <3>2. CASE v # w
        <4>1. /\ task'[v] = task[v] /\ \A d \in datasets : d.id # task[v].id
              /\ \A u \in Workers \ {v} :
                      /\ task[u].at # "idle" => task[u].id # task[v].id
                      /\ task[u].at \in Answered => task[u].dataset.id # task[v].id
          BY <1>1, <1>5, <2>2, <3>2 DEF IdsUnique
        <4>2. t.id # task[v].id
          <5>1. task[v].id <= requests /\ task[v].id \in Nat
            BY <1>1, <1>8, <3>2 DEF TypeOK, Request
          <5> QED
            BY <1>1, <1>4, <5>1
        <4> QED
          BY <1>5, <2>1, <4>1, <4>2
      <3> QED
        BY <3>1, <3>2
    <2>3. \A v \in Workers : task'[v].at \in Answered =>
             \A d \in datasets : d.id = task'[v].dataset.id => d = task'[v].dataset
      BY <1>1, <1>5, <2>1 DEF IdsUnique
    <2> QED
      BY <1>1, <2>2, <2>3 DEF IdsUnique
  <1>11. WinnerStays'
    <2> SUFFICES ASSUME NEW v \in Workers, task'[v].at = "conflict", deletes = 0
                 PROVE  \E e \in datasets : /\ e.start = task'[v].start /\ e.end = task'[v].end
                                            /\ e.print = task'[v].cached
      BY <1>1 DEF WinnerStays, SameIdentity
    <2>1. task'[v] = task[v]
      BY <1>4, <1>5
    <2> QED
      BY <2>1 DEF StoreInv, WinnerStays, SameIdentity
  <1>12. RunsSeeWholeRange'
    BY <1>1 DEF StoreInv, RunsSeeWholeRange
  <1>13. \A v \in Workers : RequestFits(task[v])'
    BY <1>8, <1>9
  <1> QED
    BY <1>6, <1>7, <1>10, <1>11, <1>12, <1>13 DEF StoreInv

(* Deleting a dataset leaves the others and the requests as they are.      *)
LEMMA DeleteStore == ASSUME StoreInv, NEW d \in datasets, Delete(d) PROVE StoreInv'
  <1>1. /\ datasets' = datasets \ {d} /\ deletes' = deletes + 1 /\ deletes' \in 0..MaxDeletes
        /\ deletes' # 0
        /\ UNCHANGED <<runs, task, clock, requests, glitches>>
    BY DEF StoreInv, TypeOK, Delete
  <1>2. TypeOK'
    BY <1>1 DEF StoreInv, TypeOK
  <1>3. \A e \in datasets' : DatasetFits(e)'
    BY <1>1 DEF StoreInv, DatasetFits
  <1>4. \A w \in Workers : RequestFits(task[w])'
    BY <1>1 DEF StoreInv, RequestFits, DatasetFits
  <1>5. IdsUnique'
    BY <1>1 DEF StoreInv, IdsUnique
  <1>6. RunsSeeWholeRange' /\ WinnerStays'
    BY <1>1 DEF StoreInv, RunsSeeWholeRange, WinnerStays
  <1> QED
    BY <1>2, <1>3, <1>4, <1>5, <1>6 DEF StoreInv

(* Time, and steps in which nothing happens.                               *)
LEMMA IdleStore ==
  ASSUME StoreInv, clock' \in 0..MaxClock,
         UNCHANGED <<datasets, runs, task, requests, glitches, deletes>>
  PROVE  StoreInv'
  <1>1. TypeOK'
    BY DEF StoreInv, TypeOK
  <1>2. \A e \in datasets' : DatasetFits(e)'
    BY DEF StoreInv, DatasetFits
  <1>3. \A w \in Workers : RequestFits(task[w])'
    BY DEF StoreInv, RequestFits, DatasetFits
  <1>4. IdsUnique'
    BY DEF StoreInv, IdsUnique
  <1>5. RunsSeeWholeRange' /\ WinnerStays'
    BY DEF StoreInv, RunsSeeWholeRange, WinnerStays, SameIdentity
  <1> QED
    BY <1>1, <1>2, <1>3, <1>4, <1>5 DEF StoreInv

LEMMA NextStore == ASSUME StoreInv, [Next]_vars PROVE StoreInv'
  <1>1. clock \in 0..MaxClock
    BY DEF StoreInv, TypeOK
  <1>2. CASE UNCHANGED vars
    BY <1>1, <1>2, IdleStore DEF vars
  <1>3. CASE Quiet
    BY <1>1, <1>3, IdleStore DEF Quiet, vars
  <1>4. CASE Tick
    BY <1>1, <1>4, IdleStore DEF Tick
  <1>5. CASE \E d \in datasets : Delete(d)
    BY <1>5, DeleteStore
  <1>6. ASSUME NEW w \in Workers, NEW r \in Ranges, Begin(w, r) PROVE StoreInv'
    BY <1>6, BeginStore
  <1>7. ASSUME NEW w \in Workers, Serve(w) PROVE StoreInv'
    <2>1. CASE Covering(w)
      BY <2>1, CoveringStore
    <2>2. CASE Cached(w)
      BY <2>2, CachedStore
    <2>3. CASE FetchPage(w) \/ GlitchPage(w)
      BY <2>3, FetchStore
    <2>4. CASE Retry(w)
      BY <2>4, RetryStore
    <2>5. CASE GiveUp(w) \/ Answer(w) \/ Reject(w) \/ TooShort(w)
      BY <2>5, EndStore
    <2>6. CASE Existing(w)
      BY <2>6, ExistingStore
    <2>7. CASE Commit(w)
      BY <2>7, CommitStore
    <2>8. CASE Conflict(w)
      BY <2>8, ConflictStore
    <2>9. CASE Read(w)
      BY <2>9, ReadStore
    <2>10. CASE Save(w)
      BY <2>10, SaveStore
    <2> QED
      BY <1>7, <2>1, <2>2, <2>3, <2>4, <2>5, <2>6, <2>7, <2>8, <2>9, <2>10 DEF Serve
  <1> QED
    BY <1>2, <1>3, <1>4, <1>5, <1>6, <1>7 DEF Next

(* What every request, dataset and saved backtest satisfies, whatever the  *)
(* exchange answers (market/repository.py:30-195).                         *)
THEOREM StoreInvariant == Spec => []StoreInv
  <1>1. Init => StoreInv
    BY InitStore
  <1>2. StoreInv /\ [Next]_vars => StoreInv'
    BY NextStore
  <1> QED
    BY <1>1, <1>2, PTL DEF Spec

(* The types, and that a request is on one of the ranges asked for and     *)
(* downloads exactly while something is missing.                           *)
THEOREM TypeCorrect == Spec => []TypeOK
  <1>1. StoreInv => TypeOK
    BY DEF StoreInv
  <1> QED
    BY <1>1, StoreInvariant, PTL

(* A dataset marked valid has one consistent candle for every time of its  *)
(* range, whatever the pages, caches and races it came from                *)
(* (market/repository.py:126-147).                                         *)
THEOREM ValidMeansCompleteHolds == Spec => []ValidMeansComplete
  <1>1. StoreInv => ValidMeansComplete
    BY DEF StoreInv, ValidMeansComplete, DatasetFits
  <1> QED
    BY <1>1, StoreInvariant, PTL

(* The dataset a request ends up with spans its range, and a valid one has *)
(* all the candles of it (market/repository.py:45-80, 149-183).            *)
THEOREM AnswersFitHolds == Spec => []AnswersFit
  <1>1. ASSUME StoreInv PROVE AnswersFit
    <2> SUFFICES ASSUME NEW w \in Workers, task[w].at \in Answered
                 PROVE  LET d == task[w].dataset IN
                        /\ d.start <= task[w].start /\ task[w].end <= d.end
                        /\ d.valid => task[w].start..(task[w].end - 1) \subseteq TimesOf(d.print)
      BY DEF AnswersFit, Answered
    <2>1. PICK t \in Request : t = task[w]
      BY <1>1 DEF StoreInv, TypeOK
    <2>2. PICK d : d = t.dataset
      OBVIOUS
    <2>3. DatasetFits(d) /\ d.start <= t.start /\ t.end <= d.end
      BY <1>1, <2>1, <2>2 DEF StoreInv, RequestFits
    <2>4. t.start \in Nat /\ t.end \in Nat /\ d.start \in Nat /\ d.end \in Nat
      BY <2>2 DEF Request, Dataset, NoDataset
    <2>5. d.valid => t.start..(t.end - 1) \subseteq TimesOf(d.print)
      BY <2>3, <2>4 DEF DatasetFits, Complete
    <2> QED
      BY <2>1, <2>2, <2>3, <2>5
  <1> QED
    BY <1>1, StoreInvariant, PTL

(* A saved backtest has read a candle for every time of its range, also    *)
(* when its dataset was deleted meanwhile (backtest/service.py:66-106).    *)
THEOREM RunsSeeWholeRangeHolds == Spec => []RunsSeeWholeRange
  <1>1. StoreInv => RunsSeeWholeRange
    BY DEF StoreInv
  <1> QED
    BY <1>1, StoreInvariant, PTL

(* The loser of a race raises only after a deletion                        *)
(* (market/repository.py:170-183).                                         *)
THEOREM NoLostConflictHolds == Spec => NoLostConflict
  <1> DEFINE Kept == \A w \in Workers :
                       task[w].at = "conflict" /\ task'[w].at = "idle" => deletes > 0
  <1>1. ASSUME StoreInv, [Next]_vars PROVE [Kept]_vars
    <2> SUFFICES ASSUME ~UNCHANGED vars, NEW w \in Workers,
                        task[w].at = "conflict", task'[w].at = "idle"
                 PROVE  deletes > 0
      OBVIOUS
    <2>1. deletes \in Nat /\ task \in [Workers -> Request] /\ WinnerStays
      BY <1>1 DEF StoreInv, TypeOK
    <2>2. task' # task
      OBVIOUS
    <2>3. PICK v \in Workers : Serve(v) \/ \E r \in Ranges : Begin(v, r)
      BY <1>1, <2>2, SMTT(30) DEF Next, Tick, Quiet, Delete, vars
    <2>4. v = w
      BY <2>1, <2>3, ZenonT(60) DEF Serve, Begin, Covering, Cached, FetchPage, GlitchPage, Receive,
         ReceivePage, ReceiveRange, Retry, GiveUp, Existing, Commit, Conflict, Winner,
         Answer, Reject, Read, TooShort, Save, Leave
    <2>5. Conflict(w)
      BY <2>3, <2>4 DEF Serve, Begin, Covering, Cached, FetchPage, GlitchPage, Retry, GiveUp,
         Existing, Commit, Answer, Reject, Read, TooShort, Save
    <2>6. SameIdentity(task[w]) = {}
      BY <2>1, <2>5 DEF Conflict, Winner, Request
    <2> QED
      BY <2>1, <2>6 DEF WinnerStays
  <1> QED
    BY <1>1, StoreInvariant, PTL DEF Spec, NoLostConflict

-----------------------------------------------------------------------------
(* CleanInv: the same steps, as long as the exchange answers correctly.    *)

(* The request of worker w becomes t; datasets stay. *)
LEMMA TaskClean ==
  ASSUME TypeOK, CleanInv, NEW w \in Workers, NEW t \in Request,
         task' = [task EXCEPT ![w] = t], UNCHANGED <<datasets, clock, glitches>>,
         glitches = 0 => Orderly(t)
  PROVE  CleanInv'
  <1> SUFFICES ASSUME glitches = 0
               PROVE  /\ \A d \in datasets : /\ Sound(d.print)' /\ Prefix(d.print, d.start, d.end)
                                             /\ d.valid <=> Complete(d)
                      /\ \A v \in Workers : Orderly(task[v])'
    BY DEF CleanInv, Prefix, Complete
  <1>1. \A d \in datasets : /\ Sound(d.print)' /\ Prefix(d.print, d.start, d.end)
                            /\ d.valid <=> Complete(d)
    BY DEF CleanInv, Sound
  <1>2. ASSUME NEW v \in Workers PROVE Orderly(task[v])'
    <2>1. PICK u : u = task'[v]
      OBVIOUS
    <2>2. Orderly(u)
      BY <2>1 DEF TypeOK, CleanInv
    <2>3. Orderly(u)'
      BY <2>2 DEF Orderly, Sound, RangesLeft, DownloadFits, RowsInOrder, Prefix
    <2> QED
      BY <2>1, <2>3 DEF Orderly, Sound, RangesLeft, DownloadFits, RowsInOrder, Prefix
  <1> QED
    BY <1>1, <1>2

(* A request that has nothing, and one that begins, is orderly.            *)
LEMMA FreshOrderly ==
  ASSUME NEW t, t.clean, t.cached = {}, t.downloaded = <<>>, t.at \in {"idle", "covering"}
  PROVE  Orderly(t)
  BY DEF Orderly, Sound

LEMMA InitClean == Init => CleanInv
  <1> SUFFICES ASSUME Init PROVE CleanInv
    OBVIOUS
  <1>1. /\ NoRequest.at = "idle" /\ NoRequest.clean /\ NoRequest.cached = {}
        /\ NoRequest.downloaded = <<>>
    BY DEF NoRequest
  <1>2. datasets = {} /\ \A w \in Workers : task[w] = NoRequest
    BY DEF Init
  <1> HIDE DEF NoRequest
  <1>3. Orderly(NoRequest)
    BY <1>1, FreshOrderly
  <1> QED
    BY <1>2, <1>3 DEF CleanInv

LEMMA LeaveClean ==
  ASSUME TypeOK, CleanInv, NEW w \in Workers, Leave(w), UNCHANGED <<datasets, clock, glitches>>
  PROVE  CleanInv'
  <1>1. NoRequest \in Request
    <2>1. <<>> \in Seq(Candle) /\ 0 \in 0..(MaxAttempts - 1) /\ 0 \in 0..MaxRequests
      BY EmptySeq
    <2> QED
      BY <2>1 DEF NoRequest, Request, Places
  <1>2. /\ NoRequest.at = "idle" /\ NoRequest.clean /\ NoRequest.cached = {}
        /\ NoRequest.downloaded = <<>>
    BY DEF NoRequest
  <1>3. task' = [task EXCEPT ![w] = NoRequest]
    BY DEF Leave
  <1> HIDE DEF NoRequest
  <1> QED
    BY <1>1, <1>2, <1>3, FreshOrderly, TaskClean

LEMMA BeginClean ==
  ASSUME TypeOK, CleanInv, NEW w \in Workers, NEW r \in Ranges, Begin(w, r) PROVE CleanInv'
  <1> DEFINE t == [NoRequest EXCEPT !.at = "covering", !.id = requests + 1,
                                    !.start = r[1], !.end = r[2]]
  <1>1. /\ task' = [task EXCEPT ![w] = t] /\ UNCHANGED <<datasets, clock, glitches>>
        /\ requests < MaxRequests /\ requests \in Nat
    BY DEF Begin, TypeOK
  <1>2. r \in Nat \X Nat
    OBVIOUS
  <1>3. t \in Request /\ t.at = "covering" /\ t.clean /\ t.cached = {} /\ t.downloaded = <<>>
    <2>1. <<>> \in Seq(Candle) /\ 0 \in 0..(MaxAttempts - 1) /\ requests + 1 \in 0..MaxRequests
      BY <1>1, EmptySeq DEF TypeOK
    <2> QED
      BY <1>2, <2>1 DEF NoRequest, Request, Places
  <1> HIDE DEF t
  <1> QED
    BY <1>1, <1>3, FreshOrderly, TaskClean

(* What a request has downloaded when it moves on outside the loop.        *)
Merging == {"store", "commit", "conflict"}

LEMMA MovedOrderly ==
  ASSUME NEW w \in Workers, NEW t \in Request, Moved(w, t), Orderly(task[w]),
         task[w].at # "fetch", t.at # "fetch", t.at \in Merging => task[w].at \in Merging
  PROVE  Orderly(t)
  BY DEF Moved, Orderly, Merging

LEMMA MoveClean ==
  ASSUME TypeOK, CleanInv, NEW w \in Workers, NEW t \in Request, Moved(w, t),
         UNCHANGED <<datasets, clock, glitches>>,
         task[w].at # "fetch", t.at # "fetch", t.at \in Merging => task[w].at \in Merging
  PROVE  CleanInv'
  BY MovedOrderly, TaskClean DEF Moved, CleanInv

LEMMA SearchClean ==
  ASSUME TypeOK, CleanInv, NEW w \in Workers, Covering(w) \/ Existing(w) \/ Conflict(w)
  PROVE  CleanInv'
  <1>1. UNCHANGED <<datasets, clock, glitches>> /\ task[w].at \in {"covering", "store", "conflict"}
    BY DEF Covering, Existing, Conflict
  <1>2. ASSUME NEW p \in Places, task' = [task EXCEPT ![w].at = p], p # "fetch",
               p \in Merging => task[w].at \in Merging
        PROVE  CleanInv'
    <2>1. PICK t \in Request : Moved(w, t) /\ t.at = p
      BY <1>2, PlaceChanged
    <2> QED
      BY <1>1, <1>2, <2>1, MoveClean
  <1>3. ASSUME NEW d \in datasets, task' = [task EXCEPT ![w].at = "answer", ![w].dataset = d]
        PROVE  CleanInv'
    <2>1. PICK t \in Request : Moved(w, t) /\ t.at = "answer"
      BY <1>3, DatasetTaken
    <2> QED
      BY <1>1, <2>1, MoveClean DEF Merging
  <1>4. "cached" \in Places /\ "commit" \in Places /\ "cached" \notin Merging
    BY DEF Places, Merging
  <1>5. CASE Covering(w)
    BY <1>2, <1>3, <1>4, <1>5 DEF Covering
  <1>6. CASE Existing(w)
    <2>1. task[w].at \in Merging
      BY <1>6 DEF Existing, Merging
    <2> QED
      BY <1>2, <1>3, <1>4, <1>6, <2>1 DEF Existing, SameIdentity
  <1>7. CASE Conflict(w)
    <2>1. CASE Leave(w)
      BY <1>1, <2>1, LeaveClean
    <2> QED
      BY <1>3, <1>7, <2>1 DEF Conflict, Winner, SameIdentity
  <1> QED
    BY <1>5, <1>6, <1>7

LEMMA ReadClean == ASSUME StoreInv, CleanInv, NEW w \in Workers, Read(w) PROVE CleanInv'
  <1> DEFINE series == Loaded(task[w])
             t == [task[w] EXCEPT !.at = "validate", !.series = series]
  <1>1. TypeOK /\ task[w] \in Request /\ task \in [Workers -> Request] /\ task[w].at = "answer"
    BY DEF StoreInv, TypeOK, Read
  <1>2. series \in SUBSET Candle
    BY LoadedCandles DEF Read
  <1>3. /\ task' = [task EXCEPT ![w].at = "validate", ![w].series = series]
        /\ UNCHANGED <<datasets, clock, glitches>>
    BY DEF Read
  <1> HIDE DEF series
  <1>4. task' = [task EXCEPT ![w] = t]
    BY <1>1, <1>3 DEF Request
  <1>5. /\ t \in Request /\ t.at = "validate"
        /\ t.id = task[w].id /\ t.start = task[w].start /\ t.end = task[w].end
        /\ t.cached = task[w].cached /\ t.missing = task[w].missing
        /\ t.downloaded = task[w].downloaded /\ t.clean = task[w].clean
    BY <1>1, <1>2 DEF Request, Places
  <1> HIDE DEF t
  <1>6. Moved(w, t) /\ t.at \notin Merging
    BY <1>4, <1>5 DEF Moved, Merging
  <1> QED
    BY <1>1, <1>3, <1>5, <1>6, MoveClean

LEMMA RetryClean == ASSUME TypeOK, CleanInv, NEW w \in Workers, Retry(w) PROVE CleanInv'
  <1> DEFINE t == [task[w] EXCEPT !.attempt = @ + 1]
  <1>1. /\ task[w] \in Request /\ task[w].at = "fetch" /\ task[w].attempt + 1 < MaxAttempts
        /\ task' = [task EXCEPT ![w] = t] /\ UNCHANGED <<datasets, clock, glitches>>
    BY DEF TypeOK, Retry
  <1>2. /\ t.at = task[w].at /\ t.start = task[w].start /\ t.end = task[w].end
        /\ t.cached = task[w].cached /\ t.missing = task[w].missing /\ t.cursor = task[w].cursor
        /\ t.downloaded = task[w].downloaded /\ t.clean = task[w].clean
    BY <1>1 DEF Request
  <1>3. t \in Request
    <2>1. PICK n \in 0..(MaxAttempts - 1) : n = task[w].attempt
      BY <1>1 DEF Request
    <2>2. n + 1 \in 0..(MaxAttempts - 1) /\ n + 1 = task[w].attempt + 1
      BY <1>1, <2>1
    <2> QED
      BY <1>1, <2>2 DEF Request
  <1> HIDE DEF t
  <1>4. glitches = 0 => Orderly(t)
    BY <1>2 DEF CleanInv, Orderly, RangesLeft, DownloadFits
  <1> QED
    BY <1>1, <1>3, <1>4, TaskClean

(* Candles that fill their range from its start are valid just when there  *)
(* is one for every time.                                                  *)
LEMMA CommitClean == ASSUME StoreInv, CleanInv, NEW w \in Workers, Commit(w) PROVE CleanInv'
  <1>1. /\ TypeOK /\ RequestFits(task[w]) /\ task[w] \in Request /\ task[w].at = "commit"
        /\ UNCHANGED <<clock, glitches>>
    BY DEF StoreInv, TypeOK, Commit
  <1>2. CASE UNCHANGED datasets /\ task' = [task EXCEPT ![w].at = "conflict"]
    <2>1. "conflict" \in Places
      BY DEF Places
    <2>2. PICK t \in Request : Moved(w, t) /\ t.at = "conflict"
      BY <1>1, <1>2, <2>1, PlaceChanged
    <2>3. task[w].at \in Merging
      BY <1>1 DEF Merging
    <2> QED
      BY <1>1, <1>2, <2>2, <2>3, MoveClean
  <1>3. CASE /\ datasets' = datasets \cup {NewDataset(task[w])}
             /\ task' = [task EXCEPT ![w].at = "answer", ![w].series = task[w].cached,
                                     ![w].dataset = NewDataset(task[w])]
    <2> SUFFICES ASSUME glitches = 0 PROVE CleanInv'
      BY <1>1 DEF CleanInv
    <2> DEFINE d == NewDataset(task[w])
               t == [task[w] EXCEPT !.at = "answer", !.series = task[w].cached, !.dataset = d]
    <2>1. /\ d \in Dataset /\ DatasetFits(d)
          /\ d.start = task[w].start /\ d.end = task[w].end
          /\ d.print = task[w].cached /\ d.valid = IsValid(task[w])
      BY <1>1, NewDatasetShape
    <2>2. datasets' = datasets \cup {d}
      BY <1>3
    <2>3. task' = [task EXCEPT ![w].at = "answer", ![w].series = task[w].cached, ![w].dataset = d]
      BY <1>3
    <2> HIDE DEF d
    <2>4. task' = [task EXCEPT ![w] = t]
      BY <1>1, <2>3 DEF TypeOK, Request
    <2>5. /\ t.at = "answer" /\ t.cached = task[w].cached
          /\ t.downloaded = task[w].downloaded /\ t.clean = task[w].clean
      BY <1>1 DEF Request
    <2> HIDE DEF t
    <2>6. Orderly(task[w])
      BY DEF CleanInv
    <2>7. Orderly(t)
      BY <1>1, <2>5, <2>6 DEF Orderly
    <2>8. Sound(d.print) /\ Prefix(d.print, d.start, d.end)
      BY <1>1, <2>1, <2>6 DEF Orderly
    <2>9. d.valid <=> Complete(d)
      <3>1. d.valid => Complete(d)
        BY <2>1 DEF DatasetFits
      <3>2. ASSUME Complete(d) PROVE IsValid(task[w])
        <4>1. PICK start \in Nat, end \in Nat, candles \in SUBSET Candle :
                 start = d.start /\ end = d.end /\ candles = d.print
          BY <2>1 DEF Dataset
        <4>2. start < end /\ OnePerTime(candles) /\ TimesOf(candles) = start..(end - 1)
          BY <2>1, <3>2, <4>1 DEF DatasetFits, Complete
        <4>3. Cardinality(candles) = end - start
          BY <4>2, CountTellsComplete
        <4>4. \A c \in candles : c.time \in start..(end - 1)
          BY <4>2 DEF TimesOf
        <4>5. \A c, e \in candles : c.time < e.time => c.time + 1 \in TimesOf(candles)
          BY <4>2, <4>4
        <4>6. Gapless(candles)
          BY <2>8, <4>1, <4>5 DEF Gapless, Sound
        <4> QED
          BY <2>1, <2>6, <4>1, <4>3, <4>6 DEF IsValid, Orderly
      <3> QED
        BY <2>1, <3>1, <3>2
    <2>10. ASSUME NEW e \in datasets'
           PROVE  /\ Sound(e.print)' /\ Prefix(e.print, e.start, e.end)
                  /\ e.valid <=> Complete(e)
      BY <1>1, <2>2, <2>8, <2>9 DEF CleanInv, Sound
    <2>11. ASSUME NEW v \in Workers PROVE Orderly(task[v])'
      <3>1. PICK u : u = task'[v]
        OBVIOUS
      <3>2. Orderly(u)
        BY <1>1, <2>4, <2>7, <3>1 DEF TypeOK, CleanInv
      <3>3. Orderly(u)'
        BY <1>1, <3>2 DEF Orderly, Sound, RangesLeft, DownloadFits, RowsInOrder, Prefix
      <3> QED
        BY <3>1, <3>3 DEF Orderly, Sound, RangesLeft, DownloadFits, RowsInOrder, Prefix
    <2> QED
      BY <2>10, <2>11 DEF CleanInv, Prefix, Complete
  <1> QED
    BY <1>2, <1>3 DEF Commit

(* RangesLeft of a request, of its range, times and missing ranges alone.  *)
Left(start, end, times, missing) ==
    /\ \A i \in start..(end - 1) : i \in times <=> ~\E r \in missing : r[1] <= i /\ i < r[2]
    /\ \A r \in missing : /\ start <= r[1] /\ r[1] < r[2] /\ r[2] <= end
                          /\ r[2] = end \/ r[2] \in times
    /\ \A r, q \in missing : r = q \/ r[2] < q[1] \/ q[2] < r[1]

(* The ranges without a cached candle are what is left to download.        *)
LEMMA MissingRangesLeft ==
  ASSUME NEW start \in Nat, NEW end \in Nat, NEW times \in SUBSET (start..(end - 1))
  PROVE  Left(start, end, times, MissingRanges((start..(end - 1)) \ times))
  <1> DEFINE gaps == (start..(end - 1)) \ times
             missing == MissingRanges(gaps)
  <1>1. gaps \in SUBSET Nat /\ \A i \in gaps : i < end /\ start <= i
    OBVIOUS
  <1> HIDE DEF gaps
  <1>2. /\ missing \in SUBSET (Nat \X Nat)
        /\ \A r \in missing :
              /\ r[1] \in gaps /\ r[2] - 1 \in gaps /\ r[2] \notin gaps /\ r[1] < r[2]
              /\ \A i \in Nat : r[1] <= i /\ i < r[2] => i \in gaps
        /\ \A r, q \in missing : r = q \/ r[2] < q[1] \/ q[2] < r[1]
    BY <1>1, MissingRangesShape
  <1>3. \A i \in gaps : \E r \in missing : r[1] <= i /\ i < r[2]
    BY <1>1, MissingRangesCover
  <1> HIDE DEF missing
  <1>4. ASSUME NEW i \in start..(end - 1)
        PROVE  i \in times <=> ~\E r \in missing : r[1] <= i /\ i < r[2]
    <2>1. i \in Nat /\ (i \in times <=> i \notin gaps)
      BY DEF gaps
    <2> QED
      BY <1>2, <1>3, <2>1
  <1>5. ASSUME NEW r \in missing
        PROVE  /\ start <= r[1] /\ r[1] < r[2] /\ r[2] <= end
               /\ r[2] = end \/ r[2] \in times
    <2>1. PICK a \in Nat, b \in Nat : r = <<a, b>>
      BY <1>2
    <2>2. a \in gaps /\ b - 1 \in gaps /\ b \notin gaps /\ a < b
      BY <1>2, <2>1
    <2>3. start <= a /\ b - 1 < end
      BY <1>1, <2>2
    <2>4. b # end => b \in start..(end - 1)
      BY <2>2, <2>3
    <2>5. b # end => b \in times
      BY <2>2, <2>4 DEF gaps
    <2> QED
      BY <2>1, <2>2, <2>3, <2>5
  <1> QED
    BY <1>2, <1>4, <1>5 DEF Left, missing, gaps

(* A request that goes on with what is left, or has all there is.          *)
LEMMA OnwardOrderly ==
  ASSUME NEW u \in Request, NEW missing \in SUBSET (Nat \X Nat), u.start < u.end,
         u.clean, Sound(u.cached), u.downloaded = <<>>,
         TimesOf(u.cached) \subseteq u.start..(u.end - 1),
         \/ Left(u.start, u.end, TimesOf(u.cached), missing)
         \/ missing = {} /\ Prefix(u.cached, u.start, u.end)
  PROVE  Orderly(Onward(u, missing))
  <1> DEFINE t == Onward(u, missing)
  <1>1. /\ t \in Request /\ t.missing = missing
        /\ t.at = IF missing = {} THEN "store" ELSE "fetch"
        /\ missing # {} => t.cursor = First(missing)[1]
        /\ t.start = u.start /\ t.end = u.end /\ t.cached = u.cached
        /\ t.downloaded = u.downloaded /\ t.clean = u.clean
    BY OnwardShape, ZenonT(60)
  <1> HIDE DEF t
  <1>2. PICK start \in Nat, end \in Nat : start = u.start /\ end = u.end
    BY DEF Request
  <1>3. CASE missing = {}
    <2>1. Prefix(u.cached, start, end)
      <3>1. ASSUME Left(start, end, TimesOf(u.cached), missing) PROVE Prefix(u.cached, start, end)
        <4>1. TimesOf(u.cached) = start..(end - 1)
          BY <1>2, <1>3, <3>1 DEF Left
        <4>2. end \in start..end
          BY <1>2
        <4> QED
          BY <4>1, <4>2 DEF Prefix
      <3> QED
        BY <1>2, <3>1
    <2> QED
      BY <1>1, <1>2, <1>3, <2>1 DEF Orderly, t
  <1>4. CASE missing # {}
    <2>1. Left(start, end, TimesOf(u.cached), missing)
      BY <1>2, <1>4
    <2>2. RangesLeft(t)
      BY <1>1, <1>2, <2>1 DEF RangesLeft, Left
    <2>3. First(missing) \in missing
      BY <1>4, FirstIsLeast
    <2>4. First(missing)[1] < First(missing)[2] /\ First(missing)[1] \in Nat
      BY <2>1, <2>3 DEF Left
    <2>5. t.downloaded = <<>> /\ Len(t.downloaded) = 0
      BY <1>1
    <2>6. RowsInOrder(t.downloaded, First(missing)[1])
      BY <2>5 DEF RowsInOrder
    <2>7. DownloadFits(t)
      BY <1>1, <1>4, <2>4, <2>5, <2>6 DEF DownloadFits
    <2> QED
      BY <1>1, <1>4, <2>2, <2>7 DEF Orderly, t
  <1> QED
    BY <1>3, <1>4

LEMMA CachedClean == ASSUME StoreInv, CleanInv, NEW w \in Workers, Cached(w) PROVE CleanInv'
  <1>1. /\ TypeOK /\ task[w] \in Request /\ task[w].at = "cached"
        /\ UNCHANGED <<datasets, clock, glitches>>
    BY DEF StoreInv, TypeOK, Cached
  <1>2. PICK start \in Nat, end \in Nat : start = task[w].start /\ end = task[w].end
    BY <1>1 DEF Request
  <1>3. PICK cached \in CachedCandles(start, end) :
           task' = [task EXCEPT ![w] =
             Onward([task[w] EXCEPT !.cached = cached],
                    MissingRanges((start..(end - 1)) \ TimesOf(cached)))]
    BY <1>2 DEF Cached
  <1>4. /\ cached \in SUBSET Candle
        /\ TimesOf(cached) \subseteq start..(end - 1)
        /\ \A c \in cached : \E d \in datasets : \E e \in d.print :
               d.valid /\ c.time = e.time /\ c.content = e.content
        /\ MissingRanges((start..(end - 1)) \ TimesOf(cached)) \in SUBSET (Nat \X Nat)
    BY <1>1, CachedShape, SMTT(30)
  <1>5. Left(start, end, TimesOf(cached), MissingRanges((start..(end - 1)) \ TimesOf(cached)))
    BY <1>4, MissingRangesLeft
  <1> DEFINE u == [task[w] EXCEPT !.cached = cached]
             missing == MissingRanges((start..(end - 1)) \ TimesOf(cached))
  <1>6. /\ u \in Request /\ u.cached = cached /\ u.start = start /\ u.end = end
        /\ u.clean = task[w].clean /\ u.downloaded = task[w].downloaded
    BY <1>1, <1>2, <1>4 DEF Request
  <1>7. /\ missing \in SUBSET (Nat \X Nat) /\ task' = [task EXCEPT ![w] = Onward(u, missing)]
        /\ Left(start, end, TimesOf(cached), missing)
    BY <1>3, <1>4, <1>5
  <1> HIDE DEF u, missing
  <1>8. ASSUME glitches = 0 PROVE Orderly(Onward(u, missing))
    <2>1. Orderly(task[w])
      BY <1>8 DEF CleanInv
    <2>2. u.clean /\ u.downloaded = <<>>
      BY <1>1, <1>6, <2>1 DEF Orderly
    <2>3. Sound(cached)
      BY <1>4, <1>8 DEF CleanInv, Sound
    <2>4. start < end
      BY <1>1, <1>2 DEF TypeOK
    <2> QED
      BY <1>4, <1>6, <1>7, <2>2, <2>3, <2>4, OnwardOrderly
  <1>9. Onward(u, missing) \in Request
    BY <1>6, <1>7, OnwardShape
  <1> QED
    BY <1>1, <1>7, <1>8, <1>9, TaskClean

(* A missing range that was filled is no longer left. *)
LEMMA RangeFilled ==
  ASSUME NEW start \in Nat, NEW end \in Nat, NEW times \in SUBSET (start..(end - 1)),
         NEW missing \in SUBSET (Nat \X Nat), Left(start, end, times, missing),
         NEW a \in Nat, NEW b \in Nat, <<a, b>> \in missing
  PROVE  Left(start, end, times \cup a..(b - 1), missing \ {<<a, b>>})
  <1> DEFINE filled == times \cup a..(b - 1)
             rest == missing \ {<<a, b>>}
  <1>1. \A r \in missing : /\ r = <<r[1], r[2]>> /\ r[1] \in Nat /\ r[2] \in Nat
                           /\ start <= r[1] /\ r[1] < r[2] /\ r[2] <= end
                           /\ r[2] = end \/ r[2] \in times
    BY DEF Left
  <1>2. ASSUME NEW r \in rest PROVE r[2] < a \/ b < r[1]
    <2>1. <<a, b>>[1] = a /\ <<a, b>>[2] = b
      OBVIOUS
    <2> QED
      BY <2>1 DEF Left
  <1>3. ASSUME NEW i \in start..(end - 1)
        PROVE  i \in filled <=> ~\E r \in rest : r[1] <= i /\ i < r[2]
    <2>1. i \in times <=> ~\E r \in missing : r[1] <= i /\ i < r[2]
      BY DEF Left
    <2>2. CASE i \in a..(b - 1)
      <3>1. \A r \in rest : ~(r[1] <= i /\ i < r[2])
        BY <1>1, <1>2, <2>2
      <3> QED
        BY <2>2, <3>1
    <2>3. CASE i \notin a..(b - 1)
      <3>1. ~(a <= i /\ i < b)
        BY <2>3
      <3>2. ASSUME NEW r \in missing, r[1] <= i, i < r[2] PROVE r \in rest
        BY <3>1, <3>2
      <3> QED
        BY <2>1, <2>3, <3>2
    <2> QED
      BY <2>2, <2>3
  <1> QED
    BY <1>1, <1>3 DEF Left

(* When the time after the first missing range is without a candle, that   *)
(* range is the last one, and everything before it is there.               *)
LEMMA RangeCut ==
  ASSUME NEW start \in Nat, NEW end \in Nat, NEW times,
         NEW missing \in SUBSET (Nat \X Nat), Left(start, end, times, missing),
         NEW a \in Nat, NEW b \in Nat, <<a, b>> \in missing, \A q \in missing : a <= q[1],
         b \notin times
  PROVE  missing \ {<<a, b>>} = {} /\ b = end /\ start <= a 
         /\ \A i \in start..(end - 1) : i \in times <=> i < a
  <1>1. <<a, b>>[1] = a /\ <<a, b>>[2] = b
    OBVIOUS
  <1>2. start <= a /\ a < b /\ b <= end /\ (b = end \/ b \in times) 
    BY <1>1 DEF Left
  <1>3. b = end
    BY <1>2
  <1>4. ASSUME NEW q \in missing PROVE q = <<a, b>>
    <2>1. q[1] \in Nat /\ q[2] \in Nat /\ q[1] < q[2] /\ q[2] <= end /\ a <= q[1]
      BY DEF Left
    <2>2. q = <<a, b>> \/ q[2] < a \/ b < q[1]
      BY <1>1 DEF Left
    <2> QED
      BY <1>3, <2>1, <2>2
  <1>5. ASSUME NEW i \in start..(end - 1) PROVE i \in times <=> i < a
    <2>1. i \in times <=> ~(a <= i /\ i < b)
      BY <1>1, <1>4 DEF Left
    <2> QED
      BY <1>3, <2>1
  <1> QED
    BY <1>2, <1>3, <1>4, <1>5

(* The rows of a whole range raise no issue, and are merged where they     *)
(* belong.                                                                 *)
LEMMA OrderlyRows ==
  ASSUME NEW rows \in Seq(Candle), NEW first \in Nat, RowsInOrder(rows, first)
  PROVE  /\ Issueless(rows)
         /\ \A t : (\E i \in 1..Len(rows) : rows[i].time = t) <=> t \in first..(first + Len(rows) - 1)
  <1>1. Len(rows) \in Nat /\ DOMAIN rows = 1..Len(rows)
    BY LenProperties
  <1>2. \A i \in 1..Len(rows) : rows[i].time = first + i - 1 /\ rows[i].content # "malformed"
    BY DEF RowsInOrder
  <1>3. ASSUME NEW i \in 1..(Len(rows) - 1) PROVE rows[i + 1].time = rows[i].time + 1
    <2>1. i \in 1..Len(rows) /\ i + 1 \in 1..Len(rows)
      BY <1>1
    <2>2. rows[i].time = first + i - 1 /\ rows[i + 1].time = first + (i + 1) - 1
      BY <1>2, <2>1
    <2> QED
      BY <2>2
  <1>4. ASSUME NEW t
        PROVE  (\E i \in 1..Len(rows) : rows[i].time = t) <=> t \in first..(first + Len(rows) - 1)
    <2>1. ASSUME NEW i \in 1..Len(rows), rows[i].time = t
          PROVE  t \in first..(first + Len(rows) - 1)
      BY <1>1, <1>2, <2>1
    <2>2. ASSUME t \in first..(first + Len(rows) - 1)
          PROVE  \E i \in 1..Len(rows) : rows[i].time = t
      <3>1. t - first + 1 \in 1..Len(rows)
        BY <1>1, <2>2
      <3>2. rows[t - first + 1].time = first + (t - first + 1) - 1
        BY <1>2, <3>1
      <3> QED
        BY <2>2, <3>1, <3>2
    <2> QED
      BY <2>1, <2>2
  <1> QED
    BY <1>1, <1>2, <1>3, <1>4 DEF Issueless

(* What a request knows while it downloads the range from a to b.          *)
Loading(t, start, end, a, b, cached, missing, down) ==
    /\ start = t.start /\ end = t.end /\ start < end
    /\ cached = t.cached /\ missing = t.missing /\ down = t.downloaded
    /\ First(missing) = <<a, b>> /\ <<a, b>> \in missing
    /\ (\A q \in missing : a <= q[1]) /\ start <= a /\ b <= end
    /\ Left(start, end, TimesOf(cached), missing)
    /\ OnePerTime(cached) /\ TimesOf(cached) \in SUBSET (start..(end - 1))
    /\ Sound(cached) /\ t.clean
    /\ RowsInOrder(down, a) /\ t.cursor = a + Len(down) /\ a + Len(down) < b

LEMMA Downloading ==
  ASSUME StoreInv, CleanInv, glitches = 0, NEW w \in Workers, task[w].at = "fetch"
  PROVE  \E start, end, a, b \in Nat, cached \in SUBSET Candle,
             missing \in SUBSET (Nat \X Nat), down \in Seq(Candle) :
           Loading(task[w], start, end, a, b, cached, missing, down)
  <1> DEFINE t == task[w]
  <1>1. /\ t \in Request /\ RequestFits(t) /\ Orderly(t) /\ t.at = "fetch"
        /\ t.missing # {} /\ <<t.start, t.end>> \in Ranges
    BY DEF StoreInv, CleanInv, TypeOK
  <1> HIDE DEF t
  <1>2. PICK start \in Nat, end \in Nat : start = t.start /\ end = t.end /\ start < end
    BY <1>1 DEF Request
  <1>3. /\ t.missing \in SUBSET (Nat \X Nat) /\ t.cached \in SUBSET Candle
        /\ t.downloaded \in Seq(Candle)
    BY <1>1 DEF Request
  <1>4. First(t.missing) \in t.missing /\ \A q \in t.missing : First(t.missing)[1] <= q[1]
    BY <1>1, <1>3, FirstIsLeast
  <1>5. PICK a \in Nat, b \in Nat : First(t.missing) = <<a, b>>
    BY <1>3, <1>4
  <1>6. RangesLeft(t) /\ DownloadFits(t) /\ t.clean /\ Sound(t.cached)
    BY <1>1 DEF Orderly
  <1>7. Left(start, end, TimesOf(t.cached), t.missing)
    BY <1>2, <1>6 DEF RangesLeft, Left
  <1>8. start <= a /\ b <= end
    BY <1>4, <1>5, <1>7 DEF Left
  <1>9. RowsInOrder(t.downloaded, a) /\ t.cursor = a + Len(t.downloaded) /\ t.cursor < b
    BY <1>5, <1>6 DEF DownloadFits
  <1>10. OnePerTime(t.cached) /\ TimesOf(t.cached) \in SUBSET (start..(end - 1))
    BY <1>1, <1>2 DEF RequestFits
  <1>11. \A q \in t.missing : a <= q[1]
    BY <1>4, <1>5
  <1>12. <<a, b>> \in t.missing
    BY <1>4, <1>5
  <1>13. Loading(t, start, end, a, b, t.cached, t.missing, t.downloaded)
    BY <1>2, <1>5, <1>6, <1>7, <1>8, <1>9, <1>10, <1>11, <1>12 DEF Loading
  <1> QED
    BY <1>3, <1>13 DEF t

(* A right page that is not the last of its range.                         *)
LEMMA PageClean ==
  ASSUME StoreInv, CleanInv, NEW w \in Workers, task[w].at = "fetch",
         ReceivePage(w, Page(task[w].cursor, First(task[w].missing)[2])),
         UNCHANGED <<datasets, clock, glitches>>
  PROVE  CleanInv'
  <1>1. /\ TypeOK /\ task[w] \in Request /\ task \in [Workers -> Request]
        /\ clock \in 0..MaxClock
    BY DEF StoreInv, TypeOK
  <1>2. SUFFICES ASSUME glitches = 0 PROVE CleanInv'
    BY DEF CleanInv
  <1>3. PICK start, end, a, b \in Nat, cached \in SUBSET Candle,
             missing \in SUBSET (Nat \X Nat), rows \in Seq(Candle) :
           Loading(task[w], start, end, a, b, cached, missing, rows)
    BY <1>2, Downloading
  <1>4. PICK cursor \in Nat :
           /\ missing = task[w].missing /\ rows = task[w].downloaded /\ cursor = task[w].cursor
           /\ First(missing)[1] = a /\ First(missing)[2] = b /\ RowsInOrder(rows, a)
           /\ cursor = a + Len(rows) /\ a + Len(rows) < b
    BY <1>3, LenProperties DEF Loading
  <1>5. PICK page : page = Page(cursor, b)
    OBVIOUS
  <1>6. page \in Seq(Candle)
    BY <1>1, <1>5, PageRows
  <1>7. Len(page) >= PageLimit /\ NextCursor(page) < b
    BY <1>3, <1>4, <1>5 DEF ReceivePage, MorePages
  <1>8. page # <<>>
    BY <1>7, EmptySeq
  <1>9. NextCursor(page) = cursor + Len(page)
    BY <1>1, <1>5, <1>8, NextCursorOfPage
  <1>10. /\ rows \o page \in Seq(Candle) /\ RowsInOrder(rows \o page, a)
         /\ Len(rows \o page) = Len(rows) + Len(page)
    <2>1. RowsInOrder(rows, a) /\ a + Len(rows) < b /\ page = Page(a + Len(rows), b)
      BY <1>4, <1>5
    <2> QED
      BY <1>1, <2>1, RowsThenPage
  <1>11. Len(rows) \in Nat /\ Len(page) \in Nat
    BY <1>6, LenProperties
  <1> DEFINE t == [task[w] EXCEPT !.downloaded = rows \o page, !.attempt = 0,
                                  !.cursor = NextCursor(page)]
  <1>12. task' = [task EXCEPT ![w] = t]
    <2>1. task' = [task EXCEPT ![w].downloaded = @ \o page, ![w].attempt = 0,
                               ![w].cursor = NextCursor(page)]
      BY <1>3, <1>4, <1>5 DEF ReceivePage
    <2> QED
      BY <1>1, <1>4, <2>1 DEF Request
  <1>13. NextCursor(page) \in Nat /\ 0 \in 0..(MaxAttempts - 1)
    BY <1>9, <1>11
  <1>14. /\ t \in Request /\ t.at = task[w].at /\ t.start = task[w].start
         /\ t.end = task[w].end /\ t.cached = task[w].cached /\ t.missing = task[w].missing
         /\ t.clean = task[w].clean /\ t.downloaded = rows \o page /\ t.cursor = NextCursor(page)
    BY <1>1, <1>10, <1>13 DEF Request
  <1> HIDE DEF t
  <1>15. Orderly(task[w])
    BY <1>2 DEF CleanInv
  <1>16. DownloadFits(t)
    BY <1>4, <1>7, <1>9, <1>10, <1>11, <1>14, SMTT(30) DEF DownloadFits
  <1>17. Orderly(t)
    BY <1>14, <1>15, <1>16 DEF Orderly, RangesLeft
  <1> QED
    BY <1>1, <1>12, <1>14, <1>17, TaskClean

(* The last right page of a range: it reaches the end of the range, or as  *)
(* far as candles have formed.                                             *)
LEMMA LastPage ==
  ASSUME NEW cursor \in Nat, NEW b \in Nat, clock \in 0..MaxClock,
         ~MorePages(Page(cursor, b), b)
  PROVE  LET n == Len(Page(cursor, b)) IN cursor + n >= b \/ cursor + n > clock
  <1>1. PICK page : page = Page(cursor, b)
    OBVIOUS
  <1>2. /\ page \in Seq(Candle)
        /\ Len(page) = PageLimit \/ cursor + Len(page) >= b \/ cursor + Len(page) > clock
    BY <1>1, PageRows
  <1>3. CASE Len(page) = PageLimit
    <2>1. page # <<>>
      BY <1>3, EmptySeq
    <2>2. NextCursor(page) = cursor + Len(page)
      BY <1>1, <2>1, NextCursorOfPage
    <2>3. Len(page) \in Nat /\ ~(NextCursor(page) < b)
      BY <1>1, <1>3 DEF MorePages
    <2> QED
      BY <1>1, <2>2, <2>3
  <1> QED
    BY <1>1, <1>2, <1>3

LEMMA RangeClean ==
  ASSUME StoreInv, CleanInv, NEW w \in Workers, task[w].at = "fetch",
         ReceiveRange(w, Page(task[w].cursor, First(task[w].missing)[2])),
         UNCHANGED <<datasets, clock, glitches>>
  PROVE  CleanInv'
  <1>1. TypeOK /\ task[w] \in Request /\ clock \in 0..MaxClock
    BY DEF StoreInv, TypeOK
  <1>2. SUFFICES ASSUME glitches = 0 PROVE CleanInv'
    BY DEF CleanInv
  <1>3. PICK start, end, a, b \in Nat, cached \in SUBSET Candle,
             missing \in SUBSET (Nat \X Nat), down \in Seq(Candle) :
           Loading(task[w], start, end, a, b, cached, missing, down)
    BY <1>2, Downloading
  <1>4. PICK cursor \in Nat : cursor = a + Len(down) /\ cursor = task[w].cursor
    BY <1>3, LenProperties, SMTT(30) DEF Loading
  <1>5. PICK page : page = Page(cursor, b)
    OBVIOUS
  <1> DEFINE rows == down \o page
             merged == Merged(cached, rows, start, end)
             rest == missing \ {<<a, b>>}
             n == Len(rows)
             u == [task[w] EXCEPT !.cached = merged, !.clean = @ /\ Issueless(rows),
                                  !.downloaded = <<>>, !.attempt = 0]
  <1>6. task' = [task EXCEPT ![w] = Onward(u, rest)] /\ ~MorePages(page, b)
    <2>1. First(task[w].missing)[2] = b
      BY <1>3 DEF Loading
    <2> QED
      BY <1>3, <1>4, <1>5, <2>1 DEF ReceiveRange, Loading
  <1>7. /\ rows \in Seq(Candle) /\ RowsInOrder(rows, a) /\ n = Len(down) + Len(page)
        /\ \A i \in 1..n : rows[i].time < b
    <2>1. RowsInOrder(down, a) /\ a + Len(down) < b
      BY <1>3 DEF Loading
    <2> QED
      BY <1>1, <1>4, <1>5, <2>1, RowsThenPage, SMTT(60)
  <1>8. page \in Seq(Candle)
    BY <1>1, <1>4, <1>5, PageRows
  <1>9. Len(down) \in Nat /\ Len(page) \in Nat /\ n \in Nat /\ cursor = a + Len(down)
    BY <1>4, <1>5, <1>7, <1>8, LenProperties
  <1>10. cursor + Len(page) >= b \/ cursor + Len(page) > clock
    BY <1>1, <1>4, <1>5, <1>6, LastPage
  <1> HIDE DEF rows, n
  <1>11. Issueless(rows) /\ \A t : (\E i \in 1..n : rows[i].time = t) <=> t \in a..(a + n - 1)
    BY <1>7, OrderlyRows DEF n
  <1>12. /\ merged \in SUBSET Candle /\ OnePerTime(merged)
         /\ TimesOf(merged) \subseteq start..(end - 1)
         /\ \A c \in merged : c \in cached \/ \E i \in 1..n : c = rows[i]
         /\ \A t : t \in TimesOf(merged) <=>
              \/ t \in TimesOf(cached)
              \/ t \in start..(end - 1) /\ \E i \in 1..n : rows[i].time = t
    <2>1. OnePerTime(cached) /\ TimesOf(cached) \subseteq start..(end - 1)
      BY <1>3 DEF Loading
    <2> QED
      BY <1>7, <2>1, MergedShape, SMTT(60) DEF n
  <1> HIDE DEF merged
  <1>13. a + n <= b
    <2>1. CASE n = 0
      BY <1>3, <1>9, <2>1 DEF Loading, Left
    <2>2. CASE n # 0
      <3>1. n \in 1..n
        BY <1>9, <2>2
      <3>2. rows[n].time = a + n - 1 /\ rows[n].time < b
        BY <1>7, <3>1 DEF RowsInOrder, n
      <3> QED
        BY <1>9, <3>2
    <2> QED
      BY <2>1, <2>2
  <1>14. TimesOf(merged) = TimesOf(cached) \cup a..(a + n - 1)
    <2>1. \A t : t \in a..(a + n - 1) => t \in start..(end - 1)
      BY <1>3, <1>9, <1>13 DEF Loading
    <2> QED
      BY <1>11, <1>12, <2>1
  <1>15. Sound(merged)
    BY <1>3, <1>7, <1>12, SMTT(30) DEF Loading, Sound, RowsInOrder, n
  <1>16. /\ u \in Request /\ u.cached = merged /\ u.start = start /\ u.end = end
         /\ u.clean /\ u.downloaded = <<>>
    <2>1. <<>> \in Seq(Candle) /\ 0 \in 0..(MaxAttempts - 1) /\ (task[w].clean /\ Issueless(rows)) = TRUE
      BY <1>3, <1>11, EmptySeq DEF Loading
    <2>2. start = task[w].start /\ end = task[w].end
      BY <1>3 DEF Loading
    <2> QED
      BY <1>1, <1>12, <2>1, <2>2 DEF Request
  <1>17. rest \in SUBSET (Nat \X Nat)
    OBVIOUS
  <1>18. \A i \in TimesOf(cached) : i <= clock
    BY <1>3 DEF Loading, Sound, TimesOf
  <1>19. \/ Left(start, end, TimesOf(merged), rest)
         \/ rest = {} /\ Prefix(merged, start, end)
    <2>1. CASE a + n = b
      <3>1. Left(start, end, TimesOf(cached) \cup a..(b - 1), rest)
        BY <1>3, RangeFilled DEF Loading
      <3>2. a + n - 1 = b - 1
        BY <1>9, <2>1
      <3>3. TimesOf(merged) = TimesOf(cached) \cup a..(b - 1)
        BY <1>14, <3>2
      <3> HIDE DEF rest
      <3> QED
        BY <3>1, <3>3
    <2>2. CASE clock < a + n /\ a + n < b
      <3>1. /\ missing \ {<<a, b>>} = {} /\ a + n \in start..end
            /\ TimesOf(cached) \cup a..(a + n - 1) = start..(a + n - 1)
        <4>1. clock \in Nat
          BY <1>1
        <4>2. PICK times \in SUBSET (start..(end - 1)) : times = TimesOf(cached)
          BY <1>3 DEF Loading
        <4>3. /\ <<a, b>> \in missing /\ Left(start, end, times, missing)
              /\ \A q \in missing : a <= q[1]
          BY <1>3, <4>2 DEF Loading
        <4>4. b \notin times
          BY <1>9, <1>18, <2>2, <4>1, <4>2
        <4>5. /\ missing \ {<<a, b>>} = {} /\ b = end /\ start <= a
              /\ \A i \in start..(end - 1) : i \in times <=> i < a
          BY <4>3, <4>4, RangeCut
        <4>6. times = start..(a - 1)
          <5>1. a < end
            BY <1>9, <2>2, <4>5
          <5>2. \A i \in times : i \in start..(end - 1)
            OBVIOUS
          <5>3. \A i \in start..(a - 1) : i \in start..(end - 1) /\ i < a
            BY <5>1
          <5>4. ASSUME NEW i PROVE i \in times <=> i \in start..(a - 1)
            <6>1. ASSUME i \in times PROVE i \in start..(a - 1)
              <7>1. i \in start..(end - 1) /\ i < a
                BY <4>5, <5>2, <6>1
              <7> QED
                BY <7>1
            <6>2. ASSUME i \in start..(a - 1) PROVE i \in times
              BY <4>5, <5>3, <6>2
            <6> QED
              BY <6>1, <6>2
          <5> QED
            BY <5>4
        <4> QED
          BY <1>9, <2>2, <4>2, <4>5, <4>6
      <3>2. PICK m \in start..end : m = a + n
        BY <3>1
      <3>3. TimesOf(merged) = start..(m - 1)
        BY <1>9, <1>14, <3>1, <3>2
      <3>4. rest = {} /\ Prefix(merged, start, end)
        BY <3>1, <3>3 DEF Prefix
      <3> QED
        BY <3>4
    <2>3. a + n = b \/ (clock < a + n /\ a + n < b)
      <3>1. clock \in Nat /\ a + n = cursor + Len(page)
        BY <1>1, <1>7, <1>9
      <3> QED
        BY <1>9, <1>10, <1>13, <3>1
    <2> QED
      BY <2>1, <2>2, <2>3
  <1> HIDE DEF u, rest
  <1>20. Orderly(Onward(u, rest)) /\ Onward(u, rest) \in Request
    <2>1. start < end
      BY <1>3 DEF Loading
    <2> QED
      BY <1>12, <1>15, <1>16, <1>17, <1>19, <2>1, OnwardOrderly, OnwardShape
  <1> QED
    BY <1>1, <1>6, <1>20, TaskClean

(* Of a wrong page nothing is claimed. *)
LEMMA FetchClean ==
  ASSUME StoreInv, CleanInv, NEW w \in Workers, FetchPage(w) \/ GlitchPage(w) PROVE CleanInv'
  <1>1. CASE FetchPage(w)
    <2>1. task[w].at = "fetch" /\ UNCHANGED <<datasets, clock, glitches>>
      BY <1>1 DEF FetchPage
    <2> QED
      BY <1>1, <2>1, PageClean, RangeClean DEF FetchPage, Receive
  <1>2. CASE GlitchPage(w)
    <2>1. glitches' = glitches + 1 /\ glitches \in Nat
      BY <1>2 DEF GlitchPage, StoreInv, TypeOK
    <2> QED
      BY <2>1 DEF CleanInv
  <1> QED
    BY <1>1, <1>2

(* Requests that end. *)
LEMMA EndClean ==
  ASSUME TypeOK, CleanInv, NEW w \in Workers,
         GiveUp(w) \/ Answer(w) \/ Reject(w) \/ TooShort(w) \/ Save(w)
  PROVE  CleanInv'
  <1>1. Leave(w) /\ UNCHANGED <<datasets, clock, glitches>>
    BY DEF GiveUp, Answer, Reject, TooShort, Save
  <1> QED
    BY <1>1, LeaveClean

(* Candles only ever become final as time passes. *)
LEMMA TickClean == ASSUME TypeOK, CleanInv, Tick PROVE CleanInv'
  <1>1. /\ clock' = clock + 1 /\ clock \in Nat /\ UNCHANGED <<datasets, task, glitches>>
        /\ datasets \subseteq Dataset /\ task \in [Workers -> Request]
    BY DEF TypeOK, Tick
  <1>2. ASSUME NEW candles \in SUBSET Candle, Sound(candles) PROVE Sound(candles)'
    <2>1. \A c \in candles : c.time \in Nat
      BY DEF Candle
    <2> QED
      BY <1>1, <1>2, <2>1 DEF Sound
  <1>3. ASSUME NEW rows \in Seq(Candle), NEW first, RowsInOrder(rows, first)
        PROVE  RowsInOrder(rows, first)'
    <2>1. \A i \in 1..Len(rows) : rows[i].time \in Nat
      <3>1. \A c \in Candle : c.time \in Nat
        BY DEF Candle
      <3>2. \A i \in 1..Len(rows) : rows[i] \in Candle
        BY ElementOfSeq
      <3> QED
        BY <3>1, <3>2
    <2> QED
      BY <1>1, <1>3, <2>1 DEF RowsInOrder
  <1> SUFFICES ASSUME glitches = 0
               PROVE  /\ \A d \in datasets : /\ Sound(d.print)' /\ Prefix(d.print, d.start, d.end)
                                             /\ d.valid <=> Complete(d)
                      /\ \A v \in Workers : Orderly(task[v])'
    BY <1>1 DEF CleanInv, Prefix, Complete
  <1>4. \A d \in datasets : d.print \in SUBSET Candle
    BY <1>1 DEF Dataset
  <1>5. \A d \in datasets : /\ Sound(d.print)' /\ Prefix(d.print, d.start, d.end)
                            /\ d.valid <=> Complete(d)
    BY <1>2, <1>4 DEF CleanInv
  <1>6. ASSUME NEW v \in Workers PROVE Orderly(task[v])'
    <2>1. PICK u \in Request : u = task[v] /\ u = task'[v]
      BY <1>1
    <2>2. Orderly(u) /\ u.cached \in SUBSET Candle /\ u.downloaded \in Seq(Candle)
      BY <2>1 DEF CleanInv, Request
    <2>3. Sound(u.cached)'
      BY <1>2, <2>2 DEF Orderly
    <2>4. RangesLeft(u) => RangesLeft(u)'
      BY DEF RangesLeft
    <2>5. DownloadFits(u) => DownloadFits(u)'
      BY <1>3, <2>2 DEF DownloadFits
    <2>6. Orderly(u)'
      BY <2>2, <2>3, <2>4, <2>5 DEF Orderly
    <2> QED
      BY <2>1, <2>6 DEF Orderly, Sound, RangesLeft, DownloadFits, RowsInOrder, Prefix
  <1> QED
    BY <1>5, <1>6

(* Steps that leave the requests alone. *)
LEMMA IdleClean ==
  ASSUME CleanInv, datasets' \subseteq datasets, UNCHANGED <<task, clock, glitches>>
  PROVE  CleanInv'
  BY DEF CleanInv, Orderly, Sound, RangesLeft, DownloadFits, RowsInOrder, Prefix

LEMMA NextClean == ASSUME StoreInv, CleanInv, [Next]_vars PROVE CleanInv'
  <1>1. TypeOK
    BY DEF StoreInv
  <1>2. CASE UNCHANGED vars \/ Quiet
    BY <1>2, IdleClean DEF vars, Quiet
  <1>3. CASE Tick
    BY <1>1, <1>3, TickClean
  <1>4. CASE \E d \in datasets : Delete(d)
    BY <1>4, IdleClean DEF Delete
  <1>5. ASSUME NEW w \in Workers, NEW r \in Ranges, Begin(w, r) PROVE CleanInv'
    BY <1>1, <1>5, BeginClean
  <1>6. ASSUME NEW w \in Workers, Serve(w) PROVE CleanInv'
    <2>1. CASE Covering(w) \/ Existing(w) \/ Conflict(w)
      BY <1>1, <2>1, SearchClean
    <2>2. CASE Cached(w)
      BY <2>2, CachedClean
    <2>3. CASE FetchPage(w) \/ GlitchPage(w)
      BY <2>3, FetchClean
    <2>4. CASE Retry(w)
      BY <1>1, <2>4, RetryClean
    <2>5. CASE GiveUp(w) \/ Answer(w) \/ Reject(w) \/ TooShort(w) \/ Save(w)
      BY <1>1, <2>5, EndClean
    <2>6. CASE Commit(w)
      BY <2>6, CommitClean
    <2>7. CASE Read(w)
      BY <2>7, ReadClean
    <2> QED
      BY <1>6, <2>1, <2>2, <2>3, <2>4, <2>5, <2>6, <2>7 DEF Serve
  <1> QED
    BY <1>2, <1>3, <1>4, <1>5, <1>6 DEF Next

(* The whole inductive invariant: what holds whatever the exchange         *)
(* answers, and what holds besides as long as it answers correctly.        *)
THEOREM InductiveInvariant == Spec => []IInv
  <1>1. Init => IInv
    BY InitStore, InitClean DEF IInv
  <1>2. IInv /\ [Next]_vars => IInv'
    BY NextStore, NextClean DEF IInv
  <1> QED
    BY <1>1, <1>2, PTL DEF Spec

(* While the exchange answers correctly a dataset ends early only because  *)
(* its range had not formed yet, and is marked valid just when it is       *)
(* complete, whoever stored or deleted what in the meantime                *)
(* (market/repository.py:82-147, market/binance_client.py:80-130).         *)
THEOREM CorrectAnswersLeaveNoGapsHolds == Spec => []CorrectAnswersLeaveNoGaps
  <1>1. IInv => CorrectAnswersLeaveNoGaps
    BY DEF IInv, CleanInv, CorrectAnswersLeaveNoGaps, Prefix
  <1> QED
    BY <1>1, InductiveInvariant, PTL

==============================================================================
