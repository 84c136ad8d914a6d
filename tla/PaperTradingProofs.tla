-------------------------- MODULE PaperTradingProofs --------------------------
(***************************************************************************)
(* That the supervisor's checkpoints hand every strategy each candle once  *)
(* and in order, for any number of sessions, feeds, strategies, candles,   *)
(* stop requests, crashes and failures.  The invariant is IInv.            *)
(***************************************************************************)
EXTENDS PaperTrading, DataLemmas, TLAPS

-----------------------------------------------------------------------------
(* The inductive invariant behind the proofs. *)

Reading == at \in {"candle", "strategy", "commit"}

(* The candle in hand may still be committed. *)
Live == status[session] = "active" \/ at = "commit"

(* Where the supervisor is in its loops. *)
CycleShape ==
    /\ at = "feeds" \/ Reading =>
         session \in Sessions /\ status[session] # "absent" /\ feedsLeft \subseteq Followed(session)
    /\ Reading => feed \in Followed(session) /\ candle \in 1..now
    /\ ~Reading => feed = None

(* A session that was never started is nowhere. *)
AbsentUntouched ==
    \A s \in Sessions : status[s] = "absent" =>
        /\ processed[s] = {} /\ s \notin queue
        /\ \A r \in Stoppers : s \notin stopping[r]

OnlyFollowed == \A s \in Sessions : \A p \in processed[s] : p[2] \in Subs[s][p[1]]

(* What is in memory is the row, but for the candle about to be committed.  *)
StateFollowsRow ==
    /\ at = "strategy" /\ Live => state = snapshot[session]
    /\ at = "commit" =>
         Concerned /\ state = [snapshot[session] EXCEPT ![<<Kind, feed>>] = Append(@, candle)]

(* The candle in hand is the newest of its feed, and follows the last one;  *)
(* the strategies before the current one have it.                           *)
CandleIsNext ==
    Reading =>
        /\ \A t \in Times(session, feed) : t < candle \/ (t = candle /\ at # "candle")
        /\ Live => Times(session, feed) = {} \/ {candle - 1, candle} \cap Times(session, feed) # {}
        /\ at # "candle" /\ Live =>
             \A i \in 1..(strategy - 1) : feed \in Subs[session][StrategyOrder[i]] =>
                 <<StrategyOrder[i], feed, candle>> \in processed[session]

(* The commit that came after a stop is over. *)
LateOnce ==
    \A s \in Sessions : late[s] # 0 =>
        status[s] = "stopped" /\ ~(at = "commit" /\ session = s)

IInv ==
    /\ TypeOK /\ CycleShape /\ AbsentUntouched /\ StateFollowsRow /\ CandleIsNext
    /\ LateOnce /\ EachCandleOnce /\ OnlyFollowed /\ LossBounded

-----------------------------------------------------------------------------
(* The data the actions work on. *)

LEMMA StrategiesListed ==
  /\ Len(StrategyOrder) \in Nat \ {0}
  /\ \A i \in 1..Len(StrategyOrder) : StrategyOrder[i] \in Strategies
  /\ \A k \in Strategies : \E i \in 1..Len(StrategyOrder) : k = StrategyOrder[i]
  /\ \A i, j \in 1..Len(StrategyOrder) : StrategyOrder[i] = StrategyOrder[j] => i = j
  BY PaperTradingAssumption DEF Strategies, ToSet, IsInjective

LEMMA FollowedFeeds ==
  \A s \in Sessions : Followed(s) \subseteq Feeds
  BY PaperTradingAssumption DEF Followed

LEMMA FreshType == Fresh \in [Streams -> Seq(1..MaxClock)]
  BY DEF Fresh

LEMMA Beginnings ==
  /\ 1 \in 1..(Len(StrategyOrder) + 1) /\ 0 \in 0..MaxClock /\ 0 \in 0..(MaxClock + 1)
  /\ 0 \in 0..MaxCrashes /\ 0 \in 0..MaxFaults
  BY StrategiesListed, PaperTradingAssumption

LEMMA TimesType ==
  ASSUME TypeOK, NEW s \in Sessions, NEW f
  PROVE  Times(s, f) \subseteq 1..MaxClock
  BY DEF TypeOK, Times

(* latest_processed answers the newest time, or 0 when there is none. *)
LEMMA LatestIsNewest ==
  ASSUME TypeOK, NEW s \in Sessions, NEW f
  PROVE  /\ Latest(s, f) \in 0..MaxClock
         /\ \A t \in Times(s, f) : t <= Latest(s, f)
         /\ (Times(s, f) = {} /\ Latest(s, f) = 0) \/ Latest(s, f) \in Times(s, f)
  <1>1. Times(s, f) \subseteq 1..MaxClock
    BY TimesType
  <1>2. CASE Times(s, f) = {}
    BY <1>1, <1>2, PaperTradingAssumption DEF Latest
  <1>3. CASE Times(s, f) # {}
    <2>0. MaxClock \in Nat /\ Times(s, f) \in SUBSET (0..MaxClock)
      BY <1>1, PaperTradingAssumption
    <2>1. \E n \in Times(s, f) : \A m \in Times(s, f) : n >= m
      BY <2>0, <1>3, GreatestOfNat
    <2>2. /\ Max(Times(s, f)) \in Times(s, f)
          /\ \A m \in Times(s, f) : Max(Times(s, f)) >= m
      BY <2>1 DEF Max
    <2> QED
      BY <1>1, <1>3, <2>2 DEF Latest
  <1> QED
    BY <1>2, <1>3

LEMMA FirstDueType ==
  ASSUME TypeOK, NEW s \in Sessions, NEW f
  PROVE  /\ FirstDue(s, f) \in Nat \ {0}
         /\ \A t \in Times(s, f) : t < FirstDue(s, f)
         /\ Times(s, f) = {} \/ FirstDue(s, f) - 1 \in Times(s, f)
  <1>1. now \in Nat /\ Times(s, f) \subseteq 1..MaxClock
    BY TimesType DEF TypeOK
  <1> QED
    BY <1>1, LatestIsNewest, PaperTradingAssumption DEF FirstDue

-----------------------------------------------------------------------------
(* Everything but the bound on losses, which is proved from it below.      *)
Core ==
    /\ TypeOK /\ CycleShape /\ AbsentUntouched /\ StateFollowsRow /\ CandleIsNext
    /\ LateOnce /\ EachCandleOnce

LEMMA InitCore == Init => Core
  <1> SUFFICES ASSUME Init PROVE Core
    OBVIOUS
  <1>1. TypeOK
    <2>1. snapshot \in [Sessions -> [Streams -> Seq(1..MaxClock)]]
      BY FreshType DEF Init
    <2>2. order \in Seq(Sessions) /\ state \in [Streams -> Seq(1..MaxClock)]
      BY FreshType DEF Init
    <2>3. /\ processed \in [Sessions -> SUBSET (Strategies \X Feeds \X (1..MaxClock))]
          /\ stopping \in [Stoppers -> SUBSET Sessions] /\ late \in [Sessions -> 0..2]
      BY DEF Init
    <2>4. /\ status \in [Sessions -> {"absent", "active", "stopped"}]
          /\ connection \in [Sessions -> {"starting", "connected", "disconnected"}]
      BY DEF Init
    <2> QED
      BY <2>1, <2>2, <2>3, <2>4, Beginnings DEF Init, TypeOK
  <1>2. EachCandleOnce
    BY DEF Init, EachCandleOnce, Fresh, Streams, ToSet
  <1>3. CycleShape /\ AbsentUntouched /\ StateFollowsRow /\ CandleIsNext /\ LateOnce
    BY DEF Init, CycleShape, AbsentUntouched, StateFollowsRow, CandleIsNext, LateOnce, Reading
  <1> QED
    BY <1>1, <1>2, <1>3 DEF Core

(* A step outside the supervisor that does not bring a session back.       *)
LEMMA CandleKept ==
  ASSUME Core, UNCHANGED <<snapshot, processed, polling>>, Reading /\ Live' => Live
  PROVE  StateFollowsRow' /\ CandleIsNext' /\ EachCandleOnce'
  <1>1. StateFollowsRow'
    BY DEF Core, polling, StateFollowsRow, Reading, Live, Kind, Identity, Concerned
  <1>2. CandleIsNext'
    BY DEF Core, polling, CandleIsNext, Reading, Live, Times
  <1>3. EachCandleOnce'
    BY DEF Core, EachCandleOnce
  <1> QED
    BY <1>1, <1>2, <1>3

LEMMA TickCore == ASSUME Core, Tick PROVE Core'
  <1>1. TypeOK'
    BY PaperTradingAssumption DEF Core, TypeOK, Tick, tables, polling, bounds
  <1>2. StateFollowsRow' /\ CandleIsNext' /\ EachCandleOnce'
    BY CandleKept DEF Tick, tables, polling, Live
  <1> QED
    BY <1>1, <1>2 DEF Core, Tick, tables, polling, CycleShape, AbsentUntouched, LateOnce,
       Reading

LEMMA StartCore == ASSUME Core, NEW s \in Sessions, Start(s) PROVE Core'
  <1>1. TypeOK'
    BY DEF Core, TypeOK, Start, polling, bounds
  <1>2. CycleShape'
    BY DEF Core, TypeOK, Start, polling, CycleShape, Reading
  <1>3. Reading /\ Live' => Live
    BY DEF Core, TypeOK, CycleShape, Start, polling, Live, Reading
  <1>4. StateFollowsRow' /\ CandleIsNext' /\ EachCandleOnce'
    BY <1>3, CandleKept DEF Start
  <1>5. AbsentUntouched' /\ LateOnce'
    BY DEF Core, TypeOK, Start, polling, AbsentUntouched, LateOnce
  <1> QED
    BY <1>1, <1>2, <1>4, <1>5 DEF Core

LEMMA ReadStopCore ==
  ASSUME Core, NEW r \in Stoppers, NEW ids \in SUBSET Sessions, ReadStop(r, ids)
  PROVE  Core'
  <1>1. TypeOK'
    BY DEF Core, TypeOK, ReadStop, tables, polling, bounds
  <1>2. AbsentUntouched'
    BY DEF Core, TypeOK, ReadStop, tables, polling, AbsentUntouched
  <1>3. StateFollowsRow' /\ CandleIsNext' /\ EachCandleOnce'
    BY CandleKept DEF ReadStop, tables, polling, Live
  <1> QED
    BY <1>1, <1>2, <1>3 DEF Core, ReadStop, tables, polling, CycleShape, LateOnce, Reading

LEMMA WriteStopCore ==
  ASSUME Core, NEW r \in Stoppers, NEW s \in Sessions, WriteStop(r, s)
  PROVE  Core'
  <1>1. TypeOK'
    BY DEF Core, TypeOK, WriteStop, polling, bounds
  <1>2. AbsentUntouched'
    BY DEF Core, TypeOK, WriteStop, polling, AbsentUntouched
  <1>3. CycleShape'
    BY DEF Core, TypeOK, WriteStop, polling, CycleShape, Reading
  <1>4. Live' => Live
    BY DEF Core, TypeOK, WriteStop, polling, Live
  <1>5. StateFollowsRow' /\ CandleIsNext' /\ EachCandleOnce'
    BY <1>4, CandleKept DEF WriteStop
  <1>6. LateOnce'
    BY DEF Core, TypeOK, WriteStop, polling, LateOnce
  <1> QED
    BY <1>1, <1>2, <1>3, <1>5, <1>6 DEF Core

-----------------------------------------------------------------------------
(* The supervisor between candles. *)

LEMMA PollBeginsCore == ASSUME Core, PollBegins PROVE Core'
  <1>1. TypeOK'
    BY DEF Core, TypeOK, PollBegins, tables, bounds
  <1>2. EachCandleOnce'
    BY DEF Core, EachCandleOnce, PollBegins, tables
  <1> QED
    BY <1>1, <1>2 DEF Core, PollBegins, tables, CycleShape, AbsentUntouched, StateFollowsRow,
       CandleIsNext, LateOnce, Reading

LEMMA NextSessionCore == ASSUME Core, NextSession PROVE Core'
  <1>1. PICK s \in Sessions : s \in queue /\ session' = s /\ queue' = queue \ {s}
                            /\ feedsLeft' = Followed(s)
    BY DEF Core, TypeOK, NextSession
  <1>2. TypeOK'
    BY <1>1, FollowedFeeds DEF Core, TypeOK, NextSession, tables, bounds
  <1>3. CycleShape'
    BY <1>1 DEF Core, AbsentUntouched, CycleShape, Reading, NextSession, tables, Followed
  <1>4. EachCandleOnce'
    BY DEF Core, EachCandleOnce, NextSession, tables
  <1>5. AbsentUntouched'
    BY <1>1 DEF Core, NextSession, tables, AbsentUntouched
  <1> QED
    BY <1>2, <1>3, <1>4, <1>5 DEF Core, NextSession, tables, StateFollowsRow, CandleIsNext,
       LateOnce, Reading

(* However a cycle ends, its local variables are gone. *)
LEMMA CycleOver ==
  ASSUME Core, LeaveCycle, UNCHANGED <<tables, clock, late>>, at' \in {"asleep", "down"},
         stopping' = stopping \/ stopping' = [r \in Stoppers |-> {}],
         crashes' \in 0..MaxCrashes, faults' \in 0..MaxFaults
  PROVE  Core'
  <1>1. TypeOK'
    BY FreshType, Beginnings DEF Core, TypeOK, LeaveCycle, LeaveCandle, tables
  <1>2. EachCandleOnce'
    BY DEF Core, EachCandleOnce, tables
  <1> QED
    BY <1>1, <1>2 DEF Core, LeaveCycle, tables, CycleShape, AbsentUntouched, StateFollowsRow,
       CandleIsNext, LateOnce, Reading

LEMMA PollEndsCore == ASSUME Core, PollEnds PROVE Core'
  BY CycleOver DEF Core, TypeOK, PollEnds, bounds

LEMMA FetchBrokenCore == ASSUME Core, NEW f \in Feeds, FetchBroken(f) PROVE Core'
  BY CycleOver DEF Core, TypeOK, FetchBroken, AbortCycle

LEMMA TransientFaultCore == ASSUME Core, TransientFault PROVE Core'
  <1>1. faults' \in 0..MaxFaults
    BY PaperTradingAssumption DEF Core, TypeOK, TransientFault
  <1> QED
    BY <1>1, CycleOver DEF Core, TypeOK, TransientFault, AbortCycle

LEMMA CrashCore == ASSUME Core, Crash PROVE Core'
  <1>1. crashes' \in 0..MaxCrashes
    BY PaperTradingAssumption DEF Core, TypeOK, Crash
  <1> QED
    BY <1>1, CycleOver DEF Core, TypeOK, Crash

LEMMA RestartCore == ASSUME Core, Restart PROVE Core'
  <1>1. TypeOK'
    BY DEF Core, TypeOK, Restart, tables, bounds
  <1>2. EachCandleOnce'
    BY DEF Core, EachCandleOnce, Restart, tables
  <1> QED
    BY <1>1, <1>2 DEF Core, Restart, tables, CycleShape, AbsentUntouched, StateFollowsRow,
       CandleIsNext, LateOnce, Reading

LEMMA SessionDoneCore == ASSUME Core, SessionDone PROVE Core'
  <1>1. TypeOK'
    BY DEF Core, TypeOK, SessionDone, tables, bounds
  <1>2. EachCandleOnce'
    BY DEF Core, EachCandleOnce, SessionDone, tables
  <1> QED
    BY <1>1, <1>2 DEF Core, SessionDone, tables, CycleShape, AbsentUntouched, StateFollowsRow,
       CandleIsNext, LateOnce, Reading

LEMMA FetchFeedCore == ASSUME Core, NEW f \in Feeds, FetchFeed(f) PROVE Core'
  <1>1. session \in Sessions /\ status[session] # "absent" /\ feedsLeft \subseteq Followed(session)
    BY DEF Core, CycleShape, FetchFeed
  <1>2. /\ FirstDue(session, f) \in Nat \ {0}
        /\ \A t \in Times(session, f) : t < FirstDue(session, f)
        /\ Times(session, f) = {} \/ FirstDue(session, f) - 1 \in Times(session, f)
    BY <1>1, FirstDueType DEF Core
  <1>3. EachCandleOnce'
    BY DEF Core, EachCandleOnce, FetchFeed, tables
  <1>4. CASE FirstDue(session, f) <= now
    <2>1. TypeOK'
      BY <1>1, <1>2, <1>4, PaperTradingAssumption DEF Core, TypeOK, FetchFeed, tables, bounds
    <2>2. CycleShape'
      <3>1. session' = session /\ status' = status /\ feedsLeft' \subseteq feedsLeft /\ at' = "candle"
        BY <1>4 DEF FetchFeed, tables
      <3>2. feed' \in Followed(session) /\ candle' \in 1..now'
        BY <1>1, <1>2, <1>4 DEF Core, TypeOK, FetchFeed
      <3> QED
        BY <1>1, <3>1, <3>2 DEF CycleShape, Reading
    <2>3. CandleIsNext'
      BY <1>2, <1>4 DEF CandleIsNext, FetchFeed, tables, Times
    <2> QED
      BY <1>3, <1>4, <2>1, <2>2, <2>3 DEF Core, FetchFeed, tables, AbsentUntouched,
         StateFollowsRow, LateOnce
  <1>5. CASE ~(FirstDue(session, f) <= now)
    <2>1. TypeOK'
      BY <1>5 DEF Core, TypeOK, FetchFeed, tables, bounds
    <2>2. CycleShape'
      BY <1>1, <1>5 DEF Core, CycleShape, Reading, FetchFeed, tables, Followed
    <2> QED
      BY <1>3, <1>5, <2>1, <2>2 DEF Core, FetchFeed, tables, AbsentUntouched, CandleIsNext,
         StateFollowsRow, LateOnce, Reading
  <1> QED
    BY <1>4, <1>5

-----------------------------------------------------------------------------
(* The strategies on one candle. *)

LEMMA LoadSessionCore == ASSUME Core, LoadSession PROVE Core'
  <1>1. session \in Sessions /\ status[session] # "absent" /\ feed \in Followed(session)
        /\ feedsLeft \subseteq Followed(session) /\ candle \in 1..now
    BY DEF Core, CycleShape, LoadSession, Reading
  <1>2. TypeOK'
    BY <1>1, Beginnings DEF Core, TypeOK, LoadSession, tables, bounds
  <1>3. CycleShape'
    BY <1>1 DEF CycleShape, Reading, LoadSession, tables, Followed
  <1>4. StateFollowsRow'
    BY DEF StateFollowsRow, LoadSession, tables
  <1>5. CandleIsNext'
    BY DEF Core, CandleIsNext, LoadSession, tables, Reading, Live, Times
  <1> QED
    BY <1>2, <1>3, <1>4, <1>5 DEF Core, EachCandleOnce, LoadSession, tables, AbsentUntouched,
       LateOnce

LEMMA SkipStrategyCore == ASSUME Core, SkipStrategy PROVE Core'
  <1>1. TypeOK'
    BY StrategiesListed DEF Core, TypeOK, SkipStrategy, tables, bounds
  <1>2. CycleShape'
    BY DEF Core, CycleShape, Reading, SkipStrategy, tables, Followed
  <1>3. StateFollowsRow'
    BY DEF Core, StateFollowsRow, SkipStrategy, tables, Live
  <1>4. CandleIsNext'
    <2>1. feed \in Subs[session][StrategyOrder[strategy]] =>
            <<StrategyOrder[strategy], feed, candle>> \in processed[session]
      BY DEF SkipStrategy, Concerned, Kind, Identity
    <2>2. strategy \in Nat /\ strategy' = strategy + 1
      BY StrategiesListed DEF Core, TypeOK, SkipStrategy
    <2>3. \A i \in 1..(strategy' - 1) : i \in 1..(strategy - 1) \/ i = strategy
      BY <2>2
    <2> QED
      BY <2>1, <2>3 DEF Core, CandleIsNext, SkipStrategy, tables, Reading, Live, Times
  <1> QED
    BY <1>1, <1>2, <1>3, <1>4 DEF Core, EachCandleOnce, SkipStrategy, tables, AbsentUntouched,
       LateOnce

(* The stream a strategy at work feeds. *)
LEMMA StreamInHand ==
  ASSUME Core, at \in {"strategy", "commit"}, Concerned
  PROVE  /\ session \in Sessions /\ status[session] # "absent"
         /\ Kind \in Strategies /\ feed \in Feeds /\ candle \in 1..MaxClock
         /\ <<Kind, feed>> \in Streams
  <1>1. session \in Sessions /\ status[session] # "absent" /\ feed \in Followed(session)
        /\ candle \in 1..now
    BY DEF Core, CycleShape, Reading
  <1>2. Kind \in Strategies
    BY StrategiesListed DEF Core, TypeOK, Concerned, Kind
  <1>3. feed \in Feeds
    BY <1>1, FollowedFeeds
  <1>4. candle \in 1..MaxClock
    BY <1>1, PaperTradingAssumption DEF Core, TypeOK
  <1> QED
    BY <1>1, <1>2, <1>3, <1>4 DEF Streams

LEMMA ProcessCore == ASSUME Core, Process PROVE Core'
  <1> USE DEF Process
  <1>1. /\ session \in Sessions /\ status[session] # "absent"
        /\ Kind \in Strategies /\ feed \in Feeds /\ candle \in 1..MaxClock
        /\ <<Kind, feed>> \in Streams
    BY StreamInHand
  <1>2. state' \in [Streams -> Seq(1..MaxClock)]
    BY <1>1 DEF Core, TypeOK
  <1>3. TypeOK'
    <2>1. strategy' \in 1..(Len(StrategyOrder) + 1)
      BY StrategiesListed DEF Core, TypeOK, Concerned
    <2>2. at' \in {"strategy", "commit"} /\ greet' \in BOOLEAN
      BY DEF Core, TypeOK
    <2> QED
      BY <1>2, <2>1, <2>2 DEF Core, TypeOK, tables, bounds
  <1>4. CycleShape'
    BY DEF Core, CycleShape, Reading, tables, Followed
  <1>5. CASE status[session] = "active"
    <2>1. at' = "commit" /\ strategy' = strategy /\ Live
      BY <1>5 DEF Live
    <2>2. state = snapshot[session]
      BY <2>1 DEF Core, StateFollowsRow
    <2>3. StateFollowsRow'
      BY <2>1, <2>2 DEF StateFollowsRow, Concerned, Kind, Identity, tables
    <2>4. CandleIsNext'
      BY <2>1 DEF Core, CandleIsNext, tables, Reading, Live, Times
    <2>5. LateOnce'
      BY <1>5, <2>1 DEF Core, LateOnce, tables
    <2> QED
      BY <1>3, <1>4, <2>3, <2>4, <2>5 DEF Core, EachCandleOnce, tables, AbsentUntouched
  <1>6. CASE status[session] # "active"
    <2>1. at' = "strategy" /\ ~Live'
      BY <1>6 DEF tables, Live
    <2>2. StateFollowsRow' /\ CandleIsNext'
      BY <2>1 DEF Core, StateFollowsRow, CandleIsNext, tables, Reading, Times
    <2>3. LateOnce'
      BY <2>1 DEF Core, LateOnce, tables
    <2> QED
      BY <1>3, <1>4, <2>2, <2>3 DEF Core, EachCandleOnce, tables, AbsentUntouched
  <1> QED
    BY <1>5, <1>6

(* Appending the candle in hand to a stream's rising times keeps them so.   *)
LEMMA RisingAppend ==
  ASSUME NEW q \in Seq(1..MaxClock), NEW t \in 1..MaxClock, NEW have \in SUBSET (1..MaxClock),
         ToSet(q) = have, \A i, j \in DOMAIN q : i < j => q[i] < q[j],
         \A u \in have : u < t
  PROVE  /\ ToSet(Append(q, t)) = have \cup {t}
         /\ \A i, j \in DOMAIN Append(q, t) : i < j => Append(q, t)[i] < Append(q, t)[j]
  <1> DEFINE r == Append(q, t)
  <1>1. Len(q) \in Nat /\ DOMAIN q = 1..Len(q) /\ DOMAIN r = 1..(Len(q) + 1)
    OBVIOUS
  <1>2. (\A i \in 1..Len(q) : r[i] = q[i]) /\ r[Len(q) + 1] = t
    OBVIOUS
  <1>3. \A i \in 1..Len(q) : q[i] \in have
    BY <1>1 DEF ToSet
  <1>4. ToSet(r) = have \cup {t}
    <2>1. ToSet(r) \subseteq have \cup {t}
      BY <1>1, <1>2, <1>3 DEF ToSet
    <2>2. have \cup {t} \subseteq ToSet(r)
      BY <1>1, <1>2 DEF ToSet
    <2> QED
      BY <2>1, <2>2
  <1>5. ASSUME NEW i \in 1..(Len(q) + 1), NEW j \in 1..(Len(q) + 1), i < j PROVE r[i] < r[j]
    <2>1. i \in 1..Len(q)
      BY <1>1, <1>5
    <2>2. CASE j \in 1..Len(q)
      BY <1>1, <1>2, <1>5, <2>1, <2>2
    <2>3. CASE j = Len(q) + 1
      BY <1>2, <1>3, <2>1, <2>3
    <2> QED
      BY <1>1, <2>2, <2>3
  <1> QED
    BY <1>1, <1>4, <1>5

LEMMA CommitCore == ASSUME Core, Commit PROVE Core'
  <1> USE DEF Commit
  <1>1. Concerned /\ state = [snapshot[session] EXCEPT ![<<Kind, feed>>] = Append(@, candle)]
    BY DEF Core, StateFollowsRow
  <1>2. /\ session \in Sessions /\ status[session] # "absent"
        /\ Kind \in Strategies /\ feed \in Feeds /\ candle \in 1..MaxClock
        /\ <<Kind, feed>> \in Streams
    BY <1>1, StreamInHand
  <1>3. TypeOK'
    <2>1. strategy' \in 1..(Len(StrategyOrder) + 1)
      BY <1>1, StrategiesListed DEF Core, TypeOK, Concerned
    <2>2. snapshot' \in [Sessions -> [Streams -> Seq(1..MaxClock)]]
      BY DEF Core, TypeOK
    <2>3. processed' \in [Sessions -> SUBSET (Strategies \X Feeds \X (1..MaxClock))]
      BY <1>2 DEF Core, TypeOK, Identity
    <2>4. connection' \in [Sessions -> {"starting", "connected", "disconnected"}]
      BY DEF Core, TypeOK
    <2>5. late' \in [Sessions -> 0..2]
      <3>1. late \in [Sessions -> 0..2] /\ late[session] \in 0..2
        BY <1>2 DEF Core, TypeOK
      <3>2. (IF status[session] = "stopped" /\ late[session] < 2
             THEN late[session] + 1 ELSE late[session]) \in 0..2
        BY <3>1
      <3> QED
        BY <3>1, <3>2
    <2> QED
      BY <2>1, <2>2, <2>3, <2>4, <2>5 DEF Core, TypeOK, bounds
  <1>4. CycleShape'
    BY DEF Core, CycleShape, Reading, Followed
  <1>5. AbsentUntouched'
    BY <1>2 DEF Core, AbsentUntouched, TypeOK
  <1>6. StateFollowsRow'
    BY <1>2 DEF StateFollowsRow, Core, TypeOK
  <1>7. CandleIsNext'
    <2>1. /\ processed'[session] = processed[session] \cup {<<Kind, feed, candle>>}
          /\ session' = session /\ feed' = feed /\ candle' = candle /\ at' = "strategy"
      BY <1>2 DEF Core, TypeOK, Identity
    <2>2. Times(session, feed)' = Times(session, feed) \cup {candle}
      <3>1. Times(session, feed)' = {p[3] : p \in {q \in processed'[session] : q[2] = feed}}
        BY <2>1 DEF Times
      <3>2. {q \in processed'[session] : q[2] = feed}
              = {q \in processed[session] : q[2] = feed} \cup {<<Kind, feed, candle>>}
        BY <2>1
      <3>3. {p[3] : p \in {q \in processed[session] : q[2] = feed} \cup {<<Kind, feed, candle>>}}
              = {p[3] : p \in {q \in processed[session] : q[2] = feed}} \cup {candle}
        <4> DEFINE before == {q \in processed[session] : q[2] = feed}
        <4>1. <<Kind, feed, candle>>[3] = candle
          OBVIOUS
        <4> HIDE DEF before
        <4>2. {p[3] : p \in before \cup {<<Kind, feed, candle>>}} = {p[3] : p \in before} \cup {candle}
          BY <4>1, Zenon
        <4> QED
          BY <4>2 DEF before
      <3> QED
        BY <3>1, <3>2, <3>3 DEF Times
    <2>3. strategy \in Nat /\ strategy' = strategy + 1
      BY StrategiesListed DEF Core, TypeOK
    <2>4. \A i \in 1..(strategy' - 1) : i \in 1..(strategy - 1) \/ i = strategy
      BY <2>3
    <2>5. \A i \in 1..(strategy - 1) : feed \in Subs[session][StrategyOrder[i]] =>
            <<StrategyOrder[i], feed, candle>> \in processed[session]
      BY DEF Core, CandleIsNext, Reading, Live
    <2>6. \A i \in 1..(strategy' - 1) : feed \in Subs[session][StrategyOrder[i]] =>
            <<StrategyOrder[i], feed, candle>> \in processed'[session]
      BY <2>1, <2>4, <2>5 DEF Kind
    <2>7. \A t \in Times(session, feed) : t < candle \/ t = candle
      BY DEF Core, CandleIsNext, Reading
    <2> QED
      BY <2>1, <2>2, <2>6, <2>7 DEF CandleIsNext, Reading
  <1>8. LateOnce'
    BY DEF Core, LateOnce, TypeOK
  <1>9. EachCandleOnce'
    <2> DEFINE have == {t \in 1..MaxClock : <<Kind, feed, t>> \in processed[session]}
    <2>1. snapshot[session][<<Kind, feed>>] \in Seq(1..MaxClock)
      BY <1>2 DEF Core, TypeOK
    <2>2. \A u \in have : u < candle
      <3>1. \A u \in have : u \in Times(session, feed) /\ u # candle
        BY <1>1 DEF Times, Concerned, Identity
      <3> QED
        BY <3>1 DEF Core, CandleIsNext, Reading
    <2>3. /\ ToSet(snapshot[session][<<Kind, feed>>]) = have
          /\ \A i, j \in DOMAIN snapshot[session][<<Kind, feed>>] :
               i < j => snapshot[session][<<Kind, feed>>][i] < snapshot[session][<<Kind, feed>>][j]
      BY <1>2 DEF Core, EachCandleOnce
    <2>4. /\ snapshot'[session] = state
          /\ \A s \in Sessions \ {session} : snapshot'[s] = snapshot[s] /\ processed'[s] = processed[s]
          /\ processed'[session] = processed[session] \cup {<<Kind, feed, candle>>}
      BY <1>2 DEF Core, TypeOK, Identity
    <2>5. snapshot'[session][<<Kind, feed>>] = Append(snapshot[session][<<Kind, feed>>], candle)
      BY <1>1, <1>2, <2>4 DEF Core, TypeOK
    <2>6. {t \in 1..MaxClock : <<Kind, feed, t>> \in processed'[session]} = have \cup {candle}
      BY <1>2, <2>4
    <2>7. /\ ToSet(snapshot'[session][<<Kind, feed>>]) = have \cup {candle}
          /\ \A i, j \in DOMAIN snapshot'[session][<<Kind, feed>>] :
               i < j => snapshot'[session][<<Kind, feed>>][i] < snapshot'[session][<<Kind, feed>>][j]
      <3> HIDE DEF have
      <3>1. have \in SUBSET (1..MaxClock)
        BY DEF have
      <3> QED
        BY <1>2, <2>1, <2>2, <2>3, <2>5, <3>1, RisingAppend
    <2>8. ASSUME NEW s \in Sessions, NEW x \in Streams
          PROVE  /\ ToSet(snapshot'[s][x]) = {t \in 1..MaxClock : <<x[1], x[2], t>> \in processed'[s]}
                 /\ \A i, j \in DOMAIN snapshot'[s][x] : i < j => snapshot'[s][x][i] < snapshot'[s][x][j]
      <3>1. CASE s # session
        BY <2>4, <3>1 DEF Core, EachCandleOnce
      <3>2. CASE s = session /\ x = <<Kind, feed>>
        BY <2>6, <2>7, <3>2
      <3>3. CASE s = session /\ x # <<Kind, feed>>
        <4>1. snapshot'[s][x] = snapshot[s][x]
          BY <1>1, <1>2, <2>4, <3>3 DEF Core, TypeOK
        <4>2. \A t : <<x[1], x[2], t>> \in processed'[s] <=> <<x[1], x[2], t>> \in processed[s]
          BY <2>4, <3>3 DEF Streams
        <4> QED
          BY <4>1, <4>2 DEF Core, EachCandleOnce
      <3> QED
        BY <3>1, <3>2, <3>3
    <2> QED
      BY <2>8 DEF EachCandleOnce
  <1> QED
    BY <1>3, <1>4, <1>5, <1>6, <1>7, <1>8, <1>9 DEF Core

(* Once the last strategy is through, somebody has the candle.              *)
LEMMA SomebodyHasIt ==
  ASSUME Core, at = "strategy", strategy > Len(StrategyOrder), Live
  PROVE  /\ candle \in Times(session, feed)
         /\ \A k \in Strategies : feed \in Subs[session][k] =>
              <<k, feed, candle>> \in processed[session]
  <1>1. strategy = Len(StrategyOrder) + 1
    BY StrategiesListed DEF Core, TypeOK
  <1>2. \A i \in 1..Len(StrategyOrder) : feed \in Subs[session][StrategyOrder[i]] =>
          <<StrategyOrder[i], feed, candle>> \in processed[session]
    BY <1>1, StrategiesListed DEF Core, CandleIsNext, Reading
  <1>3. \A k \in Strategies : feed \in Subs[session][k] =>
          <<k, feed, candle>> \in processed[session]
    BY <1>2, StrategiesListed
  <1>4. PICK k \in Strategies : feed \in Subs[session][k]
    BY DEF Core, CycleShape, Reading, Followed
  <1>5. <<k, feed, candle>> \in {q \in processed[session] : q[2] = feed}
    BY <1>3, <1>4
  <1> QED
    BY <1>3, <1>5 DEF Times

LEMMA CandleDoneCore == ASSUME Core, CandleDone PROVE Core'
  <1> USE DEF CandleDone
  <1>1. /\ session \in Sessions /\ status[session] # "absent"
        /\ feed \in Followed(session) /\ candle \in 1..now /\ feedsLeft \subseteq Followed(session)
    BY DEF Core, CycleShape, Reading
  <1>2. now \in 0..MaxClock /\ MaxClock \in Nat
    BY PaperTradingAssumption DEF Core, TypeOK
  <1>3. EachCandleOnce'
    BY DEF Core, EachCandleOnce, tables
  <1>4. CASE candle < now
    <2>1. TypeOK'
      <3>1. candle' \in 0..(MaxClock + 1)
        BY <1>1, <1>2, <1>4
      <3> QED
        BY <1>4, <3>1, FreshType, Beginnings DEF Core, TypeOK, LeaveCandle, tables, bounds
    <2>2. CycleShape'
      <3>1. candle' \in 1..now
        BY <1>1, <1>2, <1>4
      <3> QED
        BY <1>1, <1>4, <3>1 DEF CycleShape, Reading, tables
    <2>3. CandleIsNext'
      <3>1. \A t \in Times(session, feed) : t < candle + 1
        <4>1. Times(session, feed) \subseteq 1..MaxClock
          BY <1>1, TimesType DEF Core
        <4> QED
          BY <1>1, <1>2, <4>1 DEF Core, CandleIsNext, Reading
      <3>2. Live => candle \in Times(session, feed)
        BY SomebodyHasIt
      <3>3. candle' - 1 = candle
        BY <1>1, <1>2, <1>4
      <3>4. /\ Times(session, feed)' = Times(session, feed) /\ at' = "candle"
            /\ candle' = candle + 1 /\ (Live' => Live)
        BY <1>4 DEF Times, tables, Live
      <3>5. Live' => candle' - 1 \in Times(session, feed)'
        BY <3>2, <3>3, <3>4
      <3> QED
        BY <3>1, <3>4, <3>5 DEF CandleIsNext
    <2> QED
      BY <1>3, <1>4, <2>1, <2>2, <2>3 DEF Core, tables, AbsentUntouched, StateFollowsRow, LateOnce
  <1>5. CASE ~(candle < now)
    <2>1. TypeOK'
      BY <1>5, FreshType, Beginnings DEF Core, TypeOK, LeaveCandle, tables, bounds
    <2> QED
      BY <1>1, <1>3, <1>5, <2>1 DEF Core, CycleShape, Reading, tables, AbsentUntouched,
         StateFollowsRow, CandleIsNext, LateOnce
  <1> QED
    BY <1>4, <1>5

-----------------------------------------------------------------------------
LEMMA NextCore == Core /\ [Next]_vars => Core'
  <1> SUFFICES ASSUME Core, [Next]_vars PROVE Core'
    OBVIOUS
  <1>1. CASE UNCHANGED vars
    <2>1. StateFollowsRow' /\ CandleIsNext' /\ EachCandleOnce'
      BY <1>1, CandleKept DEF vars, tables, polling, Live
    <2>2. TypeOK'
      BY <1>1 DEF vars, tables, polling, bounds, Core, TypeOK
    <2> QED
      BY <1>1, <2>1, <2>2 DEF vars, tables, polling, Core, CycleShape, AbsentUntouched, LateOnce,
         Reading
  <1>2. CASE Supervise
    BY <1>2, PollBeginsCore, NextSessionCore, PollEndsCore, SessionDoneCore, FetchFeedCore,
       FetchBrokenCore, LoadSessionCore, SkipStrategyCore, ProcessCore, CommitCore,
       CandleDoneCore DEF Supervise
  <1>3. ASSUME NEW r \in Stoppers, NEW s \in Sessions, ReadStop(r, {s}) PROVE Core'
    BY <1>3, ReadStopCore
  <1>4. ASSUME NEW r \in Stoppers, ReadStop(r, Sessions) PROVE Core'
    BY <1>4, ReadStopCore
  <1> QED
    BY <1>1, <1>2, <1>3, <1>4, TickCore, StartCore, WriteStopCore, TransientFaultCore,
       CrashCore, RestartCore DEF Next

LEMMA CoreInvariant == Spec => []Core
  BY InitCore, NextCore, PTL DEF Spec

(* Every variable keeps its type. *)
THEOREM TypeCorrect == Spec => []TypeOK
  <1>1. Core => TypeOK
    BY DEF Core
  <1> QED
    BY <1>1, CoreInvariant, PTL

(* The ledgers kept for a session are computed from the candles marked as   *)
(* processed, each once and in order (EachCandleOnce).                      *)
THEOREM EachCandleOnceHolds == Spec => []EachCandleOnce
  <1>1. Core => EachCandleOnce
    BY DEF Core
  <1> QED
    BY <1>1, CoreInvariant, PTL

-----------------------------------------------------------------------------
(* What the steps do to the status of a session. *)
LEMMA StatusSteps ==
  ASSUME Core, [Next]_vars
  PROVE  \/ UNCHANGED status
         \/ \E s \in Sessions : Start(s)
         \/ \E s \in Sessions : \E r \in Stoppers : WriteStop(r, s)
  BY DEF Next, vars, tables, Tick, Supervise, TransientFault, Crash, Restart, ReadStop, PollBegins,
     NextSession, PollEnds, SessionDone, FetchFeed, FetchBroken, AbortCycle, LoadSession,
     SkipStrategy, Process, Commit, CandleDone

(* Nothing brings a stopped session back (StoppedForGood). *)
THEOREM StoppedForGoodHolds == Spec => StoppedForGood
  <1>1. ASSUME Core, [Next]_vars, NEW s \in Sessions, status[s] = "stopped"
        PROVE  status'[s] = "stopped"
    <2>1. ASSUME NEW u \in Sessions, Start(u) PROVE status'[s] = "stopped"
      BY <1>1, <2>1 DEF Core, TypeOK, Start
    <2>2. ASSUME NEW u \in Sessions, NEW r \in Stoppers, WriteStop(r, u)
          PROVE  status'[s] = "stopped"
      BY <1>1, <2>2 DEF Core, TypeOK, WriteStop
    <2> QED
      BY <1>1, <2>1, <2>2, StatusSteps
  <1>2. Core /\ [Next]_vars =>
          [\A s \in Sessions : status[s] = "stopped" => status'[s] = "stopped"]_vars
    BY <1>1
  <1> QED
    BY <1>2, CoreInvariant, PTL DEF Spec, StoppedForGood

-----------------------------------------------------------------------------
(* PaperDelivery is implemented when the feeds of a session are apart. *)

(* The last candle of a stream is the newest one it has. *)
LEMMA LastIsNewest ==
  ASSUME Core, NEW s \in Sessions, NEW x \in Streams, snapshot[s][x] # <<>>
  PROVE  LET last == snapshot[s][x][Len(snapshot[s][x])] IN
         /\ last \in 1..MaxClock /\ <<x[1], x[2], last>> \in processed[s]
         /\ \A t \in 1..MaxClock : <<x[1], x[2], t>> \in processed[s] => t <= last
  <1> DEFINE q == snapshot[s][x]
  <1>1. q \in Seq(1..MaxClock) /\ Len(q) \in Nat \ {0} /\ DOMAIN q = 1..Len(q)
    BY DEF Core, TypeOK
  <1>2. /\ ToSet(q) = {t \in 1..MaxClock : <<x[1], x[2], t>> \in processed[s]}
        /\ \A i, j \in DOMAIN q : i < j => q[i] < q[j]
    BY DEF Core, EachCandleOnce
  <1> HIDE DEF q
  <1>3. q[Len(q)] \in ToSet(q)
    BY <1>1 DEF ToSet
  <1>4. ASSUME NEW t \in 1..MaxClock, <<x[1], x[2], t>> \in processed[s] PROVE t <= q[Len(q)]
    <2>1. PICK i \in 1..Len(q) : q[i] = t
      BY <1>1, <1>2, <1>4 DEF ToSet
    <2>2. q[i] \in 1..MaxClock /\ q[Len(q)] \in 1..MaxClock
      <3>1. Len(q) \in 1..Len(q)
        BY <1>1
      <3> QED
        BY <1>1, <2>1, <3>1, PaperTradingAssumption
    <2>3. CASE i < Len(q)
      BY <1>1, <1>2, <2>1, <2>2, <2>3
    <2>4. CASE i = Len(q)
      <3>1. q[Len(q)] = t /\ t \in Int
        BY <2>1, <2>4, PaperTradingAssumption
      <3> QED
        BY <3>1
    <2>5. i < Len(q) \/ i = Len(q)
      <3>1. Len(q) \in Nat
        BY <1>1
      <3>2. \A n \in Nat : \A j \in 1..n : j < n \/ j = n
        OBVIOUS
      <3> QED
        BY <3>1, <3>2
    <2> QED
      BY <2>3, <2>4, <2>5
  <1> QED
    BY <1>2, <1>3, <1>4 DEF q

(* The candle about to be committed follows the stream's last one. *)
LEMMA CandleFollows ==
  ASSUME FeedsApart, Core, OnlyFollowed, Commit
  PROVE  Delivery!Follows(snapshot[session][<<Kind, feed>>], candle)
  <1>1. Concerned
    BY DEF Core, StateFollowsRow, Commit
  <1>2. /\ session \in Sessions /\ Kind \in Strategies /\ feed \in Feeds
        /\ candle \in 1..MaxClock /\ <<Kind, feed>> \in Streams
    BY <1>1, StreamInHand DEF Commit
  <1> SUFFICES ASSUME snapshot[session][<<Kind, feed>>] # <<>>
               PROVE  candle = snapshot[session][<<Kind, feed>>][Len(snapshot[session][<<Kind, feed>>])] + 1
    BY DEF Delivery!Follows
  <1> DEFINE last == snapshot[session][<<Kind, feed>>][Len(snapshot[session][<<Kind, feed>>])]
  <1>3. /\ last \in 1..MaxClock /\ <<Kind, feed, last>> \in processed[session]
        /\ \A t \in 1..MaxClock : <<Kind, feed, t>> \in processed[session] => t <= last
    BY <1>2, LastIsNewest
  <1> HIDE DEF last
  <1>4. ASSUME NEW t \in Times(session, feed)
        PROVE  t \in 1..MaxClock /\ <<Kind, feed, t>> \in processed[session]
    <2>1. PICK p \in processed[session] : p[2] = feed /\ p[3] = t
      BY DEF Times
    <2>2. p \in Strategies \X Feeds \X (1..MaxClock) /\ feed \in Subs[session][p[1]]
      BY <1>2, <2>1 DEF Core, TypeOK, OnlyFollowed
    <2>3. p[1] \in Strategies /\ p = <<p[1], p[2], p[3]>> /\ t \in 1..MaxClock
      BY <2>1, <2>2
    <2>4. feed \in Subs[session][Kind]
      BY <1>1 DEF Concerned
    <2>5. p[1] = Kind
      BY <1>2, <2>2, <2>3, <2>4 DEF FeedsApart
    <2> QED
      BY <2>1, <2>3, <2>5
  <1>5. last \in Times(session, feed)
    <2>1. <<Kind, feed, last>> \in {q \in processed[session] : q[2] = feed}
      BY <1>3
    <2> QED
      BY <2>1 DEF Times
  <1>6. candle \notin Times(session, feed)
    BY <1>1, <1>4 DEF Concerned, Identity
  <1>7. candle - 1 \in Times(session, feed) /\ last < candle
    BY <1>5, <1>6 DEF Core, CandleIsNext, Reading, Live, Commit
  <1>8. candle - 1 <= last
    BY <1>3, <1>4, <1>7
  <1>9. candle = last + 1
    BY <1>2, <1>3, <1>7, <1>8
  <1> QED
    BY <1>9 DEF last

(* Each step is one of the promise, or changes nothing it speaks of.        *)
LEMMA StepImplements ==
  ASSUME FeedsApart, Core, OnlyFollowed, [Next]_vars
  PROVE  [Delivery!Next]_Delivery!vars
  <1>1. CASE UNCHANGED <<status, snapshot, late>>
    BY <1>1 DEF Delivery!vars
  <1>2. ASSUME NEW s \in Sessions, Start(s) PROVE Delivery!Next
    BY <1>2 DEF Start, Delivery!Next, Delivery!Start
  <1>3. ASSUME NEW s \in Sessions, NEW r \in Stoppers, WriteStop(r, s)
        PROVE  [Delivery!Next]_Delivery!vars
    <2>1. CASE status[s] = "active"
      BY <1>3, <2>1 DEF WriteStop, Delivery!Next, Delivery!Stop
    <2>2. CASE status[s] = "stopped"
      <3>1. status' = status
        BY <1>3, <2>2 DEF WriteStop, Core, TypeOK
      <3> QED
        BY <1>3, <3>1, <1>1 DEF WriteStop
    <2>3. status[s] # "absent"
      BY <1>3 DEF WriteStop, Core, AbsentUntouched
    <2> QED
      BY <2>1, <2>2, <2>3 DEF Core, TypeOK
  <1>4. CASE Commit
    <2>1. Concerned /\ state = [snapshot[session] EXCEPT ![<<Kind, feed>>] = Append(@, candle)]
      BY <1>4 DEF Core, StateFollowsRow, Commit
    <2>2. /\ session \in Sessions /\ status[session] # "absent"
          /\ candle \in 1..MaxClock /\ <<Kind, feed>> \in Streams
      BY <1>4, <2>1, StreamInHand DEF Commit
    <2>3. status[session] = "active" \/ (status[session] = "stopped" /\ late[session] = 0)
      BY <1>4, <2>2 DEF Core, TypeOK, LateOnce, Commit
    <2>4. status[session] = "active" => late[session] = 0
      BY <2>2 DEF Core, LateOnce
    <2>5. snapshot' = [snapshot EXCEPT ![session][<<Kind, feed>>] = Append(@, candle)]
      BY <1>4, <2>1, <2>2 DEF Commit, Core, TypeOK
    <2>6. [s \in Sessions |-> late'[s] = 0]
            = [[s \in Sessions |-> late[s] = 0] EXCEPT ![session] = (status[session] = "active")]
      <3>1. late' = [late EXCEPT ![session] =
                       IF status[session] = "stopped" /\ @ < 2 THEN @ + 1 ELSE @]
        BY <1>4 DEF Commit
      <3>2. late \in [Sessions -> 0..2]
        BY DEF Core, TypeOK
      <3>3. CASE status[session] = "active"
        BY <2>2, <2>4, <3>1, <3>2, <3>3
      <3>4. CASE status[session] = "stopped" /\ late[session] = 0
        <4>1. late' = [late EXCEPT ![session] = 1]
          BY <2>2, <3>1, <3>2, <3>4
        <4>2. late'[session] = 1 /\ \A s \in Sessions \ {session} : late'[s] = late[s]
          BY <2>2, <3>2, <4>1
        <4>3. status[session] # "active" /\ late'[session] # 0
          BY <3>4, <4>2
        <4> QED
          BY <2>2, <4>2, <4>3, Zenon
      <3> QED
        BY <2>3, <3>3, <3>4
    <2>7. PICK s \in Sessions, x \in Streams, c \in 1..MaxClock :
            s = session /\ x = <<Kind, feed>> /\ c = candle
      BY <2>2
    <2>8. Delivery!Deliver(s, x, c)
      BY <1>4, <2>3, <2>5, <2>6, <2>7, CandleFollows DEF Commit, Delivery!Deliver
    <2>9. Delivery!Next
      BY <2>8 DEF Delivery!Next
    <2> QED
      BY <2>9
  <1> QED
    BY <1>1, <1>2, <1>3, <1>4
    DEF Next, vars, tables, Tick, Supervise, TransientFault, Crash, Restart, ReadStop, PollBegins,
     NextSession, PollEnds, SessionDone, FetchFeed, FetchBroken, AbortCycle, LoadSession,
     SkipStrategy, Process, CandleDone

LEMMA FollowedInvariant == Spec => []OnlyFollowed
  <1>1. Init => OnlyFollowed
    BY DEF Init, OnlyFollowed
  <1>2. OnlyFollowed /\ Core /\ [Next]_vars => OnlyFollowed'
    <2> SUFFICES ASSUME OnlyFollowed, Core, [Next]_vars PROVE OnlyFollowed'
      OBVIOUS
    <2>1. CASE UNCHANGED processed
      BY <2>1 DEF OnlyFollowed
    <2>2. CASE Commit
      <3>1. processed' = [processed EXCEPT ![session] = @ \cup {<<Kind, feed, candle>>}]
        BY <2>2 DEF Commit, Identity
      <3>2. feed \in Subs[session][Kind]
        BY <2>2 DEF Commit, Core, StateFollowsRow, Concerned
      <3> QED
        BY <3>1, <3>2 DEF OnlyFollowed, Core, TypeOK
    <2> QED
      BY <2>1, <2>2
      DEF Next, vars, tables, Tick, Supervise, TransientFault, Crash, Restart, ReadStop, Start,
        WriteStop, PollBegins, NextSession, PollEnds, SessionDone, FetchFeed, FetchBroken,
        AbortCycle, LoadSession, SkipStrategy, Process, CandleDone
  <1> QED
    BY <1>1, <1>2, CoreInvariant, PTL DEF Spec

(* If no two strategies of a session share a feed, every stream receives    *)
(* all candles from its first one on, in order (Implements).                *)
THEOREM DeliveryImplemented == ASSUME FeedsApart PROVE Spec => Implements
  <1>1. Init => Delivery!Init
    <2> SUFFICES ASSUME Init PROVE Delivery!Init
      OBVIOUS
    <2> QED
      BY DEF Init, Fresh, Delivery!Init
  <1>2. Core /\ OnlyFollowed /\ [Next]_vars => [Delivery!Next]_Delivery!vars
    BY StepImplements
  <1> QED
    BY <1>1, <1>2, CoreInvariant, FollowedInvariant, PTL DEF Spec, Implements, Delivery!Spec

-----------------------------------------------------------------------------
(* What failures lose. *)

LEMMA FewStrategies ==
  /\ IsFiniteSet(Strategies)
  /\ Cardinality(Strategies) \in Nat /\ Cardinality(Strategies) <= Len(StrategyOrder)
  <1> DEFINE n == Len(StrategyOrder)
             f == [i \in 1..n |-> StrategyOrder[i]]
  <1>1. n \in Nat /\ IsFiniteSet(1..n) /\ Cardinality(1..n) = n
    BY StrategiesListed, FS_Interval
  <1>2. Strategies = {f[i] : i \in 1..n}
    <2>1. Strategies \subseteq {f[i] : i \in 1..n}
      BY StrategiesListed
    <2>2. {f[i] : i \in 1..n} \subseteq Strategies
      BY StrategiesListed
    <2> QED
      BY <2>1, <2>2
  <1>3. DOMAIN f = 1..n /\ f = [i \in 1..n |-> f[i]]
    OBVIOUS
  <1>4. IsFiniteSet({f[i] : i \in 1..n}) /\ Cardinality({f[i] : i \in 1..n}) <= n
    <2> HIDE DEF f
    <2> HIDE DEF n
    <2> QED
      BY <1>1, <1>3, ImageOfFinite
  <1> HIDE DEF f
  <1> QED
    BY <1>2, <1>4, FS_CardinalityType

LEMMA LostFinite ==
  ASSUME NEW s \in Sessions
  PROVE  IsFiniteSet(Lost(s)) /\ Cardinality(Lost(s)) \in Nat
  <1>1. IsFiniteSet(1..MaxClock)
    BY FS_Interval, PaperTradingAssumption
  <1>2. IsFiniteSet(Strategies \X Feeds \X (1..MaxClock))
    BY <1>1, FewStrategies, FiniteTriples, PaperTradingAssumption
  <1>3. Lost(s) \in SUBSET (Strategies \X Feeds \X (1..MaxClock))
    BY DEF Lost
  <1> QED
    BY <1>2, <1>3, FS_Subset, FS_CardinalityType

(* The strategies that will miss the candle in hand if the cycle ends now.  *)
Missing ==
    {<<k, feed, candle>> : k \in {j \in Strategies : <<j, feed, candle>> \notin processed[session]}}

LEMMA MissingFew ==
  ASSUME Core, Reading, NEW j \in Strategies, <<j, feed, candle>> \in processed[session]
  PROVE  /\ IsFiniteSet(Missing) /\ Cardinality(Missing) \in Nat
         /\ Cardinality(Missing) <= Len(StrategyOrder) - 1
  <1> DEFINE rest == Strategies \ {j}
             f == [k \in rest |-> <<k, feed, candle>>]
             images == {f[k] : k \in rest}
  <1>1. /\ IsFiniteSet(rest) /\ Cardinality(rest) \in Nat
        /\ Cardinality(rest) <= Len(StrategyOrder) - 1
    <2>1. IsFiniteSet(rest) /\ Cardinality(rest) = Cardinality(Strategies) - 1
      BY FewStrategies, FS_RemoveElement
    <2> QED
      BY <2>1, FewStrategies, StrategiesListed, FS_CardinalityType
  <1>2. IsFiniteSet(images) /\ Cardinality(images) <= Cardinality(rest)
    <2>1. DOMAIN f = rest /\ f = [k \in rest |-> f[k]]
      OBVIOUS
    <2> HIDE DEF f, rest
    <2> QED
      BY <1>1, <2>1, ImageOfFinite
  <1>3. Missing \in SUBSET images
    BY DEF Missing
  <1> HIDE DEF images, rest
  <1>4. /\ IsFiniteSet(Missing) /\ Cardinality(Missing) <= Cardinality(images)
        /\ Cardinality(Missing) \in Nat /\ Cardinality(images) \in Nat
    BY <1>2, <1>3, FS_Subset, FS_CardinalityType
  <1> QED
    BY <1>1, <1>2, <1>4, StrategiesListed

(* As long as a session is served nothing is lost. *)
LEMMA ServiceLosesNothing ==
  ASSUME Core, OnlyFollowed, [Next]_vars, UNCHANGED bounds, NEW s \in Sessions,
         status[s] = "active"
  PROVE  Lost(s)' \subseteq Lost(s)
  <1> SUFFICES ASSUME NEW x \in Strategies \X Feeds \X (1..MaxClock), x \in Lost(s)',
                      x \notin Lost(s)
               PROVE  FALSE
    BY DEF Lost
  <1>1. /\ x[2] \in Subs[s][x[1]] /\ x \notin processed'[s]
        /\ \E k \in Strategies : <<k, x[2], x[3]>> \in processed'[s]
        /\ ~(session' = s /\ feed' = x[2] /\ candle' = x[3])
    BY DEF Lost
  <1>2. x[2] \in Feeds /\ x[2] # None
    BY PaperTradingAssumption
  <1>3. CASE UNCHANGED processed
    <2>1. session = s /\ feed = x[2] /\ candle = x[3]
      BY <1>1, <1>3 DEF Lost
    <2>2. Reading /\ feed # None
      BY <1>2, <2>1 DEF Core, CycleShape
    <2>3. ~(session' = session /\ feed' = feed /\ candle' = candle)
      BY <1>1, <2>1
    <2>4. CandleDone
      <3>1. ~TransientFault /\ ~Crash
        BY DEF TransientFault, Crash, bounds, Core, TypeOK
      <3> QED
        BY <2>2, <2>3, <3>1 DEF Next, vars, tables, polling, Tick, Supervise,
           Restart, ReadStop, Start, WriteStop, PollBegins, NextSession, PollEnds, SessionDone,
           FetchFeed, FetchBroken, AbortCycle, LoadSession, SkipStrategy, Process, Commit, Reading
    <2>5. \A k \in Strategies : feed \in Subs[session][k] => <<k, feed, candle>> \in processed[session]
      BY <2>1, <2>4, SomebodyHasIt DEF CandleDone, Live
    <2> QED
      BY <1>1, <1>3, <2>1, <2>5
  <1>4. CASE Commit
    <2>1. /\ session' = session /\ feed' = feed /\ candle' = candle
          /\ processed' = [processed EXCEPT ![session] = @ \cup {<<Kind, feed, candle>>}]
      BY <1>4 DEF Commit, Identity
    <2>2. session \in Sessions
      BY <1>4 DEF Commit, Core, CycleShape, Reading
    <2>3. x \notin processed[s]
      BY <1>1, <2>1, <2>2 DEF Core, TypeOK
    <2>4. \A k \in Strategies : <<k, x[2], x[3]>> \notin processed[s]
      BY <1>1, <2>1, <2>3 DEF Lost
    <2> QED
      BY <1>1, <2>1, <2>2, <2>4 DEF Core, TypeOK
  <1> QED
    BY <1>3, <1>4
    DEF Next, vars, tables, Tick, Supervise, TransientFault, Crash, Restart, ReadStop, Start,
      WriteStop, PollBegins, NextSession, PollEnds, SessionDone, FetchFeed, FetchBroken,
      AbortCycle, LoadSession, SkipStrategy, Process, CandleDone

(* A failure loses the candle in hand for those who have not got it. *)
LEMMA FailureLosesOne ==
  ASSUME Core, TransientFault \/ Crash, NEW s \in Sessions
  PROVE  \/ Lost(s)' \subseteq Lost(s)
         \/ /\ Lost(s)' \subseteq Lost(s) \cup Missing /\ Reading
            /\ \E j \in Strategies : <<j, feed, candle>> \in processed[session]
  <1> SUFFICES ASSUME NEW y \in Strategies \X Feeds \X (1..MaxClock), y \in Lost(s)', y \notin Lost(s)
               PROVE  /\ Lost(s)' \subseteq Lost(s) \cup Missing /\ Reading
                      /\ \E j \in Strategies : <<j, feed, candle>> \in processed[session]
    BY DEF Lost
  <1>1. processed' = processed
    BY DEF TransientFault, Crash, AbortCycle, tables
  <1>2. session = s /\ feed = y[2] /\ candle = y[3]
    BY <1>1 DEF Lost
  <1>3. Reading
    BY <1>2, PaperTradingAssumption DEF Core, CycleShape
  <1>4. \E j \in Strategies : <<j, feed, candle>> \in processed[session]
    BY <1>1, <1>2 DEF Lost
  <1>5. ASSUME NEW x \in Lost(s)', x \notin Lost(s) PROVE x \in Missing
    <2>1. x \in Strategies \X Feeds \X (1..MaxClock) /\ x \notin processed[session]
      BY <1>1, <1>2, <1>5 DEF Lost
    <2>2. feed = x[2] /\ candle = x[3]
      BY <1>1, <1>5 DEF Lost
    <2>3. x = <<x[1], feed, candle>> /\ x[1] \in Strategies
      BY <2>1, <2>2
    <2> QED
      BY <2>1, <2>3 DEF Missing
  <1> QED
    BY <1>3, <1>4, <1>5

LEMMA BoundGrows ==
  ASSUME NEW m \in Nat, NEW n \in Nat
  PROVE  m * n \in Nat /\ m * (n + 1) = m * n + m
  OBVIOUS

LEMMA NextLossBounded ==
  ASSUME Core, OnlyFollowed, LossBounded, [Next]_vars
  PROVE  LossBounded'
  <1> DEFINE m == Len(StrategyOrder) - 1
             n == crashes + faults
  <1>1. m \in Nat /\ n \in Nat
    BY StrategiesListed, PaperTradingAssumption DEF Core, TypeOK
  <1>2. m * n \in Nat /\ m * (n + 1) = m * n + m
    BY <1>1, BoundGrows
  <1> HIDE DEF m
  <1> SUFFICES ASSUME NEW s \in Sessions, status'[s] = "active"
               PROVE  Cardinality(Lost(s)') <= m * n'
    BY DEF LossBounded, m
  <1>3. IsFiniteSet(Lost(s)) /\ Cardinality(Lost(s)) \in Nat
    BY LostFinite
  <1>4. status[s] = "active" => Cardinality(Lost(s)) <= m * n
    BY DEF LossBounded, m
  <1>5. ASSUME Start(s) PROVE Cardinality(Lost(s)') <= m * n'
    <2>1. processed'[s] = {} /\ n' = n
      BY <1>5 DEF Start, Core, AbsentUntouched, bounds
    <2>2. Lost(s)' = {}
      BY <2>1 DEF Lost
    <2> QED
      BY <1>2, <2>1, <2>2, FS_EmptySet
  <1>6. status[s] = "active" \/ Start(s)
    <2>1. ASSUME NEW u \in Sessions, Start(u), u # s PROVE status'[s] = status[s]
      BY <2>1 DEF Start, Core, TypeOK
    <2>2. ASSUME NEW u \in Sessions, NEW r \in Stoppers, WriteStop(r, u)
          PROVE  status'[s] = status[s] \/ status'[s] = "stopped"
      BY <2>2 DEF WriteStop, Core, TypeOK
    <2> QED
      BY <2>1, <2>2, StatusSteps
  <1>7. CASE status[s] = "active" /\ UNCHANGED bounds
    <2>1. Lost(s)' \in SUBSET Lost(s)
      BY <1>7, ServiceLosesNothing
    <2>2. Cardinality(Lost(s)') \in Nat /\ Cardinality(Lost(s)') <= Cardinality(Lost(s))
      BY <1>3, <2>1, FS_Subset, FS_CardinalityType
    <2>3. n' = n
      BY <1>7 DEF bounds
    <2> QED
      BY <1>2, <1>3, <1>4, <1>7, <2>2, <2>3
  <1>8. CASE status[s] = "active" /\ (TransientFault \/ Crash)
    <2>0. \/ faults' = faults + 1 /\ crashes' = crashes
          \/ crashes' = crashes + 1 /\ faults' = faults
      BY <1>8 DEF TransientFault, Crash, AbortCycle
    <2>1. n' = n + 1
      <3>1. crashes \in Int /\ faults \in Int
        BY PaperTradingAssumption DEF Core, TypeOK
      <3> QED
        BY <2>0, <3>1
    <2>2. CASE Lost(s)' \subseteq Lost(s)
      <3>1. Cardinality(Lost(s)') \in Nat /\ Cardinality(Lost(s)') <= Cardinality(Lost(s))
        BY <1>3, <2>2, FS_Subset, FS_CardinalityType
      <3> QED
        BY <1>1, <1>2, <1>3, <1>4, <1>8, <2>1, <3>1
    <2>3. ASSUME Lost(s)' \subseteq Lost(s) \cup Missing, Reading,
                 NEW j \in Strategies, <<j, feed, candle>> \in processed[session]
          PROVE  Cardinality(Lost(s)') <= m * n'
      <3>1. IsFiniteSet(Missing) /\ Cardinality(Missing) \in Nat /\ Cardinality(Missing) <= m
        BY <2>3, MissingFew DEF m
      <3> DEFINE both == Lost(s) \cup Missing
                 common == Lost(s) \cap Missing
      <3>2. /\ IsFiniteSet(both)
            /\ Cardinality(both) = Cardinality(Lost(s)) + Cardinality(Missing) - Cardinality(common)
        BY <1>3, <3>1, FS_Union
      <3>3. Cardinality(common) \in Nat
        <4>1. common \in SUBSET Missing
          OBVIOUS
        <4> QED
          BY <3>1, <4>1, FS_Subset, FS_CardinalityType
      <3>4. Cardinality(Lost(s)') \in Nat /\ Cardinality(Lost(s)') <= Cardinality(both)
        <4>1. Lost(s)' \in SUBSET both
          BY <2>3
        <4> HIDE DEF both
        <4> QED
          BY <3>2, <4>1, FS_Subset, FS_CardinalityType
      <3> HIDE DEF both, common
      <3>5. Cardinality(Lost(s)') <= m * n + m
        BY <1>1, <1>2, <1>3, <1>4, <1>8, <3>1, <3>2, <3>3, <3>4
      <3> QED
        BY <1>2, <2>1, <3>5
    <2> QED
      BY <1>8, <2>2, <2>3, FailureLosesOne
  <1>9. UNCHANGED bounds \/ TransientFault \/ Crash
    BY DEF Next, vars, tables, Tick, Supervise, Restart, ReadStop, Start, WriteStop, PollBegins,
      NextSession, PollEnds, SessionDone, FetchFeed, FetchBroken, AbortCycle, LoadSession,
      SkipStrategy, Process, Commit, CandleDone, bounds
  <1> QED
    BY <1>5, <1>6, <1>7, <1>8, <1>9

(* A failure costs an active session at most one candle for each strategy   *)
(* that had not got it, never more (LossBounded).                           *)
THEOREM LossBoundedHolds == Spec => []LossBounded
  <1>1. Init => LossBounded
    BY DEF Init, LossBounded
  <1>2. LossBounded /\ Core /\ OnlyFollowed /\ [Next]_vars => LossBounded'
    BY NextLossBounded
  <1> QED
    BY <1>1, <1>2, CoreInvariant, FollowedInvariant, PTL DEF Spec
==============================================================================
