---------------------------- MODULE PaperTrading ----------------------------
(***************************************************************************)
(* Paper sessions: PaperSupervisor polling closed candles, PaperRuntime    *)
(* processing them strategy by strategy, PaperRepository checkpointing,    *)
(* and PaperTradingService starting and stopping sessions (paper/).        *)
(*                                                                         *)
(* The supervisor is one task of the event loop; start, stop and emergency *)
(* stop run on worker threads, each with a database session of its own, so *)
(* every SELECT and every COMMIT is a step.  A strategy's virtual ledger   *)
(* and candle window, kept in state_snapshot, are abstracted to the        *)
(* sequence of candles they were computed from.                            *)
(***************************************************************************)
EXTENDS Integers, Sequences, FiniteSets, SequencesExt

CONSTANTS Sessions,
          Feeds,         \* pairs (symbol, interval)
          StrategyOrder, \* StrategyKind, in declaration order
          Subs,          \* Subs[s][k]: the feeds strategy k of session s follows
          BrokenFeeds,   \* feeds Binance no longer serves: fetching them raises
          Stoppers,      \* worker threads that serve stop requests
          None,     \* the value of `session` outside a session's turn
          MaxClock,      \* bound: how many candles of a feed close
          MaxCrashes,    \* bound: how often the process dies
          MaxFaults      \* bound: transient failures of a fetch or a strategy

Strategies == ToSet(StrategyOrder)

ASSUME PaperTradingAssumption ==
    /\ IsFiniteSet(Feeds) /\ BrokenFeeds \subseteq Feeds
    /\ StrategyOrder \in Seq(Strategies) \ {<<>>} /\ IsInjective(StrategyOrder)
    /\ Subs \in [Sessions -> [Strategies -> SUBSET Feeds]]
    /\ None \notin Sessions \cup Feeds
    /\ MaxClock \in Nat /\ MaxCrashes \in Nat /\ MaxFaults \in Nat

Streams == Strategies \X Feeds

VARIABLES
    \* paper_sessions and processed_paper_candles
    status, connection, snapshot, processed, order,
    \* the market: candles 1..clock of every feed have closed
    clock,
    \* the supervisor task
    at, queue, now, session, feedsLeft, feed, candle, strategy, state,
    greet,
    \* stop requests under way
    stopping,
    \* bookkeeping of the environment and of the properties
    crashes, faults, late

tables == <<status, connection, snapshot, processed, order>>
polling == <<at, queue, now, session, feedsLeft, feed, candle, strategy, state,
             greet>>
bounds == <<crashes, faults>>
vars == <<tables, clock, polling, stopping, bounds, late>>

-----------------------------------------------------------------------------
Fresh == [x \in Streams |-> <<>>]

Init ==
    /\ status = [s \in Sessions |-> "absent"]
    /\ connection = [s \in Sessions |-> "starting"]
    /\ snapshot = [s \in Sessions |-> Fresh]
    /\ processed = [s \in Sessions |-> {}]
    /\ order = <<>>
    /\ clock = 0
    /\ at = "asleep" /\ queue = {} /\ now = 0 /\ session = None
    /\ feedsLeft = {} /\ feed = None /\ candle = 0 /\ strategy = 1 /\ state = Fresh
    /\ greet = FALSE
    /\ stopping = [r \in Stoppers |-> {}]
    /\ crashes = 0 /\ faults = 0
    /\ late = [s \in Sessions |-> 0]

(* A candle of every feed closes. *)
Tick ==
    /\ clock < MaxClock
    /\ clock' = clock + 1
    /\ UNCHANGED <<tables, polling, stopping, bounds, late>>

-----------------------------------------------------------------------------
(* PaperTradingService, on worker threads. *)

Start(s) ==
    /\ at # "down" /\ status[s] = "absent"
    /\ status' = [status EXCEPT ![s] = "active"]
    /\ order' = <<s>> \o order
    /\ UNCHANGED <<connection, snapshot, processed, clock, polling, stopping,
                   bounds, late>>

(* stop and stop_all load the rows they are about to write; a row that is  *)
(* not active is left alone.                                               *)
ReadStop(r, ids) ==
    /\ at # "down" /\ stopping[r] = {}
    /\ stopping' = [stopping EXCEPT ![r] = {s \in ids : status[s] = "active"}]
    /\ UNCHANGED <<tables, clock, polling, bounds, late>>

(* One UPDATE and COMMIT per session, whatever the row says by now: the    *)
(* status was read before, and stop_all's own reads find the loaded rows.  *)
WriteStop(r, s) ==
    /\ s \in stopping[r]
    /\ status' = [status EXCEPT ![s] = "stopped"]
    /\ connection' = [connection EXCEPT ![s] = "disconnected"]
    /\ stopping' = [stopping EXCEPT ![r] = @ \ {s}]
    /\ UNCHANGED <<snapshot, processed, order, clock, polling, bounds, late>>

-----------------------------------------------------------------------------
(* PaperSupervisor.poll_once *)

Followed(s) == UNION {Subs[s][k] : k \in Strategies}

(* list_active, with `now` read once for the cycle.                        *)
PollBegins ==
    /\ at = "asleep"
    /\ queue' = {s \in Sessions : status[s] = "active"}
    /\ now' = clock
    /\ at' = "sessions"
    /\ UNCHANGED <<tables, clock, greet, session, feedsLeft, feed, candle, strategy, state,
                   stopping, bounds, late>>

(* The newest of those that are left. *)
NextSession ==
    /\ at = "sessions"
    /\ \E i \in DOMAIN order :
         /\ order[i] \in queue /\ \A j \in 1..(i - 1) : order[j] \notin queue
         /\ session' = order[i]
         /\ queue' = queue \ {order[i]}
         /\ feedsLeft' = Followed(order[i])
    /\ at' = "feeds"
    /\ UNCHANGED <<tables, clock, greet, now, feed, candle, strategy, state, stopping,
                   bounds, late>>

(* The local variables of a cycle, of a candle and of on_candle go out of  *)
(* scope.                                                                  *)
LeaveCandle == strategy' = 1 /\ state' = Fresh /\ greet' = FALSE
LeaveCycle ==
    /\ LeaveCandle
    /\ queue' = {} /\ now' = 0 /\ session' = None /\ feedsLeft' = {}
    /\ feed' = None /\ candle' = 0

(* All sessions are served: sleep poll_seconds. *)
PollEnds ==
    /\ at = "sessions" /\ queue = {}
    /\ at' = "asleep"
    /\ LeaveCycle
    /\ UNCHANGED <<tables, clock, stopping, bounds, late>>

SessionDone ==
    /\ at = "feeds" /\ feedsLeft = {}
    /\ at' = "sessions"
    /\ session' = None
    /\ UNCHANGED <<tables, clock, greet, queue, now, feedsLeft, feed, candle, strategy,
                   state, stopping, bounds, late>>

(* The times of a feed that any strategy of the session has processed. *)
Times(s, f) == {p[3] : p \in {q \in processed[s] : q[2] = f}}

(* Faulty variant: the latest candle of the session, whatever its feed. *)
LatestOfSession(s, f) ==
    LET times == {p[3] : p \in processed[s]}
    IN  IF times = {} THEN 0 ELSE Max(times)

(* latest_processed looks at every strategy of the session; with nothing   *)
(* processed the last candles that opened within three intervals are due.  *)
Latest(s, f) == IF Times(s, f) = {} THEN 0 ELSE Max(Times(s, f))

(* Faulty variant: the first poll may ask for a candle before the first. *)
FirstDueUnclamped(s, f) ==
    IF Latest(s, f) > 0 THEN Latest(s, f) + 1 ELSE now - 1

FirstDue(s, f) ==
    IF Latest(s, f) > 0 THEN Latest(s, f) + 1
    ELSE IF now > 2 THEN now - 1 ELSE 1

(* fetch_candles in a thread returned the candles from FirstDue to now;    *)
(* subscriptions is a set, so the feeds come in any order.                 *)
FetchFeed(f) ==
    /\ at = "feeds" /\ f \in feedsLeft \ BrokenFeeds
    /\ feedsLeft' = feedsLeft \ {f}
    /\ IF FirstDue(session, f) <= now
       THEN at' = "candle" /\ feed' = f /\ candle' = FirstDue(session, f)
       ELSE UNCHANGED <<at, feed, candle>>
    /\ UNCHANGED <<tables, clock, greet, queue, now, session, strategy, state, stopping,
                   bounds, late>>

(* Faulty variant: the exception ends the supervisor task. *)
AbortSupervisor ==
    /\ at' = "dead"
    /\ LeaveCycle
    /\ UNCHANGED <<tables, clock, stopping, crashes, late>>

(* Any exception ends the cycle; _run stores it in last_error and sleeps.  *)
AbortCycle ==
    /\ at' = "asleep"
    /\ LeaveCycle
    /\ UNCHANGED <<tables, clock, stopping, crashes, late>>

FetchBroken(f) ==
    /\ at = "feeds" /\ f \in feedsLeft \cap BrokenFeeds
    /\ AbortCycle /\ UNCHANGED faults

-----------------------------------------------------------------------------
(* PaperRuntime.on_candle for the current candle *)

(* Faulty variant: the state of the session as it was started is used. *)
LoadNothing ==
    /\ at = "candle"
    /\ strategy' = 1
    /\ at' = "strategy"
    /\ UNCHANGED <<tables, clock, queue, now, session, feedsLeft, feed, candle, state,
                   greet, stopping, bounds, late>>

(* Load the session and copy its state. *)
LoadSession ==
    /\ at = "candle"
    /\ state' = snapshot[session]
    /\ strategy' = 1
    /\ at' = "strategy"
    /\ UNCHANGED <<tables, clock, greet, queue, now, session, feedsLeft, feed, candle, stopping,
                   bounds, late>>

Kind == StrategyOrder[strategy]
Identity == <<Kind, feed, candle>>
(* Faulty variant: a candle is done when any strategy has processed it. *)
ConcernedUnlessSeen ==
    /\ strategy <= Len(StrategyOrder)
    /\ feed \in Subs[session][Kind]
    /\ \A k \in Strategies : <<k, feed, candle>> \notin processed[session]
Concerned ==
    /\ strategy <= Len(StrategyOrder)
    /\ feed \in Subs[session][Kind]
    /\ Identity \notin processed[session]

SkipStrategy ==
    /\ at = "strategy" /\ strategy <= Len(StrategyOrder) /\ ~Concerned
    /\ strategy' = strategy + 1
    /\ UNCHANGED <<tables, clock, greet, at, queue, now, session, feedsLeft, feed, candle, state,
                   stopping, bounds, late>>

(* The strategy consumes the candle in memory; checkpoint then reads the   *)
(* row, and does nothing for a session that is no longer active.           *)
Process ==
    /\ at = "strategy" /\ Concerned
    /\ state' = [state EXCEPT ![<<Kind, feed>>] = Append(@, candle)]
    /\ IF status[session] = "active"
       THEN /\ at' = "commit"
            /\ greet' = (connection[session] # "connected")
            /\ UNCHANGED strategy
       ELSE at' = "strategy" /\ strategy' = strategy + 1 /\ UNCHANGED greet
    /\ UNCHANGED <<tables, clock, queue, now, session, feedsLeft, feed, candle, stopping,
                   bounds, late>>

(* Faulty variant: the whole row is written, with the status read before. *)
CommitWholeRow ==
    /\ at = "commit"
    /\ snapshot' = [snapshot EXCEPT ![session] = state]
    /\ processed' = [processed EXCEPT ![session] = @ \cup {Identity}]
    /\ status' = [status EXCEPT ![session] = "active"]
    /\ connection' = [connection EXCEPT ![session] = "connected"]
    /\ strategy' = strategy + 1 /\ greet' = FALSE
    /\ at' = "strategy"
    /\ UNCHANGED <<order, clock, queue, now, session, feedsLeft, feed, candle, state,
                   stopping, bounds, late>>

(* The commit writes the columns that changed since the read, status not   *)
(* among them, so a stop committed in between keeps its status.            *)
Commit ==
    /\ at = "commit"
    /\ snapshot' = [snapshot EXCEPT ![session] = state]
    /\ processed' = [processed EXCEPT ![session] = @ \cup {Identity}]
    /\ connection' = [connection EXCEPT ![session] =
                        IF greet THEN "connected" ELSE @]
    /\ late' = [late EXCEPT ![session] =
                  IF status[session] = "stopped" /\ @ < 2 THEN @ + 1 ELSE @]
    /\ strategy' = strategy + 1
    /\ greet' = FALSE
    /\ at' = "strategy"
    /\ UNCHANGED <<status, order, clock, queue, now, session, feedsLeft, feed, candle,
                   state, stopping, bounds>>

CandleDone ==
    /\ at = "strategy" /\ strategy > Len(StrategyOrder)
    /\ LeaveCandle
    /\ IF candle < now
       THEN at' = "candle" /\ candle' = candle + 1 /\ UNCHANGED feed
       ELSE at' = "feeds" /\ candle' = 0 /\ feed' = None
    /\ UNCHANGED <<tables, clock, queue, now, session, feedsLeft, stopping, bounds, late>>

-----------------------------------------------------------------------------
(* Failures *)

(* A fetch times out, a strategy raises or a database call fails. *)
TransientFault ==
    /\ at \in {"feeds", "candle", "strategy", "commit"} /\ faults < MaxFaults
    /\ faults' = faults + 1
    /\ AbortCycle

Crash ==
    /\ at # "down" /\ crashes < MaxCrashes
    /\ crashes' = crashes + 1
    /\ at' = "down"
    /\ LeaveCycle
    /\ stopping' = [r \in Stoppers |-> {}]
    /\ UNCHANGED <<tables, clock, faults, late>>

(* main.py starts the supervisor with the next process. *)
Restart ==
    /\ at = "down"
    /\ at' = "asleep"
    /\ UNCHANGED <<tables, clock, greet, queue, now, session, feedsLeft, feed, candle, strategy,
                   state, stopping, bounds, late>>

Supervise ==
    \/ PollBegins \/ NextSession \/ PollEnds \/ SessionDone
    \/ \E f \in Feeds : FetchFeed(f) \/ FetchBroken(f)
    \/ LoadSession \/ SkipStrategy \/ Process \/ Commit \/ CandleDone

Next ==
    \/ Tick \/ Supervise \/ TransientFault \/ Crash \/ Restart
    \/ \E s \in Sessions : Start(s)
    \/ \E r \in Stoppers :
         \/ ReadStop(r, Sessions)
         \/ \E s \in Sessions : ReadStop(r, {s}) \/ WriteStop(r, s)

Spec == Init /\ [][Next]_vars

(* The supervisor's loop never ends by itself, and the container restarts. *)
FairSpec == Spec /\ WF_vars(Supervise) /\ WF_vars(Restart)
-----------------------------------------------------------------------------
TypeOK ==
    /\ status \in [Sessions -> {"absent", "active", "stopped"}]
    /\ connection \in [Sessions -> {"starting", "connected", "disconnected"}]
    /\ snapshot \in [Sessions -> [Streams -> Seq(1..MaxClock)]]
    /\ processed \in [Sessions -> SUBSET (Strategies \X Feeds \X (1..MaxClock))]
    /\ order \in Seq(Sessions)
    /\ clock \in 0..MaxClock
    /\ at \in {"asleep", "sessions", "feeds", "candle", "strategy", "commit", "down"}
    /\ queue \subseteq Sessions
    /\ now \in 0..MaxClock
    /\ session \in Sessions \cup {None}
    /\ feedsLeft \subseteq Feeds
    /\ feed \in Feeds \cup {None}
    /\ candle \in 0..(MaxClock + 1)
    /\ strategy \in 1..(Len(StrategyOrder) + 1)
    /\ state \in [Streams -> Seq(1..MaxClock)]
    /\ greet \in BOOLEAN
    /\ stopping \in [Stoppers -> SUBSET Sessions]
    /\ crashes \in 0..MaxCrashes /\ faults \in 0..MaxFaults
    /\ late \in [Sessions -> 0..2]

(* The ledgers in state_snapshot are computed from exactly the candles     *)
(* marked as processed, each used once and in order of time, wherever the  *)
(* process died or the session was stopped (paper/repository.py:48-65).    *)
EachCandleOnce ==
    \A s \in Sessions, x \in Streams :
        /\ ToSet(snapshot[s][x]) = {t \in 1..MaxClock : <<x[1], x[2], t>> \in processed[s]}
        /\ \A i, j \in DOMAIN snapshot[s][x] : i < j => snapshot[s][x][i] < snapshot[s][x][j]

(* Neither a checkpoint under way nor anything else revives a session      *)
(* (paper/repository.py:55-64, paper/service.py:45-56).                    *)
StoppedForGood ==
    [][\A s \in Sessions : status[s] = "stopped" => status'[s] = "stopped"]_vars

(* A candle one strategy has processed and another one that follows the    *)
(* same feed will never get: latest_processed looks at all strategies.     *)
Lost(s) ==
    {x \in Strategies \X Feeds \X (1..MaxClock) :
        /\ x[2] \in Subs[s][x[1]] /\ x \notin processed[s]
        /\ \E k \in Strategies : <<k, x[2], x[3]>> \in processed[s]
        /\ ~(session = s /\ feed = x[2] /\ candle = x[3])}

(* Only a failure between two checkpoints of one candle loses it, and only *)
(* for the strategies that had not got it (paper/runtime.py:29-40).        *)
LossBounded ==
    \A s \in Sessions :
        status[s] = "active" =>
            Cardinality(Lost(s)) <= (Len(StrategyOrder) - 1) * (crashes + faults)

(* Every stream receives all candles from its first one on, in order, as   *)
(* the abstract specification promises.                                    *)
Delivery == INSTANCE PaperDelivery WITH
    Candles <- 1..MaxClock,
    state <- status,
    log <- snapshot,
    grace <- [s \in Sessions |-> late[s] = 0]
Implements == Delivery!Spec

(* What that takes: no feed is shared by two strategies of a session.       *)
FeedsApart ==
    \A s \in Sessions : \A k, l \in Strategies : k # l => Subs[s][k] \cap Subs[s][l] = {}

(* The candles that are due are processed in the end, or the session is    *)
(* stopped: transient failures and crashes only delay an active session.   *)
CatchesUp ==
    \A s \in Sessions : \A k \in Strategies : \A f \in Subs[s][k] \ BrokenFeeds :
        status[s] = "active" /\ clock = MaxClock
        ~> status[s] = "stopped" \/ <<k, f, MaxClock>> \in processed[s]
=============================================================================
