--------------------------- MODULE Configurations ---------------------------
(***************************************************************************)
(* Strategy configurations and their versions, with the requests that      *)
(* change them and those that copy them: a backtest into its job, a paper  *)
(* session into its snapshot (configurations/, backtest/service.py,        *)
(* paper/service.py, audit/service.py and their endpoints).                *)
(*                                                                         *)
(* Requests run on worker threads, each with a database session of its own *)
(* at READ COMMITTED; every SELECT and every commit is a step.  Submitting *)
(* a backtest is a coroutine: from its first query to the insertion of the *)
(* job it does not await, so no other submission runs in between, though   *)
(* worker threads do.                                                      *)
(***************************************************************************)
EXTENDS Naturals, Sequences, SequencesExt

CONSTANTS Workers,          \* threads that serve requests
          Names, Payloads,
          None,             \* what a request does not give
          MaxRequests, MaxCrashes, MaxFaults   \* bounds

ASSUME ConfigurationsAssumption ==
    /\ None \notin Names \cup Payloads
    /\ {MaxRequests, MaxCrashes, MaxFaults} \subseteq Nat

VARIABLES configurations,  \* strategy_configurations, in the order of creation
          versions,        \* strategy_configuration_versions, a set of rows
          jobs,            \* the backtests submitted, in that order
          sessions,        \* paper_sessions, in that order too
          trail,           \* audit_events, a set of rows
          task,            \* the local variables of the request of a thread
          lost,            \* what requests that were cut off would have recorded
          requests, crashes, faults   \* counters for the bounds

tables == <<configurations, versions, jobs, sessions, trail>>
counters == <<requests, crashes, faults>>
vars == <<tables, task, lost, counters>>

-----------------------------------------------------------------------------
(* A payload stands for what a version holds besides its name.              *)
Configuration == [stored : BOOLEAN, name : Names, current : Nat \ {0}]
Version == [configuration : Nat \ {0}, version : Nat \ {0}, name : Names, payload : Payloads]
(* The part of a job's payload or of a paper session that was copied; the    *)
(* configuration of a session becomes 0 when it is deleted.                 *)
Copy == [configuration : Nat, version : Nat \ {0}, payload : Payloads]
Job == [copy : Copy, confirmed : BOOLEAN]

(* An event names a configuration, or the session that was started; only an *)
(* update has a version with it.  Imports and clones are creations.         *)
Event == [op : {"create", "update", "delete", "start"}, subject : Nat \ {0}, version : Nat]

Ids == DOMAIN configurations
Stored(c) == c \in Ids /\ configurations[c].stored
Taken(name, c) == \E d \in Ids \ {c} : Stored(d) /\ configurations[d].name = name
Row(c, n) == {v \in versions : v.configuration = c /\ v.version = n}

(* What a request asks; `asked` is a version, or 0 for the current one.     *)
Ops == {"create", "update", "clone", "delete", "submit", "start", "list"}

Asks ==
    {a \in [op : Ops, subject : {0} \cup Ids, asked : 0..MaxRequests, confirm : BOOLEAN,
            name : {None} \cup Names, payload : {None} \cup Payloads] :
        /\ a.subject = 0 <=> a.op \in {"create", "list"}
        /\ a.asked # 0 =>
             a.op \in {"submit", "start"} /\ a.asked <= configurations[a.subject].current
        /\ a.confirm => a.op = "submit"
        /\ a.name = None <=> a.op \notin {"create", "update", "clone"}
        /\ a.payload = None <=> a.op \notin {"create", "update"}}

NoAsk == [op |-> "none", subject |-> 0, asked |-> 0, confirm |-> FALSE,
          name |-> None, payload |-> None]

Ask == [op : Ops \cup {"none"}, subject : Nat, asked : Nat, confirm : BOOLEAN,
        name : Names \cup {None}, payload : Payloads \cup {None}]

(* A thread: its request, where it is, the current version it has read, the *)
(* version it has loaded or stored, the session it has started, the rows a  *)
(* list has yet to load, how the request ended, and whether a deletion or a *)
(* fault fell into its time.                                                *)
Task ==
    [ask : Ask, current : Nat, version : SUBSET Version, session : Nat,
     pc : {"idle", "find", "load", "list", "each", "insert", "update", "delete", "audit",
           "check", "submit", "start"},
     left : SUBSET [configuration : Nat, current : Nat],
     outcome : {"none", "done", "missing", "conflict", "raised"}, disturbed : BOOLEAN]

NoTask == [ask |-> NoAsk, pc |-> "idle", current |-> 0, version |-> {}, session |-> 0,
           left |-> {}, outcome |-> "none", disturbed |-> FALSE]

Init ==
    /\ configurations = <<>> /\ versions = {} /\ jobs = <<>> /\ sessions = <<>> /\ trail = {}
    /\ task = [w \in Workers |-> NoTask]
    /\ lost = {} /\ requests = 0 /\ crashes = 0 /\ faults = 0

-----------------------------------------------------------------------------
Go(w, pc) == task' = [task EXCEPT ![w].pc = pc]

(* The request is over; what its locals held is gone.                       *)
Ended(w, outcome) ==
    [NoTask EXCEPT !.outcome = outcome, !.disturbed = task[w].disturbed]

End(w, outcome) == task' = [task EXCEPT ![w] = Ended(w, outcome)]

Begin(w) ==
    /\ task[w].pc = "idle" /\ requests < MaxRequests
    /\ \E ask \in Asks :
         task' = [task EXCEPT ![w] = [NoTask EXCEPT !.ask = ask,
                    !.pc = CASE ask.op = "create" -> "insert"
                             [] ask.op = "list" -> "list"
                             [] OTHER -> "find"]]
    /\ requests' = requests + 1
    /\ UNCHANGED <<tables, lost, crashes, faults>>

-----------------------------------------------------------------------------
(* ConfigurationRepository.get: the configuration, then its version. *)

(* Faulty variant: submissions run on worker threads like the rest. *)
OnLoopNobody == {}

(* The submissions that hold the event loop. *)
OnLoop ==
    {w \in Workers : task[w].ask.op = "submit" /\ task[w].pc \in {"load", "check", "submit"}}

Find(w) ==
    LET ask == task[w].ask
    IN  /\ task[w].pc = "find"
        /\ ask.op = "submit" => OnLoop = {}
        /\ IF Stored(ask.subject)
           THEN task' = [task EXCEPT
                           ![w].pc = IF ask.op = "delete" THEN "delete" ELSE "load",
                           ![w].current = configurations[ask.subject].current]
           ELSE End(w, "missing")
        /\ UNCHANGED <<tables, lost, counters>>

Resolved(w) == IF task[w].ask.asked = 0 THEN task[w].current ELSE task[w].ask.asked

(* Faulty variant: that no version was found is overlooked. *)
LoadUnchecked(w) ==
    /\ task[w].pc = "load"
    /\ task' = [task EXCEPT
                  ![w].version = Row(task[w].ask.subject, Resolved(w)),
                  ![w].pc = CASE task[w].ask.op = "update" -> "update"
                              [] task[w].ask.op = "clone" -> "insert"
                              [] task[w].ask.op = "submit" -> "check"
                              [] task[w].ask.op = "start" -> "start"]
    /\ UNCHANGED <<tables, lost, counters>>

(* Deleted in the meantime, the versions are gone with the configuration.   *)
Load(w) ==
    LET row == Row(task[w].ask.subject, Resolved(w))
    IN  /\ task[w].pc = "load"
        /\ IF row # {}
           THEN task' = [task EXCEPT
                           ![w].version = row,
                           ![w].pc = CASE task[w].ask.op = "update" -> "update"
                                       [] task[w].ask.op = "clone" -> "insert"
                                       [] task[w].ask.op = "submit" -> "check"
                                       [] task[w].ask.op = "start" -> "start"]
           ELSE End(w, "missing")
        /\ UNCHANGED <<tables, lost, counters>>

(* list: every configuration at once, then the version of each, with the    *)
(* number read before; a version that is not found is not expected.         *)
ListAll(w) ==
    /\ task[w].pc = "list"
    /\ task' = [task EXCEPT
                  ![w].pc = "each",
                  ![w].left = {[configuration |-> c, current |-> configurations[c].current] :
                                  c \in {d \in Ids : Stored(d)}}]
    /\ UNCHANGED <<tables, lost, counters>>

ListEach(w) ==
    /\ task[w].pc = "each"
    /\ \/ task[w].left = {} /\ End(w, "done")
       \/ \E item \in task[w].left :
            /\ \A other \in task[w].left : other.configuration <= item.configuration
            /\ IF Row(item.configuration, item.current) # {}
               THEN task' = [task EXCEPT ![w].left = @ \ {item}]
               ELSE End(w, "raised")
    /\ UNCHANGED <<tables, lost, counters>>

-----------------------------------------------------------------------------
(* Changes.  A commit either applies everything or, on a violated           *)
(* constraint, nothing.                                                     *)

Recorded(w, version) ==
    task' = [task EXCEPT ![w].pc = "audit", ![w].version = {version}]

(* Faulty variant: the violation of the constraint is not caught. *)
RejectedUncaught(w) == End(w, "raised")

(* _commit: a violated constraint is reported as a name in use. *)
Rejected(w) == End(w, "conflict")

(* create, and clone with the payload of the version it has loaded. *)
Insert(w) ==
    LET ask == task[w].ask
        payload == IF ask.op = "clone" THEN (CHOOSE v \in task[w].version : TRUE).payload
                   ELSE ask.payload
        version == [configuration |-> Len(configurations) + 1, version |-> 1,
                    name |-> ask.name, payload |-> payload]
    IN  /\ task[w].pc = "insert"
        /\ IF Taken(ask.name, 0)
           THEN Rejected(w) /\ UNCHANGED <<configurations, versions>>
           ELSE /\ configurations' = Append(configurations,
                       [stored |-> TRUE, name |-> ask.name, current |-> 1])
                /\ versions' = versions \cup {version}
                /\ Recorded(w, version)
        /\ UNCHANGED <<jobs, sessions, trail, lost, counters>>

(* Faulty variant: the table of versions lacks its unique constraint. *)
ViolatedNameOnly(ask, number) == Taken(ask.name, ask.subject)

(* The name is in use, or somebody else has stored a version of that number *)
(* since the current one was read.                                          *)
Violated(ask, number) == Taken(ask.name, ask.subject) \/ Row(ask.subject, number) # {}

(* A row that is gone cannot be updated, which raises.                      *)
Update(w) ==
    LET ask == task[w].ask
        number == task[w].current + 1
        version == [configuration |-> ask.subject, version |-> number,
                    name |-> ask.name, payload |-> ask.payload]
    IN  /\ task[w].pc = "update"
        /\ \/ /\ ~Stored(ask.subject)
              /\ End(w, "raised") /\ UNCHANGED <<configurations, versions>>
           \/ /\ Stored(ask.subject) /\ Violated(ask, number)
              /\ Rejected(w) /\ UNCHANGED <<configurations, versions>>
           \/ /\ Stored(ask.subject) /\ ~Violated(ask, number)
              /\ configurations' = [configurations EXCEPT ![ask.subject].name = ask.name,
                                                          ![ask.subject].current = number]
              /\ versions' = versions \cup {version}
              /\ Recorded(w, version)
        /\ UNCHANGED <<jobs, sessions, trail, lost, counters>>

(* The versions go with the configuration, sessions keep their copy.  A row *)
(* that is gone already is deleted without complaint.                       *)
Delete(w) ==
    LET c == task[w].ask.subject
    IN  /\ task[w].pc = "delete"
        /\ configurations' = [configurations EXCEPT ![c].stored = FALSE]
        /\ versions' = {v \in versions : v.configuration # c}
        /\ sessions' = [n \in DOMAIN sessions |->
                          [sessions[n] EXCEPT !.configuration = IF @ = c THEN 0 ELSE @]]
        /\ task' = [v \in Workers |->
                      CASE v = w -> [task[w] EXCEPT !.pc = "audit"]
                        [] v # w /\ task[v].pc # "idle" -> [task[v] EXCEPT !.disturbed = TRUE]
                        [] OTHER -> task[v]]
        /\ UNCHANGED <<jobs, trail, lost, counters>>

(* Faulty variant: a clone is recorded for its source. *)
EventsOfSource(w) ==
    LET ask == task[w].ask
    IN  CASE ask.op = "delete" -> {[op |-> "delete", subject |-> ask.subject, version |-> 0]}
          [] ask.op = "start" -> {[op |-> "start", subject |-> task[w].session, version |-> 0]}
          [] ask.op = "update" -> {[op |-> "update", subject |-> ask.subject,
                                    version |-> v.version] : v \in task[w].version}
          [] ask.op = "clone" -> {[op |-> "create", subject |-> ask.subject, version |-> 0]}
          [] OTHER -> {[op |-> "create", subject |-> v.configuration, version |-> 0] :
                          v \in task[w].version}

(* What the handlers tell AuditService.record.                              *)
Events(w) ==
    LET ask == task[w].ask
    IN  CASE ask.op = "delete" -> {[op |-> "delete", subject |-> ask.subject, version |-> 0]}
          [] ask.op = "start" -> {[op |-> "start", subject |-> task[w].session, version |-> 0]}
          [] ask.op = "update" -> {[op |-> "update", subject |-> ask.subject,
                                    version |-> v.version] : v \in task[w].version}
          [] OTHER -> {[op |-> "create", subject |-> v.configuration, version |-> 0] :
                          v \in task[w].version}

(* The events of requests that have made their change and not yet said so.  *)
Underway == UNION {Events(w) : w \in {v \in Workers : task[v].pc = "audit"}}

(* record commits once more, then the request is answered.                  *)
Audit(w) ==
    /\ task[w].pc = "audit"
    /\ trail' = trail \cup Events(w)
    /\ End(w, "done")
    /\ UNCHANGED <<configurations, versions, jobs, sessions, lost, counters>>

-----------------------------------------------------------------------------
(* Copies *)

(* Faulty variant: the number of the current version goes with the payload. *)
CopyOfCurrent(w, v) ==
    [configuration |-> v.configuration, version |-> task[w].current, payload |-> v.payload]

CopyOf(w, v) ==
    [configuration |-> v.configuration, version |-> v.version, payload |-> v.payload]

(* create_run: has this very configuration been submitted before? *)
Check(w) ==
    /\ task[w].pc = "check"
    /\ IF /\ ~task[w].ask.confirm
          /\ \E v \in task[w].version, n \in DOMAIN jobs : jobs[n].copy.payload = v.payload
       THEN End(w, "conflict")
       ELSE Go(w, "submit")
    /\ UNCHANGED <<tables, lost, counters>>

Submit(w) ==
    /\ task[w].pc = "submit"
    /\ \E v \in task[w].version :
         jobs' = Append(jobs, [copy |-> CopyOf(w, v), confirmed |-> task[w].ask.confirm])
    /\ End(w, "done")
    /\ UNCHANGED <<configurations, versions, sessions, trail, lost, counters>>

(* PaperTradingService.start: a session refers to a configuration that must *)
(* exist when it is inserted.                                               *)
Start(w) ==
    /\ task[w].pc = "start"
    /\ IF Stored(task[w].ask.subject)
       THEN /\ \E v \in task[w].version : sessions' = Append(sessions, CopyOf(w, v))
            /\ task' = [task EXCEPT ![w].pc = "audit", ![w].session = Len(sessions) + 1]
       ELSE End(w, "raised") /\ UNCHANGED sessions
    /\ UNCHANGED <<configurations, versions, jobs, trail, lost, counters>>

-----------------------------------------------------------------------------
(* A statement fails and its transaction is rolled back; what was committed *)
(* before stays.                                                            *)
Fail(w) ==
    /\ task[w].pc # "idle" /\ faults < MaxFaults
    /\ task' = [task EXCEPT ![w] = [Ended(w, "raised") EXCEPT !.disturbed = TRUE]]
    /\ lost' = IF task[w].pc = "audit" THEN lost \cup Events(w) ELSE lost
    /\ faults' = faults + 1
    /\ UNCHANGED <<tables, requests, crashes>>

(* The process dies and is started again: every request is gone.            *)
Crash ==
    /\ crashes < MaxCrashes /\ \E w \in Workers : task[w].pc # "idle"
    /\ task' = [w \in Workers |-> NoTask]
    /\ lost' = lost \cup Underway
    /\ crashes' = crashes + 1
    /\ UNCHANGED <<tables, requests, faults>>

Step(w) ==
    \/ Begin(w) \/ Find(w) \/ Load(w) \/ ListAll(w) \/ ListEach(w)
    \/ Insert(w) \/ Update(w) \/ Delete(w) \/ Audit(w)
    \/ Check(w) \/ Submit(w) \/ Start(w) \/ Fail(w)

Next == Crash \/ \E w \in Workers : Step(w)

Spec == Init /\ [][Next]_vars

-----------------------------------------------------------------------------
(* Vocabulary of the properties. *)

(* The versions of a configuration by number. *)
Content(c, n) ==
    LET v == CHOOSE v \in Row(c, n) : TRUE
    IN  [name |-> v.name, payload |-> v.payload]

History(c) ==
    IF configurations[c].stored
    THEN [n \in 1..configurations[c].current |-> Content(c, n)]
    ELSE <<>>

Promise == INSTANCE VersionHistory WITH history <- [c \in Ids |-> History(c)]

Copies == {jobs[n].copy : n \in DOMAIN jobs} \cup ToSet(sessions)

(* What there is to be recorded, as the tables tell it.                     *)
Created == {[op |-> "create", subject |-> c, version |-> 0] : c \in Ids}
Updated ==
    UNION {{[op |-> "update", subject |-> c, version |-> n] : n \in 2..configurations[c].current} :
              c \in Ids}
Deleted ==
    {[op |-> "delete", subject |-> c, version |-> 0] : c \in {d \in Ids : ~Stored(d)}}
Started == {[op |-> "start", subject |-> n, version |-> 0] : n \in DOMAIN sessions}

Changes == Created \cup Updated \cup Deleted \cup Started

-----------------------------------------------------------------------------
(* The one version a request has found or stored.                           *)
Loaded(w) == \E v \in task[w].version : task[w].version = {v}

(* Every variable has its type, and a request that goes on past a SELECT    *)
(* holds what it selected.                                                  *)
TypeOK ==
    /\ configurations \in Seq(Configuration)
    /\ versions \subseteq Version
    /\ jobs \in Seq(Job) /\ sessions \in Seq(Copy)
    /\ trail \subseteq Event /\ lost \subseteq Event
    /\ task \in [Workers -> Task]
    /\ \A w \in Workers :
         /\ task[w].pc \in {"find", "load", "update", "delete", "check", "submit", "start"}
            => task[w].ask.subject \in Ids
         /\ task[w].pc \in {"load", "update", "check", "submit", "start"}
            => task[w].current # 0
         /\ task[w].pc \in {"update", "check", "submit", "start"} => Loaded(w)
    /\ {requests, crashes, faults} \subseteq Nat

(* Every change of a configuration is one atomic step, however the requests *)
(* behind it interleave: an update appends the version after the one that   *)
(* is current now, so it is never built on a version somebody else has      *)
(* superseded, and no version changes or disappears while its configuration *)
(* exists (configurations/repository.py:54-107, models.py:36).              *)
Implements == Promise!Spec

(* What a job or a paper session copied is the payload of the version it    *)
(* names, as long as that exists, and two copies of a version never differ, *)
(* not even when it is deleted meanwhile (backtest/service.py:148-165,      *)
(* paper/service.py:18-43).                                                 *)
SnapshotsMatch ==
    /\ \A copy \in Copies : Stored(copy.configuration) =>
         \A v \in Row(copy.configuration, copy.version) : v.payload = copy.payload
    /\ \A one, other \in Copies :
         one.configuration # 0 /\ one.configuration = other.configuration
         /\ one.version = other.version => one.payload = other.payload

(* Of two backtests of the same payload the later one was confirmed, also   *)
(* when they are submitted at the same time (backtest/service.py:152-157).  *)
NoSilentDuplicates ==
    \A n, m \in DOMAIN jobs :
        n < m /\ jobs[n].copy.payload = jobs[m].copy.payload => jobs[m].confirmed

(* A request fails with an error nobody handles only if a configuration was *)
(* deleted or the database failed while it ran; in particular a race of two *)
(* updates is answered (configurations/repository.py:37,92,102).            *)
OnlyDeletionsRaise ==
    \A w \in Workers : task[w].outcome = "raised" => task[w].disturbed

(* The audit trail tells of nothing that did not happen, and leaves out     *)
(* only a change whose request is about to record it or was cut off, by the *)
(* database or with the process, between its two commits                    *)
(* (configurations/repository.py:102, audit/service.py:22-23).              *)
TrailTellsTrue == Changes = trail \cup Underway \cup lost
=============================================================================
