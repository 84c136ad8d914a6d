------------------------- MODULE ConfigurationsProofs -------------------------
(***************************************************************************)
(* That the histories of configurations grow one version at a time, that   *)
(* copies agree with them and that nothing is copied twice unnoticed, for  *)
(* any number of requests, threads, names and payloads.  The invariant is  *)
(* IInv.                                                                   *)
(***************************************************************************)
EXTENDS Configurations, TLAPS

-----------------------------------------------------------------------------
(* The inductive invariant behind these properties. *)

(* The versions of a configuration are numbered from one to the current     *)
(* one, each number once, and the current one has its name.                 *)
RowsConsecutive ==
    /\ \A v \in versions :
         Stored(v.configuration) /\ v.version <= configurations[v.configuration].current
    /\ \A c \in Ids : Stored(c) =>
         /\ \A n \in 1..configurations[c].current : \E v \in versions : Row(c, n) = {v}
         /\ \A v \in Row(c, configurations[c].current) : v.name = configurations[c].name

NamesUnique ==
    \A c, d \in Ids :
        Stored(c) /\ Stored(d) /\ configurations[c].name = configurations[d].name => c = d

AskFits(a) ==
    /\ a.op \in {"update", "clone", "delete", "submit", "start"} => a.subject \in Ids
    /\ a.op \in {"create", "update", "clone"} => a.name \in Names
    /\ a.op \in {"create", "update"} => a.payload \in Payloads

(* Where a request is fits what it asks, and what it needs it has.          *)
AtItsPlace(w) ==
    LET pc == task[w].pc
        op == task[w].ask.op
    IN  /\ AskFits(task[w].ask)
        /\ pc = "find" => op \in {"update", "clone", "delete", "submit", "start"}
        /\ pc = "load" => op \in {"update", "clone", "submit", "start"}
        /\ pc = "insert" => op = "create" \/ (op = "clone" /\ Loaded(w))
        /\ pc = "update" => op = "update"
        /\ pc = "delete" => op = "delete"
        /\ pc \in {"check", "submit"} => op = "submit"
        /\ pc = "start" => op = "start"
        /\ pc = "audit" =>
             \/ (op \in {"create", "update", "clone"} /\ Loaded(w))
             \/ (op = "start" /\ task[w].session # 0)
             \/ (op = "delete" /\ ~Stored(task[w].ask.subject))

(* What a request has read was so, and still is unless it was disturbed.    *)
ReadTrue(w) ==
    LET t == task[w]
    IN  /\ \A v \in t.version :
             v.configuration \in Ids /\ v.version <= configurations[v.configuration].current
        /\ t.pc \in {"load", "update", "check", "submit", "start"} =>
             t.current <= configurations[t.ask.subject].current
        /\ ~t.disturbed /\ t.pc \in {"load", "update", "start"} => Stored(t.ask.subject)
        /\ ~t.disturbed /\ t.pc = "each" =>
             \A item \in t.left : Row(item.configuration, item.current) # {}

(* No two versions anybody has ever read or copied share a number and       *)
(* differ, and none has a number that is yet to be given.                   *)
AsCopy(v) ==
    [configuration |-> v.configuration, version |-> v.version, payload |-> v.payload]
Seen ==
    {AsCopy(v) : v \in versions \cup UNION {task[w].version : w \in Workers}}
        \cup {copy \in Copies : copy.configuration # 0}

SeenAgree ==
    /\ \A one \in Seen :
         one.configuration \in Ids /\ one.version <= configurations[one.configuration].current
    /\ \A one, other \in Seen :
         one.configuration = other.configuration /\ one.version = other.version
         => one.payload = other.payload

(* Only one submission is between its first query and its job, and once it  *)
(* is past its check no such job is added by anybody else.                  *)
OneSubmission ==
    /\ \A u, w \in OnLoop : u = w
    /\ \A w \in Workers : task[w].pc = "submit" /\ ~task[w].ask.confirm =>
         \A v \in task[w].version, n \in DOMAIN jobs : jobs[n].copy.payload # v.payload

IInv ==
    /\ TypeOK /\ RowsConsecutive /\ NamesUnique /\ SeenAgree
    /\ NoSilentDuplicates /\ OneSubmission /\ OnlyDeletionsRaise
    /\ \A w \in Workers : AtItsPlace(w) /\ ReadTrue(w)

-----------------------------------------------------------------------------
(* Types *)

Places == {"idle", "find", "load", "list", "each", "insert", "update", "delete", "audit",
           "check", "submit", "start"}
Outcomes == {"none", "done", "missing", "conflict", "raised"}
Items == [configuration : Nat, current : Nat]

LEMMA TaskFields ==
  ASSUME NEW t \in Task
  PROVE  /\ t.ask \in Ask /\ t.current \in Nat /\ t.version \in SUBSET Version
         /\ t.session \in Nat /\ t.pc \in Places /\ t.left \in SUBSET Items
         /\ t.outcome \in Outcomes /\ t.disturbed \in BOOLEAN
  BY DEF Task, Places, Outcomes, Items

LEMMA NoTaskFields ==
  /\ NoTask \in Task /\ NoTask.ask = NoAsk /\ NoTask.pc = "idle" /\ NoTask.version = {}
  /\ NoTask.outcome = "none"
  BY DEF Task, NoTask, Ask, NoAsk

LEMMA ReplacedInSeq ==
  ASSUME NEW S, NEW q \in Seq(S), NEW i \in DOMAIN q, NEW x \in S
  PROVE  [q EXCEPT ![i] = x] \in Seq(S)
  OBVIOUS

-----------------------------------------------------------------------------
(* The table of configurations *)

LEMMA ConfigurationRemoved ==
  ASSUME configurations \in Seq(Configuration), NEW c \in Ids,
         configurations' = [configurations EXCEPT ![c].stored = FALSE]
  PROVE  /\ configurations' \in Seq(Configuration) /\ Ids' = Ids
         /\ \A d \in Ids : /\ configurations'[d].name = configurations[d].name
                           /\ configurations'[d].current = configurations[d].current
         /\ \A d \in Ids \ {c} : configurations'[d] = configurations[d]
         /\ ~Stored(c)'
         /\ \A d : d # c => (Stored(d)' <=> Stored(d))
  <1> DEFINE r == [configurations[c] EXCEPT !.stored = FALSE]
  <1>1. configurations[c] \in Configuration
    BY DEF Ids
  <1>2. r \in Configuration
    BY <1>1 DEF Configuration
  <1>3. ~r.stored /\ r.name = configurations[c].name /\ r.current = configurations[c].current
    BY <1>1, <1>2 DEF Configuration
  <1>4. configurations' = [configurations EXCEPT ![c] = r]
    OBVIOUS
  <1> HIDE DEF r
  <1>5. [configurations EXCEPT ![c] = r] \in Seq(Configuration)
    BY <1>2, ReplacedInSeq, Zenon DEF Ids
  <1>6. Ids' = Ids /\ configurations'[c] = r /\ \A d \in Ids \ {c} : configurations'[d] = configurations[d]
    BY <1>4 DEF Ids
  <1> QED
    BY <1>3, <1>4, <1>5, <1>6 DEF Stored

LEMMA ConfigurationAppended ==
  ASSUME configurations \in Seq(Configuration), NEW n \in Names, NEW c, c = Len(configurations) + 1,
         configurations' = Append(configurations, [stored |-> TRUE, name |-> n, current |-> 1])
  PROVE  /\ configurations' \in Seq(Configuration)
         /\ c \notin Ids /\ Ids' = Ids \cup {c}
         /\ configurations'[c].name = n /\ configurations'[c].current = 1 /\ Stored(c)'
         /\ \A d \in Ids : configurations'[d] = configurations[d] /\ (Stored(d)' <=> Stored(d))
  <1> DEFINE r == [stored |-> TRUE, name |-> n, current |-> 1]
  <1>1. r \in Configuration /\ r.stored /\ r.name = n /\ r.current = 1
    BY DEF Configuration
  <1>2. configurations' = Append(configurations, r)
    OBVIOUS
  <1> HIDE DEF r
  <1>3. configurations' \in Seq(Configuration) /\ c \notin Ids /\ Ids' = Ids \cup {c}
    BY <1>1, <1>2 DEF Ids
  <1>4. configurations'[c] = r /\ \A d \in Ids : configurations'[d] = configurations[d]
    BY <1>1, <1>2 DEF Ids
  <1>5. configurations'[c].stored
    BY <1>1, <1>4, Zenon
  <1>6. Stored(c)'
    BY <1>3, <1>5, Zenon DEF Stored
  <1>7. \A d \in Ids : (Stored(d)' <=> Stored(d))
    BY <1>3, <1>4 DEF Stored
  <1> QED
    BY <1>1, <1>3, <1>4, <1>6, <1>7

LEMMA ConfigurationChanged ==
  ASSUME configurations \in Seq(Configuration), NEW c \in Ids, NEW n \in Names, NEW k \in Nat \ {0},
         configurations' = [configurations EXCEPT ![c].name = n, ![c].current = k]
  PROVE  /\ configurations' \in Seq(Configuration) /\ Ids' = Ids
         /\ configurations'[c].name = n /\ configurations'[c].current = k
         /\ \A d \in Ids \ {c} : configurations'[d] = configurations[d]
         /\ \A d : Stored(d)' <=> Stored(d)
  <1> DEFINE r == [configurations[c] EXCEPT !.name = n, !.current = k]
  <1>1. configurations[c] \in Configuration
    BY DEF Ids
  <1>2. r \in Configuration
    BY <1>1 DEF Configuration
  <1>3. (r.stored <=> configurations[c].stored) /\ r.name = n /\ r.current = k
    BY <1>1, <1>2 DEF Configuration
  <1>4. configurations' = [configurations EXCEPT ![c] = r]
    BY DEF Ids
  <1> HIDE DEF r
  <1>5. [configurations EXCEPT ![c] = r] \in Seq(Configuration)
    BY <1>2, ReplacedInSeq, Zenon DEF Ids
  <1>6. Ids' = Ids /\ configurations'[c] = r /\ \A d \in Ids \ {c} : configurations'[d] = configurations[d]
    BY <1>4 DEF Ids
  <1> QED
    BY <1>3, <1>4, <1>5, <1>6 DEF Stored

-----------------------------------------------------------------------------
(* What a step makes of the task of its thread *)

Others(w) == task' \in [Workers -> Task] /\ \A u \in Workers \ {w} : task'[u] = task[u]

LEMMA EndTask ==
  ASSUME TypeOK, NEW w \in Workers, NEW o \in Outcomes, End(w, o)
  PROVE  /\ Others(w)
         /\ task'[w].pc = "idle" /\ task'[w].ask = NoAsk /\ task'[w].version = {}
         /\ task'[w].outcome = o /\ (task'[w].disturbed <=> task[w].disturbed)
  <1> DEFINE t == Ended(w, o)
  <1>1. task[w].disturbed \in BOOLEAN
    BY TaskFields DEF TypeOK
  <1>2. t \in Task /\ t.ask = NoAsk /\ t.pc = "idle" /\ t.version = {} /\ t.outcome = o
    BY <1>1, NoTaskFields DEF Ended, Task, Outcomes
  <1>3. t.disturbed <=> task[w].disturbed
    BY <1>1, NoTaskFields DEF Ended, Task
  <1>4. task' = [task EXCEPT ![w] = t] /\ task \in [Workers -> Task]
    BY DEF End, TypeOK
  <1> HIDE DEF t
  <1> QED
    BY <1>2, <1>3, <1>4 DEF Others

LEMMA FailTask ==
  ASSUME TypeOK, NEW w \in Workers, Fail(w)
  PROVE  /\ Others(w)
         /\ task'[w].pc = "idle" /\ task'[w].ask = NoAsk /\ task'[w].version = {}
         /\ task'[w].disturbed
  <1> DEFINE t == [Ended(w, "raised") EXCEPT !.disturbed = TRUE]
  <1>1. t \in Task /\ t.ask = NoAsk /\ t.pc = "idle" /\ t.version = {}
    BY NoTaskFields DEF Ended, Task
  <1>2. t.disturbed
    BY NoTaskFields DEF Ended, Task
  <1>3. task' = [task EXCEPT ![w] = t] /\ task \in [Workers -> Task]
    BY DEF Fail, TypeOK
  <1> HIDE DEF t
  <1> QED
    BY <1>1, <1>2, <1>3 DEF Others

LEMMA NewTask ==
  ASSUME TypeOK, NEW w \in Workers, NEW t \in Task, task' = [task EXCEPT ![w] = t]
  PROVE  Others(w) /\ task'[w] = t
  BY DEF TypeOK, Others

LEMMA AsksFit ==
  ASSUME TypeOK, NEW a \in Asks
  PROVE  a \in Ask /\ AskFits(a) /\ a.op \in Ops
  BY ConfigurationsAssumption DEF Asks, Ask, AskFits, Ops, TypeOK, Ids

LEMMA BeginTask ==
  ASSUME TypeOK, NEW w \in Workers, Begin(w)
  PROVE  /\ Others(w)
         /\ task'[w].ask \in Asks /\ task'[w].version = {} /\ task'[w].outcome = "none"
         /\ \/ task'[w].ask.op = "create" /\ task'[w].pc = "insert"
            \/ task'[w].ask.op = "list" /\ task'[w].pc = "list"
            \/ task'[w].ask.op \notin {"create", "list"} /\ task'[w].pc = "find"
  <1>1. PICK a \in Asks : task' = [task EXCEPT ![w] = [NoTask EXCEPT !.ask = a,
                            !.pc = CASE a.op = "create" -> "insert"
                                     [] a.op = "list" -> "list"
                                     [] OTHER -> "find"]]
    BY DEF Begin
  <1>2. a \in Ask
    BY AsksFit
  <1> DEFINE t == [NoTask EXCEPT !.ask = a,
                            !.pc = CASE a.op = "create" -> "insert"
                                     [] a.op = "list" -> "list"
                                     [] OTHER -> "find"]
  <1>3. /\ t \in Task /\ t.ask = a /\ t.version = {} /\ t.outcome = "none"
        /\ t.pc = CASE a.op = "create" -> "insert" [] a.op = "list" -> "list" [] OTHER -> "find"
    BY <1>2, NoTaskFields DEF Task
  <1>4. task' = [task EXCEPT ![w] = t] /\ task \in [Workers -> Task]
    BY <1>1 DEF TypeOK
  <1> HIDE DEF t
  <1> QED
    BY <1>3, <1>4 DEF Others

-----------------------------------------------------------------------------
(* The parts of the invariant that are about one thread, and what keeps     *)
(* them while others are at work.                                           *)

Local(w) ==
    /\ task[w].pc \in {"find", "load", "update", "delete", "check", "submit", "start"}
       => task[w].ask.subject \in Ids
    /\ task[w].pc \in {"load", "update", "check", "submit", "start"} => task[w].current # 0
    /\ task[w].pc \in {"update", "check", "submit", "start"} => Loaded(w)
    /\ task[w].outcome = "raised" => task[w].disturbed
    /\ AtItsPlace(w) /\ ReadTrue(w)

Typed ==
    /\ configurations \in Seq(Configuration)
    /\ versions \subseteq Version
    /\ jobs \in Seq(Job) /\ sessions \in Seq(Copy)
    /\ trail \subseteq Event /\ lost \subseteq Event
    /\ task \in [Workers -> Task]
    /\ {requests, crashes, faults} \subseteq Nat

LEMMA Parts ==
  IInv <=>
    /\ Typed /\ \A w \in Workers : Local(w)
    /\ RowsConsecutive /\ NamesUnique /\ SeenAgree /\ NoSilentDuplicates /\ OneSubmission
  BY DEF IInv, TypeOK, Typed, Local, OnlyDeletionsRaise

LEMMA Listed ==
  ASSUME NEW q \in Seq(Configuration)
  PROVE  /\ DOMAIN q = 1..Len(q) /\ Len(q) \in Nat
         /\ \A c \in DOMAIN q : q[c].name \in Names /\ q[c].current \in Nat \ {0}
  <1>1. DOMAIN q = 1..Len(q) /\ Len(q) \in Nat /\ \A c \in DOMAIN q : q[c] \in Configuration
    OBVIOUS
  <1> QED
    BY <1>1 DEF Configuration

LEMMA IdsNumbered ==
  /\ Typed => /\ Ids = 1..Len(configurations) /\ Len(configurations) \in Nat
              /\ \A c \in Ids : /\ configurations[c].name \in Names
                                /\ configurations[c].current \in Nat \ {0}
  /\ Typed' => \A c \in Ids' : /\ configurations'[c].name \in Names
                               /\ configurations'[c].current \in Nat \ {0}
  <1>1. Typed => configurations \in Seq(Configuration)
    BY DEF Typed
  <1>2. Typed' => configurations' \in Seq(Configuration)
    BY DEF Typed
  <1> QED
    BY <1>1, <1>2, Listed DEF Ids

(* Nothing is forgotten, and what is deleted stays deleted. *)
Grows ==
    \A c \in Ids : /\ c \in Ids' /\ configurations'[c].current >= configurations[c].current
                   /\ Stored(c)' => Stored(c)

LEMMA UnchangedGrows == ASSUME Typed, UNCHANGED configurations PROVE Grows
  BY IdsNumbered DEF Grows, Ids, Stored

LEMMA LocalKept ==
  ASSUME IInv, Typed', Grows, NEW u \in Workers,
         task'[u].ask = task[u].ask, task'[u].pc = task[u].pc,
         task'[u].current = task[u].current, task'[u].version = task[u].version,
         task'[u].session = task[u].session,
         task'[u].left = task[u].left, task'[u].outcome = task[u].outcome,
         task[u].disturbed => task'[u].disturbed,
         task[u].pc = "idle" \/ task'[u].disturbed
         \/ (versions \subseteq versions' /\ \A c \in Ids : Stored(c) => Stored(c)')
  PROVE  Local(u)'
  <1>1. Typed /\ Local(u)
    BY Parts
  <1>2. task[u] \in Task /\ task[u].current \in Nat /\ task[u].version \subseteq Version
    BY <1>1, TaskFields DEF Typed
  <1>3. /\ \A c \in Ids : configurations[c].current \in Nat
        /\ \A c \in Ids' : configurations'[c].current \in Nat
    BY <1>1, IdsNumbered
  <1>4. AtItsPlace(u)'
    BY <1>1 DEF Local, AtItsPlace, AskFits, Loaded, Grows
  <1>5. ReadTrue(u)'
    <2>1. \A v \in task[u].version :
            v.configuration \in Ids' /\ v.version <= configurations'[v.configuration].current
      <3> SUFFICES ASSUME NEW v \in task[u].version
                   PROVE  v.configuration \in Ids'
                          /\ v.version <= configurations'[v.configuration].current
        OBVIOUS
      <3>1. v.version \in Nat
        BY <1>2 DEF Version
      <3>2. v.configuration \in Ids /\ v.version <= configurations[v.configuration].current
        BY <1>1 DEF Local, ReadTrue
      <3>3. configurations[v.configuration].current \in Nat /\ configurations'[v.configuration].current \in Nat
        BY <1>3, <3>2 DEF Grows
      <3> QED
        BY <3>1, <3>2, <3>3 DEF Grows
    <2>2. task'[u].pc \in {"load", "update", "check", "submit", "start"} =>
            task'[u].current <= configurations'[task'[u].ask.subject].current
      <3> SUFFICES ASSUME task[u].pc \in {"load", "update", "check", "submit", "start"}
                   PROVE  task[u].current <= configurations'[task[u].ask.subject].current
        OBVIOUS
      <3>1. /\ task[u].ask.subject \in Ids
            /\ task[u].current <= configurations[task[u].ask.subject].current
        BY <1>1 DEF Local, ReadTrue
      <3> QED
        BY <1>2, <1>3, <3>1 DEF Grows
    <2>3. ~task'[u].disturbed /\ task'[u].pc \in {"load", "update", "start"} =>
            Stored(task[u].ask.subject)'
      BY <1>1 DEF Local, ReadTrue
    <2>4. ~task'[u].disturbed /\ task'[u].pc = "each" =>
            \A item \in task'[u].left : Row(item.configuration, item.current)' # {}
      BY <1>1 DEF Local, ReadTrue, Row
    <2> QED
      BY <2>1, <2>2, <2>3, <2>4 DEF ReadTrue
  <1> QED
    BY <1>1, <1>4, <1>5 DEF Local, Loaded, Grows

(* What a request is about to record is an event. *)
LEMMA EventsTyped ==
  ASSUME IInv, NEW w \in Workers, task[w].pc = "audit"
  PROVE  Events(w) \subseteq Event
  <1>1. Typed /\ Local(w)
    BY Parts
  <1> DEFINE a == task[w].ask
  <1>2. ASSUME NEW op \in {"create", "update", "delete", "start"}, NEW c \in Nat \ {0}, NEW n \in Nat
        PROVE  [op |-> op, subject |-> c, version |-> n] \in Event
    BY DEF Event
  <1>3. task[w].session \in Nat /\ task[w].version \subseteq Version
    BY <1>1, TaskFields DEF Typed
  <1>4. \A v \in task[w].version : v.configuration \in Nat \ {0} /\ v.version \in Nat
    BY <1>3 DEF Version
  <1>5. CASE a.op = "delete"
    <2>1. a.subject \in Nat \ {0}
      BY <1>1, <1>5, IdsNumbered DEF Local, AtItsPlace, AskFits
    <2> QED
      BY <1>2, <1>5, <2>1 DEF Events
  <1>6. CASE a.op = "start"
    <2>1. task[w].session \in Nat \ {0}
      BY <1>1, <1>3, <1>6 DEF Local, AtItsPlace
    <2> QED
      BY <1>2, <1>6, <2>1 DEF Events
  <1>7. CASE a.op = "update"
    <2>1. Events(w) = {[op |-> "update", subject |-> a.subject, version |-> v.version] :
                         v \in task[w].version}
      BY <1>7 DEF Events
    <2>2. a.subject \in Nat \ {0}
      BY <1>1, <1>7, IdsNumbered DEF Local, AtItsPlace, AskFits
    <2> QED
      BY <1>2, <1>4, <2>1, <2>2
  <1>8. CASE a.op \notin {"delete", "start", "update"}
    <2>1. Events(w) = {[op |-> "create", subject |-> v.configuration, version |-> 0] :
                         v \in task[w].version}
      BY <1>8 DEF Events
    <2> QED
      BY <1>2, <1>4, <2>1
  <1> QED
    BY <1>5, <1>6, <1>7, <1>8

LEMMA IdleLocal ==
  ASSUME NEW w \in Workers, task'[w].pc = "idle", task'[w].ask = NoAsk, task'[w].version = {},
         task'[w].outcome = "raised" => task'[w].disturbed
  PROVE  Local(w)'
  BY DEF Local, AtItsPlace, AskFits, NoAsk, ReadTrue

LEMMA CopiesTyped ==
  ASSUME Typed
  PROVE  /\ Copies \subseteq Copy
         /\ \A copy \in Copies : copy.configuration \in Nat /\ copy.version \in Nat \ {0}
  <1>1. \A n \in DOMAIN jobs : jobs[n] \in Job
    BY DEF Typed
  <1>2. \A j \in Job : j.copy \in Copy
    BY DEF Job
  <1>3. \A copy \in Copy : copy.configuration \in Nat /\ copy.version \in Nat \ {0}
    BY DEF Copy
  <1>4. ToSet(sessions) \subseteq Copy
    BY DEF Typed, ToSet
  <1> QED
    BY <1>1, <1>2, <1>3, <1>4 DEF Copies

LEMMA SeenTyped ==
  ASSUME Typed, NEW x \in Seen
  PROVE  x.configuration \in Nat /\ x.version \in Nat
  <1>1. ASSUME NEW v \in Version
        PROVE  AsCopy(v).configuration \in Nat /\ AsCopy(v).version \in Nat
    BY DEF Version, AsCopy
  <1>2. \A w \in Workers : task[w].version \subseteq Version
    BY TaskFields DEF Typed
  <1>3. \A copy \in Copies : copy.configuration \in Nat /\ copy.version \in Nat
    BY CopiesTyped
  <1> QED
    BY <1>1, <1>2, <1>3 DEF Seen, Typed

LEMMA SeenKept ==
  ASSUME Typed, Typed', SeenAgree, Grows, Seen' \subseteq Seen
  PROVE  SeenAgree'
  <1>1. ASSUME NEW x \in Seen'
        PROVE  x.configuration \in Ids' /\ x.version <= configurations'[x.configuration].current
    <2>1. /\ x.configuration \in Ids /\ x.version \in Nat
          /\ x.version <= configurations[x.configuration].current
      BY SeenTyped DEF SeenAgree
    <2>2. /\ configurations[x.configuration].current \in Nat
          /\ configurations'[x.configuration].current \in Nat
      BY <2>1, IdsNumbered DEF Grows
    <2> QED
      BY <2>1, <2>2 DEF Grows
  <1> QED
    BY <1>1 DEF SeenAgree

(* What the threads and the tables hold is seen. *)
LEMMA SeenOf ==
  /\ \A v \in versions : AsCopy(v) \in Seen
  /\ \A w \in Workers : \A v \in task[w].version : AsCopy(v) \in Seen
  /\ \A copy \in Copies : copy.configuration # 0 => copy \in Seen
  BY DEF Seen

(* A step of one thread that changes no table. *)
LEMMA QuietStep ==
  ASSUME IInv, NEW w \in Workers, UNCHANGED tables, Others(w),
         {requests', crashes', faults'} \subseteq Nat /\ lost' \subseteq Event,
         Local(w)', task'[w].version \subseteq versions \cup task[w].version,
         \/ OnLoop' \subseteq OnLoop
         \/ OnLoop = {} /\ OnLoop' \subseteq {w},
         task'[w].pc = "submit" /\ ~task'[w].ask.confirm =>
           \A v \in task'[w].version, n \in DOMAIN jobs : jobs[n].copy.payload # v.payload
  PROVE  IInv'
  <1>1. /\ Typed /\ \A u \in Workers : Local(u)
        /\ RowsConsecutive /\ NamesUnique /\ SeenAgree /\ NoSilentDuplicates /\ OneSubmission
    BY Parts
  <1>2. Typed'
    BY <1>1 DEF Typed, tables, Others
  <1>3. Grows
    BY <1>1, UnchangedGrows DEF tables
  <1>4. \A u \in Workers : Local(u)'
    <2> SUFFICES ASSUME NEW u \in Workers \ {w} PROVE Local(u)'
      OBVIOUS
    <2>1. task'[u] = task[u]
      BY DEF Others
    <2> QED
      BY <1>2, <1>3, <2>1, LocalKept DEF tables, Stored, Ids
  <1>5. RowsConsecutive' /\ NamesUnique'
    BY <1>1 DEF tables, RowsConsecutive, NamesUnique, Stored, Ids, Row
  <1>6. SeenAgree'
    <2>1. UNION {task'[u].version : u \in Workers}
            \subseteq versions \cup UNION {task[u].version : u \in Workers}
      BY DEF Others
    <2>2. versions' = versions /\ Copies' = Copies
      BY DEF tables, Copies
    <2>3. Seen' \subseteq Seen
      BY <2>1, <2>2 DEF Seen, AsCopy
    <2> QED
      BY <1>1, <1>2, <1>3, <2>3, SeenKept
  <1>7. NoSilentDuplicates'
    BY <1>1 DEF tables, NoSilentDuplicates
  <1>8. OneSubmission'
    BY <1>1 DEF tables, OneSubmission, Others
  <1> QED
    BY <1>2, <1>4, <1>5, <1>6, <1>7, <1>8 DEF IInv, TypeOK, Typed, Local, OnlyDeletionsRaise

-----------------------------------------------------------------------------
(* The steps that change no table *)

LEMMA EndStep ==
  ASSUME IInv, NEW w \in Workers, NEW o \in Outcomes, End(w, o),
         UNCHANGED <<tables, lost, counters>>, o = "raised" => task[w].disturbed
  PROVE  IInv'
  <1>1. TypeOK
    BY DEF IInv
  <1>2. /\ Others(w) /\ task'[w].pc = "idle" /\ task'[w].ask = NoAsk /\ task'[w].version = {}
        /\ task'[w].outcome = o /\ (task'[w].disturbed <=> task[w].disturbed)
    BY <1>1, EndTask
  <1>3. Local(w)'
    BY <1>2, IdleLocal
  <1>4. OnLoop' \subseteq OnLoop
    BY <1>2 DEF OnLoop, Others
  <1>5. {requests', crashes', faults'} \subseteq Nat /\ lost' \subseteq Event
    BY <1>1 DEF TypeOK, counters
  <1> QED
    BY <1>2, <1>3, <1>4, <1>5, QuietStep

LEMMA BeginStep == ASSUME IInv, NEW w \in Workers, Begin(w) PROVE IInv'
  <1>1. TypeOK /\ task'[w].ask \in Asks => AskFits(task'[w].ask) /\ task'[w].ask.op \in Ops
    BY AsksFit
  <1>2. TypeOK
    BY DEF IInv
  <1>3. /\ Others(w) /\ task'[w].ask \in Asks
        /\ task'[w].version = {} /\ task'[w].outcome = "none"
        /\ \/ task'[w].ask.op = "create" /\ task'[w].pc = "insert"
           \/ task'[w].ask.op = "list" /\ task'[w].pc = "list"
           \/ task'[w].ask.op \notin {"create", "list"} /\ task'[w].pc = "find"
    BY <1>2, BeginTask
  <1>4. UNCHANGED configurations
    BY DEF Begin, tables
  <1>5. Local(w)'
    BY <1>1, <1>2, <1>3, <1>4 DEF Local, AtItsPlace, AskFits, ReadTrue, Ids, Ops
  <1>6. OnLoop' \subseteq OnLoop
    BY <1>3 DEF OnLoop, Others
  <1>7. {requests', crashes', faults'} \subseteq Nat /\ lost' \subseteq Event
    BY <1>2 DEF TypeOK, Begin
  <1> QED
    BY <1>3, <1>5, <1>6, <1>7, QuietStep DEF Begin

LEMMA FailStep == ASSUME IInv, NEW w \in Workers, Fail(w) PROVE IInv'
  <1>1. TypeOK
    BY DEF IInv
  <1>2. /\ Others(w) /\ task'[w].pc = "idle" /\ task'[w].ask = NoAsk /\ task'[w].version = {}
        /\ task'[w].disturbed
    BY <1>1, FailTask
  <1>3. Local(w)'
    BY <1>2, IdleLocal
  <1>4. OnLoop' \subseteq OnLoop
    BY <1>2 DEF OnLoop, Others
  <1>5. {requests', crashes', faults'} \subseteq Nat /\ lost' \subseteq Event
    BY <1>1, EventsTyped DEF TypeOK, Fail
  <1> QED
    BY <1>2, <1>3, <1>4, <1>5, QuietStep DEF Fail

LEMMA FindStep == ASSUME IInv, NEW w \in Workers, Find(w) PROVE IInv'
  <1>1. TypeOK /\ Typed /\ Local(w) /\ UNCHANGED <<tables, lost, counters>>
    BY Parts DEF IInv, Find
  <1>2. CASE ~Stored(task[w].ask.subject)
    <2>1. End(w, "missing")
      BY <1>2 DEF Find
    <2> QED
      BY <1>1, <2>1, EndStep DEF Outcomes
  <1>3. CASE Stored(task[w].ask.subject)
    <2> DEFINE c == task[w].ask.subject
               pc == IF task[w].ask.op = "delete" THEN "delete" ELSE "load"
    <2>1. c \in Ids /\ configurations[c].current \in Nat \ {0}
      BY <1>1, <1>3, IdsNumbered DEF Stored
    <2>2. pc \in Places /\ task[w] \in Task
      BY <1>1 DEF Places, TypeOK
    <2> HIDE DEF pc
    <2> DEFINE t == [task[w] EXCEPT !.pc = pc, !.current = configurations[c].current]
    <2>3. /\ t \in Task /\ t.pc = pc /\ t.current = configurations[c].current
          /\ t.version = task[w].version /\ t.left = task[w].left /\ t.ask = task[w].ask
          /\ t.outcome = task[w].outcome
      BY <2>1, <2>2 DEF Task, Places
    <2>4. t.disturbed <=> task[w].disturbed
      BY <2>2 DEF Task
    <2>5. task' = [task EXCEPT ![w] = t]
      BY <1>3, <1>1 DEF Find, TypeOK, pc
    <2> HIDE DEF t
    <2>6. /\ Others(w)
          /\ task'[w].pc = pc /\ task'[w].current = configurations[c].current
          /\ task'[w].version = task[w].version /\ task'[w].left = task[w].left
          /\ task'[w].ask = task[w].ask /\ task'[w].outcome = task[w].outcome
          /\ (task'[w].disturbed <=> task[w].disturbed)
      <3>1. Others(w) /\ task'[w] = t
        BY <1>1, <2>3, <2>5, NewTask
      <3> QED
        BY <2>3, <2>4, <3>1
    <2>7. pc \in {"delete", "load"} /\ (pc = "delete" <=> task[w].ask.op = "delete")
      BY DEF pc
    <2>8. UNCHANGED <<configurations, versions>> /\ task[w].pc = "find"
      BY DEF Find, tables
    <2>9. Local(w)'
      BY <1>1, <1>3, <2>1, <2>6, <2>7, <2>8
      DEF Local, AtItsPlace, AskFits, ReadTrue, Stored, Ids
    <2>10. OnLoop' \subseteq OnLoop \/ (OnLoop = {} /\ OnLoop' \subseteq {w})
      BY <2>6, <2>7 DEF OnLoop, Others, Find
    <2>11. {requests', crashes', faults'} \subseteq Nat /\ lost' \subseteq Event
      BY <1>1 DEF TypeOK, counters
    <2> QED
      BY <1>1, <2>6, <2>7, <2>9, <2>10, <2>11, QuietStep
  <1> QED
    BY <1>2, <1>3

LEMMA RowIsOne ==
  ASSUME Typed, RowsConsecutive, NEW c, NEW n, Row(c, n) # {}
  PROVE  \E v \in versions : /\ Row(c, n) = {v} /\ v.configuration = c /\ v.version = n
                             /\ Stored(c) /\ c \in Ids /\ n \in 1..configurations[c].current
  <1>1. PICK v \in versions : v.configuration = c /\ v.version = n
    BY DEF Row
  <1>2. v.version \in Nat \ {0}
    BY DEF Typed, Version
  <1>3. Stored(c) /\ c \in Ids /\ n <= configurations[c].current
    BY <1>1 DEF RowsConsecutive, Stored
  <1>4. n \in 1..configurations[c].current
    BY <1>1, <1>2, <1>3, IdsNumbered
  <1>5. PICK u \in versions : Row(c, n) = {u}
    BY <1>3, <1>4 DEF RowsConsecutive
  <1> QED
    BY <1>3, <1>4, <1>5 DEF Row

LEMMA LoadStep == ASSUME IInv, NEW w \in Workers, Load(w) PROVE IInv'
  <1>1. TypeOK /\ Typed /\ RowsConsecutive /\ Local(w) /\ UNCHANGED <<tables, lost, counters>>
    BY Parts DEF IInv, Load
  <1> DEFINE c == task[w].ask.subject
             row == Row(c, Resolved(w))
  <1>2. CASE row = {}
    <2>1. End(w, "missing")
      BY <1>2 DEF Load
    <2> QED
      BY <1>1, <2>1, EndStep DEF Outcomes
  <1>3. CASE row # {}
    <2>1. PICK v \in versions : row = {v} /\ v.configuration = c /\ c \in Ids
                                /\ v.version \in 1..configurations[c].current
      BY <1>1, <1>3, RowIsOne
    <2> HIDE DEF row
    <2> DEFINE op == task[w].ask.op
               pc == CASE op = "update" -> "update" [] op = "clone" -> "insert"
                       [] op = "submit" -> "check" [] op = "start" -> "start"
               t == [task[w] EXCEPT !.version = row, !.pc = pc]
    <2>2. task[w].pc = "load" /\ op \in {"update", "clone", "submit", "start"}
      BY <1>1 DEF Load, Local, AtItsPlace
    <2>3. pc \in Places /\ task[w] \in Task /\ row \in SUBSET Version
      BY <1>1, <2>1, <2>2 DEF Places, TypeOK
    <2>4. /\ op = "update" => pc = "update"
          /\ op = "clone" => pc = "insert"
          /\ op = "submit" => pc = "check"
          /\ op = "start" => pc = "start"
      OBVIOUS
    <2>5. task' = [task EXCEPT ![w] = t]
      BY <1>3, <1>1 DEF Load, TypeOK, row
    <2> HIDE DEF pc
    <2>6. /\ t \in Task /\ t.pc = pc /\ t.current = task[w].current
          /\ t.version = row /\ t.ask = task[w].ask /\ t.outcome = task[w].outcome
      BY <2>3 DEF Task, Places
    <2>7. t.disturbed <=> task[w].disturbed
      BY <2>3 DEF Task
    <2> HIDE DEF t
    <2>8. Others(w) /\ task'[w] = t
      BY <1>1, <2>5, <2>6, NewTask
    <2>9. UNCHANGED <<configurations, versions, jobs, sessions>>
      BY <1>1 DEF tables
    <2>10. Local(w)'
      <3>1. Loaded(w)'
        BY <2>1, <2>6, <2>8 DEF Loaded
      <3>2. AtItsPlace(w)'
        BY <1>1, <2>2, <2>4, <2>6, <2>8, <2>9, <3>1 DEF Local, AtItsPlace, AskFits, Ids, Stored
      <3>3. ReadTrue(w)'
        BY <1>1, <2>1, <2>2, <2>4, <2>6, <2>7, <2>8, <2>9 DEF Local, ReadTrue, Ids, Stored
      <3>4. /\ task'[w].ask.subject \in Ids' /\ task'[w].current # 0
            /\ task'[w].outcome = "raised" => task'[w].disturbed
        BY <1>1, <2>2, <2>6, <2>7, <2>8, <2>9 DEF Local, Ids
      <3> QED
        BY <3>1, <3>2, <3>3, <3>4 DEF Local
    <2>11. OnLoop' \subseteq OnLoop
      BY <2>2, <2>4, <2>6, <2>8 DEF OnLoop, Others
    <2>12. {requests', crashes', faults'} \subseteq Nat /\ lost' \subseteq Event
      BY <1>1 DEF TypeOK, counters
    <2>13. task'[w].pc # "submit" /\ task'[w].version \subseteq versions
      BY <2>1, <2>2, <2>4, <2>6, <2>8
    <2> QED
      BY <1>1, <2>8, <2>10, <2>11, <2>12, <2>13, QuietStep
  <1> QED
    BY <1>2, <1>3

LEMMA ListAllStep == ASSUME IInv, NEW w \in Workers, ListAll(w) PROVE IInv'
  <1>1. TypeOK /\ Typed /\ RowsConsecutive /\ Local(w) /\ UNCHANGED <<tables, lost, counters>>
    BY Parts DEF IInv, ListAll
  <1> DEFINE all == {[configuration |-> c, current |-> configurations[c].current] :
                       c \in {d \in Ids : Stored(d)}}
             t == [task[w] EXCEPT !.pc = "each", !.left = all]
  <1>2. task[w].pc = "list" /\ task[w] \in Task /\ all \in SUBSET Items
    BY <1>1, IdsNumbered DEF ListAll, TypeOK, Items
  <1>3. task' = [task EXCEPT ![w] = t]
    BY <1>1 DEF ListAll, TypeOK
  <1>4. \A item \in all : Row(item.configuration, item.current) # {}
    BY <1>1, IdsNumbered, SMTT(30) DEF RowsConsecutive
  <1> HIDE DEF all
  <1>5. /\ t \in Task /\ t.pc = "each" /\ t.left = all
        /\ t.version = task[w].version /\ t.ask = task[w].ask /\ t.outcome = task[w].outcome
    BY <1>2 DEF Task, Items
  <1>6. t.disturbed <=> task[w].disturbed
    BY <1>2 DEF Task
  <1> HIDE DEF t
  <1>7. Others(w) /\ task'[w] = t
    BY <1>1, <1>3, <1>5, NewTask
  <1>8. UNCHANGED <<configurations, versions>>
    BY <1>1 DEF tables
  <1>9. Local(w)'
    BY <1>1, <1>2, <1>4, <1>5, <1>6, <1>7, <1>8
    DEF Local, AtItsPlace, AskFits, ReadTrue, Ids, Stored, Row
  <1>10. OnLoop' \subseteq OnLoop
    BY <1>5, <1>7 DEF OnLoop, Others
  <1>11. {requests', crashes', faults'} \subseteq Nat /\ lost' \subseteq Event
    BY <1>1 DEF TypeOK, counters
  <1> QED
    BY <1>1, <1>5, <1>7, <1>9, <1>10, <1>11, QuietStep

LEMMA ListEachStep == ASSUME IInv, NEW w \in Workers, ListEach(w) PROVE IInv'
  <1>1. TypeOK /\ Local(w) /\ UNCHANGED <<tables, lost, counters>> /\ task[w].pc = "each"
    BY Parts DEF IInv, ListEach
  <1>2. CASE End(w, "done")
    BY <1>1, <1>2, EndStep DEF Outcomes
  <1>3. ASSUME NEW item \in task[w].left, Row(item.configuration, item.current) = {},
               End(w, "raised")
        PROVE  IInv'
    <2>1. task[w].disturbed
      BY <1>1, <1>3 DEF Local, ReadTrue
    <2> QED
      BY <1>1, <1>3, <2>1, EndStep DEF Outcomes
  <1>4. ASSUME NEW item \in task[w].left, task' = [task EXCEPT ![w].left = @ \ {item}]
        PROVE  IInv'
    <2> DEFINE t == [task[w] EXCEPT !.left = @ \ {item}]
    <2>1. task[w] \in Task
      BY <1>1 DEF TypeOK
    <2>2. /\ t \in Task /\ t.pc = "each" /\ t.left \subseteq task[w].left
          /\ t.version = task[w].version /\ t.ask = task[w].ask /\ t.outcome = task[w].outcome
      BY <1>1, <2>1 DEF Task
    <2>3. t.disturbed <=> task[w].disturbed
      BY <2>1 DEF Task
    <2>4. task' = [task EXCEPT ![w] = t]
      BY <1>4
    <2> HIDE DEF t
    <2>5. Others(w) /\ task'[w] = t
      BY <1>1, <2>2, <2>4, NewTask
    <2>6. UNCHANGED <<configurations, versions>>
      BY <1>1 DEF tables
    <2>7. Local(w)'
      BY <1>1, <2>2, <2>3, <2>5, <2>6
      DEF Local, AtItsPlace, AskFits, ReadTrue, Ids, Stored, Row
    <2>8. OnLoop' \subseteq OnLoop
      BY <2>2, <2>5 DEF OnLoop, Others
    <2>9. {requests', crashes', faults'} \subseteq Nat /\ lost' \subseteq Event
      BY <1>1 DEF TypeOK, counters
    <2> QED
      BY <1>1, <2>2, <2>5, <2>7, <2>8, <2>9, QuietStep
  <1> QED
    BY <1>2, <1>3, <1>4 DEF ListEach

LEMMA CheckStep == ASSUME IInv, NEW w \in Workers, Check(w) PROVE IInv'
  <1>1. /\ TypeOK /\ Local(w) /\ UNCHANGED <<tables, lost, counters>>
        /\ task[w].pc = "check" /\ task[w].ask.op = "submit"
    BY Parts DEF IInv, Check, Local, AtItsPlace
  <1> DEFINE taken == \E v \in task[w].version, n \in DOMAIN jobs : jobs[n].copy.payload = v.payload
  <1>2. CASE ~task[w].ask.confirm /\ taken
    <2>1. End(w, "conflict")
      BY <1>2 DEF Check
    <2> QED
      BY <1>1, <2>1, EndStep DEF Outcomes
  <1>3. CASE ~(~task[w].ask.confirm /\ taken)
    <2> DEFINE t == [task[w] EXCEPT !.pc = "submit"]
    <2>1. task[w] \in Task
      BY <1>1 DEF TypeOK
    <2>2. /\ t \in Task /\ t.pc = "submit" /\ t.current = task[w].current
          /\ t.version = task[w].version /\ t.ask = task[w].ask /\ t.outcome = task[w].outcome
      BY <1>1, <2>1 DEF Task
    <2>3. t.disturbed <=> task[w].disturbed
      BY <2>1 DEF Task
    <2>4. task' = [task EXCEPT ![w] = t]
      BY <1>3 DEF Check, Go
    <2> HIDE DEF t
    <2>5. Others(w) /\ task'[w] = t
      BY <1>1, <2>2, <2>4, NewTask
    <2>6. UNCHANGED <<configurations, versions>>
      BY <1>1 DEF tables
    <2>7. Local(w)'
      BY <1>1, <2>2, <2>3, <2>5, <2>6
      DEF Local, AtItsPlace, AskFits, Loaded, ReadTrue, Ids, Stored, Row
    <2>8. OnLoop' \subseteq OnLoop
      BY <1>1, <2>2, <2>5 DEF OnLoop, Others
    <2>9. {requests', crashes', faults'} \subseteq Nat /\ lost' \subseteq Event
      BY <1>1 DEF TypeOK, counters
    <2> QED
      BY <1>1, <1>3, <2>2, <2>5, <2>7, <2>8, <2>9, QuietStep
  <1> QED
    BY <1>2, <1>3

-----------------------------------------------------------------------------
(* A version is added *)

Added(v) ==
    /\ versions' = versions \cup {v}
    /\ configurations' \in Seq(Configuration) /\ Ids' = Ids \cup {v.configuration}
    /\ configurations'[v.configuration].name = v.name
    /\ configurations'[v.configuration].current = v.version
    /\ Stored(v.configuration)'
    /\ \A d \in Ids \ {v.configuration} :
         configurations'[d] = configurations[d] /\ (Stored(d)' <=> Stored(d))
    /\ \/ v.configuration \notin Ids /\ v.version = 1
       \/ /\ v.configuration \in Ids /\ Stored(v.configuration)
          /\ v.version = configurations[v.configuration].current + 1
    /\ ~Taken(v.name, v.configuration)

LEMMA AddedGrows == ASSUME Typed, NEW v \in Version, Added(v) PROVE Grows
  BY IdsNumbered DEF Added, Grows

(* Its number is new. *)
LEMMA AddedIsNew ==
  ASSUME Typed, NEW v \in Version, Added(v), NEW x, x.configuration = v.configuration,
         x.configuration \in Ids, x.version \in Nat,
         x.version <= configurations[x.configuration].current
  PROVE  x.version < v.version
  BY IdsNumbered DEF Added

LEMMA AddedRow ==
  ASSUME Typed, RowsConsecutive, NEW v \in Version, Added(v), NEW c, NEW n
  PROVE  Row(c, n)' = IF c = v.configuration /\ n = v.version THEN {v} ELSE Row(c, n)
  <1>1. ASSUME NEW u \in versions PROVE ~(u.configuration = v.configuration /\ u.version = v.version)
    <2>1. u.configuration \in Ids /\ u.version <= configurations[u.configuration].current
      BY DEF RowsConsecutive, Stored
    <2>2. u.version \in Nat /\ v.version \in Nat
      BY DEF Typed, Version
    <2> QED
      BY <2>1, <2>2, AddedIsNew
  <1> QED
    BY <1>1 DEF Added, Row

LEMMA AddedRows ==
  ASSUME Typed, RowsConsecutive, NEW v \in Version, Added(v)
  PROVE  RowsConsecutive'
  <1>1. v.version \in Nat \ {0}
    BY DEF Version
  <1>2. ASSUME NEW u \in versions'
        PROVE  Stored(u.configuration)' /\ u.version <= configurations'[u.configuration].current
    <2>1. CASE u = v
      BY <1>1, <2>1 DEF Added
    <2>2. CASE u \in versions
      <3>1. /\ Stored(u.configuration) /\ u.configuration \in Ids /\ u.version \in Nat
            /\ u.version <= configurations[u.configuration].current
        BY <2>2 DEF RowsConsecutive, Stored, Typed, Version
      <3>2. /\ configurations[u.configuration].current \in Nat
            /\ configurations'[u.configuration].current >= configurations[u.configuration].current
        BY <3>1, AddedGrows, IdsNumbered DEF Grows
      <3>3. configurations'[u.configuration].current \in Nat
        BY <1>1, <3>1, <3>2 DEF Added
      <3>4. Stored(u.configuration)'
        BY <3>1 DEF Added
      <3> QED
        BY <3>1, <3>2, <3>3, <3>4
    <2> QED
      BY <2>1, <2>2 DEF Added
  <1>3. ASSUME NEW c \in Ids', Stored(c)', NEW n \in 1..configurations'[c].current
        PROVE  \E u \in versions' : Row(c, n)' = {u}
    <2>1. CASE c = v.configuration /\ n = v.version
      BY <2>1, AddedRow DEF Added
    <2>2. CASE c = v.configuration /\ n # v.version
      <3>1. c \in Ids /\ Stored(c) /\ n \in 1..configurations[c].current
        BY <1>1, <1>3, <2>2, IdsNumbered DEF Added
      <3>2. PICK u \in versions : Row(c, n) = {u}
        BY <3>1 DEF RowsConsecutive
      <3> QED
        BY <2>2, <3>2, AddedRow DEF Added
    <2>3. CASE c # v.configuration
      <3>1. c \in Ids /\ Stored(c) /\ n \in 1..configurations[c].current
        BY <1>3, <2>3 DEF Added
      <3>2. PICK u \in versions : Row(c, n) = {u}
        BY <3>1 DEF RowsConsecutive
      <3> QED
        BY <2>3, <3>2, AddedRow DEF Added
    <2> QED
      BY <2>1, <2>2, <2>3
  <1>4. ASSUME NEW c \in Ids', Stored(c)', NEW u \in Row(c, configurations[c].current)'
        PROVE  u.name = configurations'[c].name
    <2>0. u \in versions' /\ u.configuration = c /\ u.version = configurations'[c].current
      BY <1>4 DEF Row
    <2>1. CASE u = v
      BY <2>0, <2>1 DEF Added
    <2>2. CASE u \in versions /\ c = v.configuration
      <3>1. u.version \in Nat /\ u.version <= configurations[c].current /\ c \in Ids
        BY <2>0, <2>2 DEF Typed, Version, RowsConsecutive, Stored
      <3> QED
        BY <2>0, <2>2, <3>1, AddedIsNew DEF Added
    <2>3. CASE u \in versions /\ c # v.configuration
      <3>1. c \in Ids /\ Stored(c) /\ configurations'[c] = configurations[c]
        BY <1>4, <2>3 DEF Added
      <3>2. u \in Row(c, configurations[c].current)
        BY <2>0, <2>3, <3>1 DEF Row
      <3> QED
        BY <3>1, <3>2 DEF RowsConsecutive
    <2> QED
      BY <2>0, <2>1, <2>2, <2>3 DEF Added
  <1> QED
    BY <1>2, <1>3, <1>4 DEF RowsConsecutive

LEMMA AddedNames ==
  ASSUME NamesUnique, NEW v \in Version, Added(v)
  PROVE  NamesUnique'
  BY DEF NamesUnique, Added, Taken

LEMMA AddedSeen ==
  ASSUME Typed, Typed', SeenAgree, NEW v \in Version, Added(v), Seen' \subseteq Seen \cup {AsCopy(v)}
  PROVE  SeenAgree'
  <1>1. /\ AsCopy(v).configuration = v.configuration /\ AsCopy(v).version = v.version
        /\ v.version \in Nat
    BY DEF AsCopy, Version
  <1>2. ASSUME NEW x \in Seen
        PROVE  /\ x.configuration \in Ids' /\ x.version <= configurations'[x.configuration].current
               /\ ~(x.configuration = v.configuration /\ x.version = v.version)
    <2>1. /\ x.configuration \in Ids /\ x.version \in Nat
          /\ x.version <= configurations[x.configuration].current
      BY SeenTyped DEF SeenAgree
    <2>2. /\ configurations[x.configuration].current \in Nat
          /\ x.configuration \in Ids' /\ configurations'[x.configuration].current \in Nat
          /\ configurations'[x.configuration].current >= configurations[x.configuration].current
      BY <2>1, IdsNumbered, AddedGrows DEF Grows
    <2> QED
      BY <1>1, <2>1, <2>2, AddedIsNew
  <1>3. AsCopy(v).configuration \in Ids'
        /\ AsCopy(v).version <= configurations'[AsCopy(v).configuration].current
    BY <1>1 DEF Added
  <1> QED
    BY <1>1, <1>2, <1>3 DEF SeenAgree

(* The versions the threads hold, when only thread w has taken up others.   *)
LEMMA HeldAfter ==
  ASSUME NEW w \in Workers, NEW S, Others(w), task'[w].version \subseteq S
  PROVE  UNION {task'[u].version : u \in Workers}
           \subseteq S \cup UNION {task[u].version : u \in Workers}
  BY DEF Others

LEMMA AddedStep ==
  ASSUME IInv, NEW w \in Workers, NEW v \in Version, Added(v), Recorded(w, v),
         task[w].ask.op \in {"create", "clone", "update"},
         UNCHANGED <<jobs, sessions, trail, lost, counters>>
  PROVE  IInv'
  <1>1. /\ TypeOK /\ Typed /\ \A u \in Workers : Local(u)
        /\ RowsConsecutive /\ NamesUnique /\ SeenAgree /\ NoSilentDuplicates /\ OneSubmission
    BY Parts DEF IInv
  <1> DEFINE t == [task[w] EXCEPT !.pc = "audit", !.version = {v}]
  <1>2. task[w] \in Task
    BY <1>1 DEF TypeOK
  <1>3. /\ t \in Task /\ t.pc = "audit" /\ t.version = {v}
        /\ t.ask = task[w].ask /\ t.outcome = task[w].outcome
    BY <1>2 DEF Task
  <1>4. t.disturbed <=> task[w].disturbed
    BY <1>2 DEF Task
  <1>5. task' = [task EXCEPT ![w] = t]
    BY DEF Recorded
  <1> HIDE DEF t
  <1>6. Others(w) /\ task'[w] = t
    BY <1>1, <1>3, <1>5, NewTask
  <1>7. Typed'
    BY <1>1, <1>6 DEF Typed, Others, Added, counters
  <1>8. Grows
    BY <1>1, AddedGrows
  <1>9. \A u \in Workers : Local(u)'
    <2>1. ASSUME NEW u \in Workers \ {w} PROVE Local(u)'
      <3>1. task'[u] = task[u]
        BY <1>6 DEF Others
      <3>2. versions \subseteq versions' /\ \A c \in Ids : Stored(c) => Stored(c)'
        BY DEF Added
      <3> QED
        BY <1>7, <1>8, <3>1, <3>2, LocalKept
    <2>2. AtItsPlace(w)'
      <3>1. Loaded(w)'
        BY <1>3, <1>6 DEF Loaded
      <3>2. AskFits(task[w].ask)'
        BY <1>1, <1>3, <1>6 DEF Local, AtItsPlace, AskFits, Added
      <3> QED
        BY <1>3, <1>6, <3>1, <3>2 DEF AtItsPlace
    <2>3. ReadTrue(w)'
      <3>1. v.configuration \in Ids' /\ v.version <= configurations'[v.configuration].current
        BY DEF Added, Version
      <3> QED
        BY <1>3, <1>6, <3>1 DEF ReadTrue
    <2>4. Local(w)'
      BY <1>1, <1>3, <1>4, <1>6, <2>2, <2>3 DEF Local
    <2> QED
      BY <2>1, <2>4
  <1>10. RowsConsecutive' /\ NamesUnique'
    BY <1>1, AddedRows, AddedNames
  <1>11. SeenAgree'
    <2>1. UNION {task'[u].version : u \in Workers}
            \subseteq {v} \cup UNION {task[u].version : u \in Workers}
      BY <1>3, <1>6, HeldAfter
    <2>2. versions' = versions \cup {v} /\ Copies' = Copies
      BY DEF Added, Copies
    <2>3. Seen' \subseteq Seen \cup {AsCopy(v)}
      BY <2>1, <2>2 DEF Seen, AsCopy
    <2> QED
      BY <1>1, <1>7, <2>3, AddedSeen
  <1>12. NoSilentDuplicates'
    BY <1>1 DEF NoSilentDuplicates
  <1>13. OneSubmission'
    BY <1>1, <1>3, <1>6 DEF OneSubmission, Others, OnLoop
  <1> QED
    BY <1>7, <1>9, <1>10, <1>11, <1>12, <1>13
    DEF IInv, TypeOK, Typed, Local, OnlyDeletionsRaise

LEMMA InsertAdds ==
  ASSUME IInv, NEW w \in Workers, Insert(w), ~Taken(task[w].ask.name, 0)
  PROVE  /\ task[w].ask.op \in {"create", "clone"}
         /\ \E v \in Version : Added(v) /\ Recorded(w, v)
  <1>1. TypeOK /\ Typed /\ Local(w) /\ task[w].pc = "insert"
    BY Parts DEF IInv, Insert
  <1> DEFINE a == task[w].ask
             payload == IF a.op = "clone" THEN (CHOOSE v \in task[w].version : TRUE).payload
                        ELSE a.payload
             c == Len(configurations) + 1
             v == [configuration |-> c, version |-> 1, name |-> a.name, payload |-> payload]
  <1>2. /\ a.op \in {"create", "clone"} /\ a.name \in Names
        /\ a.op = "create" => a.payload \in Payloads
        /\ a.op = "clone" => Loaded(w)
    BY <1>1 DEF Local, AtItsPlace, AskFits
  <1>3. payload \in Payloads
    <2>1. CASE a.op = "clone"
      <3>1. PICK u \in task[w].version : task[w].version = {u}
        BY <1>2, <2>1 DEF Loaded
      <3>2. (CHOOSE x \in task[w].version : TRUE) = u
        BY <3>1
      <3>3. u \in Version
        BY <1>1, <3>1, TaskFields DEF TypeOK
      <3> QED
        BY <2>1, <3>2, <3>3 DEF Version
    <2> QED
      BY <1>2, <2>1
  <1>4. /\ configurations' = Append(configurations,
                               [stored |-> TRUE, name |-> a.name, current |-> 1])
        /\ versions' = versions \cup {v} /\ Recorded(w, v)
    BY DEF Insert
  <1> HIDE DEF payload
  <1>5. Len(configurations) \in Nat /\ Ids = 1..Len(configurations)
    BY <1>1, IdsNumbered
  <1>6. /\ v \in Version /\ v.configuration = c /\ v.version = 1 /\ v.name = a.name
    BY <1>2, <1>3, <1>5 DEF Version
  <1>7. \A d : Taken(a.name, d) => Taken(a.name, 0)
    BY <1>5 DEF Taken
  <1> HIDE DEF a, v
  <1>8. PICK x \in {c} : TRUE
    OBVIOUS
  <1>9. /\ configurations' \in Seq(Configuration)
        /\ x \notin Ids /\ Ids' = Ids \cup {x}
        /\ configurations'[x].name = a.name /\ configurations'[x].current = 1 /\ Stored(x)'
        /\ \A d \in Ids : configurations'[d] = configurations[d] /\ (Stored(d)' <=> Stored(d))
    <2>1. configurations \in Seq(Configuration) /\ x = Len(configurations) + 1
      BY <1>1, <1>8 DEF Typed
    <2> QED
      BY <1>2, <1>4, <2>1, ConfigurationAppended
  <1>10. v.configuration = x
    BY <1>6, <1>8
  <1> HIDE DEF c
  <1>11. PICK y \in Version : y = v
    BY <1>6
  <1>12. Added(y)
    BY <1>4, <1>6, <1>7, <1>9, <1>10, <1>11 DEF Added, a
  <1> QED
    BY <1>2, <1>4, <1>11, <1>12 DEF a

LEMMA InsertStep == ASSUME IInv, NEW w \in Workers, Insert(w) PROVE IInv'
  <1>1. CASE Taken(task[w].ask.name, 0)
    <2>1. End(w, "conflict") /\ UNCHANGED <<tables, lost, counters>>
      BY <1>1 DEF Insert, Rejected, tables
    <2> QED
      BY <2>1, EndStep DEF Outcomes
  <1>2. CASE ~Taken(task[w].ask.name, 0)
    BY <1>2, InsertAdds, AddedStep DEF Insert
  <1> QED
    BY <1>1, <1>2

LEMMA UpdateAdds ==
  ASSUME IInv, NEW w \in Workers, Update(w), Stored(task[w].ask.subject),
         ~Violated(task[w].ask, task[w].current + 1)
  PROVE  /\ task[w].ask.op = "update"
         /\ \E v \in Version : /\ Added(v) /\ Recorded(w, v)
                             /\ v.configuration \in Ids /\ v.configuration = task[w].ask.subject
  <1>1. TypeOK /\ Typed /\ Local(w) /\ RowsConsecutive /\ task[w].pc = "update"
    BY Parts DEF IInv, Update
  <1> DEFINE a == task[w].ask
             c == a.subject
             k == task[w].current + 1
             v == [configuration |-> c, version |-> k, name |-> a.name, payload |-> a.payload]
  <1>2. /\ a.op = "update" /\ a.name \in Names /\ a.payload \in Payloads /\ c \in Ids
        /\ task[w].current <= configurations[c].current
    BY <1>1 DEF Local, AtItsPlace, AskFits, ReadTrue
  <1>3. /\ task[w].current \in Nat /\ configurations[c].current \in Nat \ {0} /\ c \in Nat \ {0}
    <2>1. task[w] \in Task /\ configurations[c].current \in Nat \ {0} /\ c \in Nat \ {0}
      BY <1>1, <1>2, IdsNumbered DEF TypeOK
    <2> QED
      BY <2>1, TaskFields
  <1>4. k = configurations[c].current + 1
    <2> SUFFICES ASSUME k <= configurations[c].current PROVE FALSE
      BY <1>2, <1>3
    <2>1. k \in 1..configurations[c].current
      BY <1>3
    <2>2. Row(c, k) # {}
      BY <1>1, <1>2, <2>1 DEF RowsConsecutive
    <2> QED
      BY <2>2 DEF Violated
  <1>5. /\ configurations' = [configurations EXCEPT ![c].name = a.name, ![c].current = k]
        /\ versions' = versions \cup {v} /\ Recorded(w, v)
    BY DEF Update
  <1>6. /\ v \in Version /\ v.configuration = c /\ v.version = k /\ v.name = a.name
    BY <1>2, <1>3 DEF Version
  <1>7. ~Taken(a.name, c)
    BY DEF Violated
  <1>8. k \in Nat \ {0}
    BY <1>3
  <1> HIDE DEF k, v
  <1>9. PICK x \in Ids, n \in Names, j \in Nat \ {0} : x = c /\ n = a.name /\ j = k
    BY <1>2, <1>8
  <1>10. configurations' = [configurations EXCEPT ![x].name = n, ![x].current = j]
    BY <1>5, <1>9
  <1>11. /\ configurations' \in Seq(Configuration) /\ Ids' = Ids
         /\ configurations'[x].name = n /\ configurations'[x].current = j
         /\ \A d \in Ids \ {x} : configurations'[d] = configurations[d]
         /\ \A d : Stored(d)' <=> Stored(d)
    <2>1. configurations \in Seq(Configuration)
      BY <1>1 DEF Typed
    <2> QED
      BY <1>10, <2>1, ConfigurationChanged
  <1>12. PICK y \in Version : y = v
    BY <1>6
  <1>13. y.configuration = x /\ y.version = j /\ y.name = n /\ Stored(x) /\ ~Taken(n, x)
         /\ j = configurations[x].current + 1
    BY <1>4, <1>6, <1>7, <1>9, <1>12
  <1>14. Added(y)
    BY <1>5, <1>11, <1>12, <1>13 DEF Added
  <1> QED
    BY <1>2, <1>5, <1>6, <1>12, <1>13, <1>14

LEMMA UpdateStep == ASSUME IInv, NEW w \in Workers, Update(w) PROVE IInv'
  <1>1. CASE ~Stored(task[w].ask.subject)
    <2>1. End(w, "raised") /\ UNCHANGED <<tables, lost, counters>> /\ task[w].pc = "update"
      BY <1>1 DEF Update, tables
    <2>2. task[w].disturbed
      BY <1>1, <2>1, Parts DEF Local, ReadTrue
    <2> QED
      BY <2>1, <2>2, EndStep DEF Outcomes
  <1>2. CASE Stored(task[w].ask.subject) /\ Violated(task[w].ask, task[w].current + 1)
    <2>1. End(w, "conflict") /\ UNCHANGED <<tables, lost, counters>>
      BY <1>2, SMTT(30) DEF Update, Rejected, tables
    <2> QED
      BY <2>1, EndStep DEF Outcomes
  <1>3. CASE Stored(task[w].ask.subject) /\ ~Violated(task[w].ask, task[w].current + 1)
    BY <1>3, UpdateAdds, AddedStep DEF Update
  <1> QED
    BY <1>1, <1>2, <1>3

-----------------------------------------------------------------------------
(* A configuration is deleted *)

LEMMA DeleteTasks ==
  ASSUME TypeOK, NEW w \in Workers, Delete(w)
  PROVE  /\ task' \in [Workers -> Task]
         /\ \A u \in Workers :
              /\ task'[u].ask = task[u].ask /\ task'[u].current = task[u].current
              /\ task'[u].version = task[u].version /\ task'[u].left = task[u].left
              /\ task'[u].outcome = task[u].outcome /\ task'[u].session = task[u].session
              /\ task[u].disturbed => task'[u].disturbed
         /\ task'[w].pc = "audit"
         /\ \A u \in Workers \ {w} :
              task'[u].pc = task[u].pc /\ (task[u].pc = "idle" \/ task'[u].disturbed)
  <1>1. ASSUME NEW t \in Task
        PROVE  LET r == [t EXCEPT !.pc = "audit"] IN
               /\ r \in Task /\ r.pc = "audit" /\ r.ask = t.ask /\ r.current = t.current
               /\ r.version = t.version /\ r.left = t.left /\ r.outcome = t.outcome
               /\ r.session = t.session
    BY DEF Task
  <1>2. ASSUME NEW t \in Task
        PROVE  LET r == [t EXCEPT !.pc = "audit"] IN r.disturbed <=> t.disturbed
    BY DEF Task
  <1>3. ASSUME NEW t \in Task
        PROVE  LET r == [t EXCEPT !.disturbed = TRUE] IN
               /\ r \in Task /\ r.pc = t.pc /\ r.ask = t.ask /\ r.current = t.current
               /\ r.version = t.version /\ r.left = t.left /\ r.outcome = t.outcome
               /\ r.session = t.session
    BY DEF Task
  <1>4. ASSUME NEW t \in Task
        PROVE  [t EXCEPT !.disturbed = TRUE].disturbed
    BY DEF Task
  <1>5. ASSUME NEW u \in Workers
        PROVE  /\ task'[u] \in Task
               /\ task'[u].ask = task[u].ask /\ task'[u].current = task[u].current
               /\ task'[u].version = task[u].version /\ task'[u].left = task[u].left
               /\ task'[u].outcome = task[u].outcome /\ task'[u].session = task[u].session
               /\ task[u].disturbed => task'[u].disturbed
               /\ u = w => task'[u].pc = "audit"
               /\ u # w => task'[u].pc = task[u].pc /\ (task[u].pc = "idle" \/ task'[u].disturbed)
    <2>1. task[u] \in Task
      BY DEF TypeOK
    <2>2. CASE u = w
      <3>1. task'[u] = [task[u] EXCEPT !.pc = "audit"]
        BY <2>2 DEF Delete
      <3> QED
        BY <1>1, <1>2, <2>1, <2>2, <3>1
    <2>3. CASE u # w /\ task[u].pc # "idle"
      <3>1. task'[u] = [task[u] EXCEPT !.disturbed = TRUE]
        BY <2>3 DEF Delete
      <3>2. task'[u].disturbed
        BY <1>4, <2>1, <3>1, Zenon
      <3> QED
        BY <1>3, <2>1, <2>3, <3>1, <3>2
    <2>4. CASE u # w /\ task[u].pc = "idle"
      <3>1. task'[u] = task[u]
        BY <2>4 DEF Delete
      <3> QED
        BY <2>1, <2>4, <3>1
    <2> QED
      BY <2>2, <2>3, <2>4
  <1>6. task' \in [Workers -> Task]
    <2>1. task' = [u \in Workers |-> task'[u]]
      BY DEF Delete
    <2> QED
      BY <1>5, <2>1
  <1> QED
    BY <1>5, <1>6

(* The sessions of a configuration that is deleted name none any more. *)
LEMMA SessionsReleased ==
  ASSUME sessions \in Seq(Copy), NEW c,
         sessions' = [n \in DOMAIN sessions |->
                        [sessions[n] EXCEPT !.configuration = IF @ = c THEN 0 ELSE @]]
  PROVE  /\ sessions' \in Seq(Copy)
         /\ \A s \in ToSet(sessions') : s.configuration = 0 \/ s \in ToSet(sessions)
  <1>1. ASSUME NEW r \in Copy
        PROVE  LET s == [r EXCEPT !.configuration = IF @ = c THEN 0 ELSE @]
               IN  s \in Copy /\ (s.configuration = 0 \/ s = r)
    <2>1. CASE r.configuration = c
      BY <2>1 DEF Copy
    <2>2. CASE r.configuration # c
      BY <2>2 DEF Copy
    <2> QED
      BY <2>1, <2>2
  <1>2. DOMAIN sessions = 1..Len(sessions) /\ Len(sessions) \in Nat
    OBVIOUS
  <1>3. DOMAIN sessions' = DOMAIN sessions
    OBVIOUS
  <1>4. ASSUME NEW n \in DOMAIN sessions
        PROVE  sessions'[n] \in Copy /\ (sessions'[n].configuration = 0 \/ sessions'[n] = sessions[n])
    <2>1. sessions'[n] = [sessions[n] EXCEPT !.configuration = IF @ = c THEN 0 ELSE @]
      OBVIOUS
    <2>2. sessions[n] \in Copy
      OBVIOUS
    <2> QED
      BY <1>1, <2>1, <2>2
  <1>5. sessions' \in Seq(Copy)
    <2>1. ASSUME NEW k \in Nat, NEW f, f = [n \in 1..k |-> f[n]], \A n \in 1..k : f[n] \in Copy
          PROVE  f \in Seq(Copy)
      BY <2>1
    <2>2. sessions' = [n \in 1..Len(sessions) |-> sessions'[n]]
      BY <1>2
    <2> QED
      BY <1>2, <1>4, <2>1, <2>2
  <1>6. \A n \in DOMAIN sessions' : sessions'[n].configuration = 0 \/ sessions'[n] \in ToSet(sessions)
    BY <1>3, <1>4 DEF ToSet
  <1>7. \A s \in ToSet(sessions') : \E n \in DOMAIN sessions' : s = sessions'[n]
    BY DEF ToSet
  <1>8. ASSUME NEW s \in ToSet(sessions') PROVE s.configuration = 0 \/ s \in ToSet(sessions)
    <2>1. PICK n \in DOMAIN sessions' : s = sessions'[n]
      BY <1>7
    <2> QED
      BY <1>6, <2>1, Zenon
  <1> QED
    BY <1>5, <1>8, Zenon

LEMMA DeleteStep == ASSUME IInv, NEW w \in Workers, Delete(w) PROVE IInv'
  <1>1. /\ TypeOK /\ Typed /\ \A u \in Workers : Local(u)
        /\ RowsConsecutive /\ NamesUnique /\ SeenAgree /\ NoSilentDuplicates /\ OneSubmission
    BY Parts DEF IInv
  <1>2. /\ task[w].pc = "delete" /\ task[w].ask.op = "delete" /\ task[w].ask.subject \in Ids
    BY <1>1 DEF Delete, Local, AtItsPlace
  <1>3. PICK c \in Ids : c = task[w].ask.subject
    BY <1>2
  <1>4. /\ configurations' \in Seq(Configuration) /\ Ids' = Ids
        /\ \A d \in Ids : /\ configurations'[d].name = configurations[d].name
                          /\ configurations'[d].current = configurations[d].current
        /\ ~Stored(c)'
        /\ \A d : d # c => (Stored(d)' <=> Stored(d))
    <2>1. configurations' = [configurations EXCEPT ![c].stored = FALSE]
      BY <1>3 DEF Delete
    <2>2. configurations \in Seq(Configuration)
      BY <1>1 DEF Typed
    <2> QED
      BY <2>1, <2>2, ConfigurationRemoved
  <1>5. /\ versions' = {v \in versions : v.configuration # c}
        /\ sessions' = [n \in DOMAIN sessions |->
                          [sessions[n] EXCEPT !.configuration = IF @ = c THEN 0 ELSE @]]
        /\ UNCHANGED <<jobs, trail, lost, counters>>
    BY <1>3 DEF Delete
  <1>6. /\ task' \in [Workers -> Task]
        /\ \A u \in Workers :
             /\ task'[u].ask = task[u].ask /\ task'[u].current = task[u].current
             /\ task'[u].version = task[u].version /\ task'[u].left = task[u].left
             /\ task'[u].outcome = task[u].outcome /\ task'[u].session = task[u].session
             /\ task[u].disturbed => task'[u].disturbed
        /\ task'[w].pc = "audit"
        /\ \A u \in Workers \ {w} :
             task'[u].pc = task[u].pc /\ (task[u].pc = "idle" \/ task'[u].disturbed)
    BY <1>1, DeleteTasks
  <1>7. /\ sessions' \in Seq(Copy)
        /\ \A s \in ToSet(sessions') : s.configuration = 0 \/ s \in ToSet(sessions)
    BY <1>1, <1>5, SessionsReleased DEF Typed
  <1>8. Typed'
    BY <1>1, <1>4, <1>5, <1>6, <1>7 DEF Typed, counters
  <1>9. Grows
    BY <1>1, <1>4, IdsNumbered DEF Grows
  <1>10. \A u \in Workers : Local(u)'
    <2>1. ASSUME NEW u \in Workers \ {w} PROVE Local(u)'
      BY <1>6, <1>8, <1>9, LocalKept
    <2>2. AtItsPlace(w)' /\ ReadTrue(w)'
      <3>1. AskFits(task[w].ask)'
        BY <1>1, <1>4, <1>6 DEF Local, AtItsPlace, AskFits
      <3>2. AtItsPlace(w)'
        BY <1>2, <1>3, <1>4, <1>6, <3>1 DEF AtItsPlace
      <3>3. ReadTrue(w)'
        BY <1>1, <1>4, <1>6 DEF Local, ReadTrue
      <3> QED
        BY <3>2, <3>3
    <2>3. Local(w)'
      BY <1>1, <1>6, <2>2 DEF Local
    <2> QED
      BY <2>1, <2>3
  <1>11. RowsConsecutive' /\ NamesUnique'
    <2>1. \A d, n : d # c => Row(d, n)' = Row(d, n)
      BY <1>5 DEF Row
    <2>2. \A v \in versions' :
            Stored(v.configuration)' /\ v.version <= configurations'[v.configuration].current
      BY <1>1, <1>4, <1>5 DEF RowsConsecutive, Stored
    <2>3. ASSUME NEW d \in Ids', Stored(d)'
          PROVE  /\ \A n \in 1..configurations'[d].current : \E v \in versions' : Row(d, n)' = {v}
                 /\ \A v \in Row(d, configurations[d].current)' : v.name = configurations'[d].name
      <3>1. d # c /\ Stored(d) /\ d \in Ids
        BY <1>4, <2>3
      <3>2. \A n \in 1..configurations[d].current : \E v \in versions' : Row(d, n) = {v}
        BY <1>1, <1>5, <3>1 DEF RowsConsecutive, Row
      <3>3. \A v \in Row(d, configurations[d].current) : v.name = configurations[d].name
        BY <1>1, <3>1 DEF RowsConsecutive
      <3>4. \A v \in Row(d, configurations[d].current)' : v \in Row(d, configurations[d].current)
        BY <1>4, <1>5, <3>1 DEF Row
      <3> QED
        BY <1>4, <2>1, <3>1, <3>2, <3>3, <3>4
    <2>4. NamesUnique'
      BY <1>1, <1>4 DEF NamesUnique
    <2> QED
      BY <2>2, <2>3, <2>4 DEF RowsConsecutive
  <1>12. SeenAgree'
    <2>1. UNION {task'[u].version : u \in Workers} = UNION {task[u].version : u \in Workers}
      BY <1>6
    <2>2. versions' \subseteq versions
      BY <1>5
    <2>3. \A copy \in Copies' : copy.configuration # 0 => copy \in Copies
      BY <1>5, <1>7 DEF Copies
    <2>4. Seen' \subseteq Seen
      BY <2>1, <2>2, <2>3 DEF Seen, AsCopy
    <2> QED
      BY <1>1, <1>8, <1>9, <2>4, SeenKept
  <1>13. NoSilentDuplicates'
    BY <1>1, <1>5 DEF NoSilentDuplicates
  <1>14. OneSubmission'
    BY <1>1, <1>2, <1>5, <1>6 DEF OneSubmission, OnLoop
  <1> QED
    BY <1>8, <1>10, <1>11, <1>12, <1>13, <1>14
    DEF IInv, TypeOK, Typed, Local, OnlyDeletionsRaise

-----------------------------------------------------------------------------
(* The steps that change neither configurations nor versions *)

LEMMA ContentKept ==
  ASSUME IInv, Typed', NEW w \in Workers, Others(w), Local(w)',
         UNCHANGED <<configurations, versions>>
  PROVE  /\ Grows /\ \A u \in Workers : Local(u)'
         /\ RowsConsecutive' /\ NamesUnique'
  <1>1. Typed /\ RowsConsecutive /\ NamesUnique
    BY Parts
  <1>2. Grows
    BY <1>1, UnchangedGrows
  <1>3. ASSUME NEW u \in Workers \ {w} PROVE Local(u)'
    <2>1. task'[u] = task[u]
      BY DEF Others
    <2> QED
      BY <1>2, <2>1, LocalKept DEF Stored, Ids
  <1>4. RowsConsecutive' /\ NamesUnique'
    BY <1>1 DEF RowsConsecutive, NamesUnique, Stored, Ids, Row
  <1> QED
    BY <1>2, <1>3, <1>4

LEMMA EndLocal ==
  ASSUME TypeOK, NEW w \in Workers, End(w, "done")
  PROVE  Others(w) /\ Local(w)' /\ task'[w].version = {} /\ task'[w].pc = "idle"
  BY EndTask, IdleLocal DEF Outcomes

LEMMA AuditStep == ASSUME IInv, NEW w \in Workers, Audit(w) PROVE IInv'
  <1>1. /\ TypeOK /\ Typed /\ SeenAgree /\ NoSilentDuplicates /\ OneSubmission
    BY Parts DEF IInv
  <1>2. /\ task[w].pc = "audit" /\ trail' = trail \cup Events(w)
        /\ End(w, "done") /\ UNCHANGED <<configurations, versions, jobs, sessions, lost, counters>>
    BY DEF Audit
  <1>3. Others(w) /\ Local(w)' /\ task'[w].version = {} /\ task'[w].pc = "idle"
    BY <1>1, <1>2, EndLocal
  <1>5. Typed'
    BY <1>1, <1>2, <1>3, EventsTyped DEF Typed, Others, counters
  <1>6. /\ Grows /\ \A u \in Workers : Local(u)'
        /\ RowsConsecutive' /\ NamesUnique'
    BY <1>2, <1>3, <1>5, ContentKept
  <1>7. SeenAgree'
    <2>1. UNION {task'[u].version : u \in Workers}
            \subseteq {} \cup UNION {task[u].version : u \in Workers}
      BY <1>3, HeldAfter
    <2>2. Seen' \subseteq Seen
      BY <1>2, <2>1 DEF Seen, AsCopy, Copies
    <2> QED
      BY <1>1, <1>5, <1>6, <2>2, SeenKept
  <1>8. NoSilentDuplicates' /\ OneSubmission'
    BY <1>1, <1>2, <1>3 DEF NoSilentDuplicates, OneSubmission, OnLoop, Others
  <1> QED
    BY <1>5, <1>6, <1>7, <1>8 DEF IInv, TypeOK, Typed, Local, OnlyDeletionsRaise

LEMMA CopyIsSeen ==
  ASSUME IInv, NEW w \in Workers, NEW v \in task[w].version
  PROVE  CopyOf(w, v) \in Copy /\ CopyOf(w, v) \in Seen /\ CopyOf(w, v).payload = v.payload
  <1>1. v \in Version
    BY TaskFields DEF IInv, TypeOK
  <1>2. CopyOf(w, v) = AsCopy(v)
    BY DEF CopyOf, AsCopy
  <1>3. AsCopy(v) \in Copy /\ AsCopy(v).payload = v.payload
    BY <1>1 DEF AsCopy, Copy, Version
  <1> QED
    BY <1>2, <1>3, SeenOf

LEMMA SubmitStep == ASSUME IInv, NEW w \in Workers, Submit(w) PROVE IInv'
  <1>1. /\ TypeOK /\ Typed /\ Local(w) /\ SeenAgree /\ NoSilentDuplicates /\ OneSubmission
        /\ \A u \in Workers : Local(u)
    BY Parts DEF IInv
  <1>2. /\ task[w].pc = "submit" /\ End(w, "done")
        /\ UNCHANGED <<configurations, versions, sessions, trail, lost, counters>>
    BY DEF Submit
  <1>3. PICK v \in task[w].version :
          jobs' = Append(jobs, [copy |-> CopyOf(w, v), confirmed |-> task[w].ask.confirm])
    BY DEF Submit
  <1> DEFINE job == [copy |-> CopyOf(w, v), confirmed |-> task[w].ask.confirm]
  <1>4. /\ CopyOf(w, v) \in Copy /\ CopyOf(w, v) \in Seen /\ CopyOf(w, v).payload = v.payload
    BY CopyIsSeen
  <1>5. task[w].ask.confirm \in BOOLEAN
    <2>1. task[w].ask \in Ask
      BY <1>1, TaskFields DEF TypeOK
    <2> QED
      BY <2>1 DEF Ask
  <1>6. job \in Job /\ job.copy = CopyOf(w, v) /\ (job.confirmed <=> task[w].ask.confirm)
    <2>1. job \in Job
      BY <1>4, <1>5 DEF Job
    <2>2. job.copy = CopyOf(w, v)
      OBVIOUS
    <2>3. job.confirmed <=> task[w].ask.confirm
      OBVIOUS
    <2> QED
      BY <2>1, <2>2, <2>3
  <1> HIDE DEF job
  <1>7. /\ jobs' \in Seq(Job) /\ DOMAIN jobs' = DOMAIN jobs \cup {Len(jobs) + 1}
        /\ DOMAIN jobs = 1..Len(jobs) /\ Len(jobs) \in Nat
        /\ jobs'[Len(jobs) + 1] = job /\ \A n \in DOMAIN jobs : jobs'[n] = jobs[n]
    <2>1. jobs \in Seq(Job) /\ jobs' = Append(jobs, job)
      BY <1>1, <1>3 DEF Typed, job
    <2> QED
      BY <1>6, <2>1
  <1>8. Others(w) /\ Local(w)' /\ task'[w].version = {} /\ task'[w].pc = "idle"
    BY <1>1, <1>2, EndLocal
  <1>9. Typed'
    BY <1>1, <1>2, <1>7, <1>8 DEF Typed, Others, counters
  <1>10. /\ Grows /\ \A u \in Workers : Local(u)'
         /\ RowsConsecutive' /\ NamesUnique'
    BY <1>2, <1>8, <1>9, ContentKept
  <1>11. SeenAgree'
    <2>1. UNION {task'[u].version : u \in Workers}
            \subseteq {} \cup UNION {task[u].version : u \in Workers}
      BY <1>8, HeldAfter
    <2>2. Copies' = Copies \cup {CopyOf(w, v)}
      BY <1>2, <1>6, <1>7 DEF Copies
    <2>3. Seen' \subseteq Seen
      BY <1>2, <1>4, <2>1, <2>2 DEF Seen, AsCopy
    <2> QED
      BY <1>1, <1>9, <1>10, <2>3, SeenKept
  <1>12. task[w].ask.confirm \/ \A n \in DOMAIN jobs : jobs[n].copy.payload # v.payload
    BY <1>1, <1>2 DEF OneSubmission
  <1>13. NoSilentDuplicates'
    <2> SUFFICES ASSUME NEW n \in DOMAIN jobs', NEW m \in DOMAIN jobs', n < m,
                        jobs'[n].copy.payload = jobs'[m].copy.payload
                 PROVE  jobs'[m].confirmed
      BY DEF NoSilentDuplicates
    <2>1. n \in DOMAIN jobs
      BY <1>7
    <2>2. CASE m \in DOMAIN jobs
      BY <1>1, <1>7, <2>1, <2>2 DEF NoSilentDuplicates
    <2>3. CASE m = Len(jobs) + 1
      <3>1. jobs[n].copy.payload = v.payload
        BY <1>4, <1>6, <1>7, <2>1, <2>3
      <3>2. job.confirmed
        BY <1>6, <1>12, <2>1, <3>1
      <3> QED
        BY <1>7, <2>3, <3>2
    <2> QED
      BY <1>7, <2>2, <2>3
  <1>14. OneSubmission'
    <2>1. w \in OnLoop
      BY <1>1, <1>2 DEF OnLoop, Local, AtItsPlace
    <2>2. \A u \in Workers : task'[u].pc # "submit"
      <3> SUFFICES ASSUME NEW u \in Workers \ {w}, task[u].pc = "submit" PROVE FALSE
        BY <1>8 DEF Others
      <3>1. u \in OnLoop
        BY <1>1 DEF OnLoop, Local, AtItsPlace
      <3> QED
        BY <1>1, <2>1, <3>1 DEF OneSubmission
    <2>3. OnLoop' \subseteq OnLoop
      BY <1>8 DEF OnLoop, Others
    <2> QED
      BY <1>1, <2>2, <2>3 DEF OneSubmission
  <1> QED
    BY <1>9, <1>10, <1>11, <1>13, <1>14
    DEF IInv, TypeOK, Typed, Local, OnlyDeletionsRaise

LEMMA SessionStarted ==
  ASSUME sessions \in Seq(Copy), NEW copy \in Copy, sessions' = Append(sessions, copy)
  PROVE  /\ sessions' \in Seq(Copy) /\ ToSet(sessions') = ToSet(sessions) \cup {copy}
         /\ DOMAIN sessions' = DOMAIN sessions \cup {Len(sessions) + 1}
  <1>1. /\ sessions' \in Seq(Copy) /\ DOMAIN sessions = 1..Len(sessions) /\ Len(sessions) \in Nat
        /\ DOMAIN sessions' = 1..(Len(sessions) + 1)
        /\ sessions'[Len(sessions) + 1] = copy
        /\ \A n \in DOMAIN sessions : sessions'[n] = sessions[n]
    OBVIOUS
  <1>2. DOMAIN sessions' = DOMAIN sessions \cup {Len(sessions) + 1}
    BY <1>1
  <1> QED
    BY <1>1, <1>2 DEF ToSet

LEMMA StartStep == ASSUME IInv, NEW w \in Workers, Start(w) PROVE IInv'
  <1>1. /\ TypeOK /\ Typed /\ Local(w) /\ SeenAgree /\ NoSilentDuplicates /\ OneSubmission
        /\ UNCHANGED <<configurations, versions, jobs, trail, lost, counters>>
        /\ task[w].pc = "start"
    BY Parts DEF IInv, Start
  <1>2. CASE ~Stored(task[w].ask.subject)
    <2>1. End(w, "raised") /\ UNCHANGED <<tables, lost, counters>>
      BY <1>1, <1>2 DEF Start, tables
    <2>2. task[w].disturbed
      BY <1>1, <1>2 DEF Local, ReadTrue
    <2> QED
      BY <2>1, <2>2, EndStep DEF Outcomes
  <1>3. CASE Stored(task[w].ask.subject)
    <2>1. PICK v \in task[w].version : sessions' = Append(sessions, CopyOf(w, v))
      BY <1>3 DEF Start
    <2>2. CopyOf(w, v) \in Copy /\ CopyOf(w, v) \in Seen
      BY CopyIsSeen
    <2> DEFINE number == Len(sessions) + 1
               t == [task[w] EXCEPT !.pc = "audit", !.session = number]
    <2>3. task[w] \in Task /\ sessions \in Seq(Copy) /\ number \in Nat \ {0}
      BY <1>1 DEF TypeOK
    <2>4. task' = [task EXCEPT ![w] = t]
      BY <1>1, <1>3 DEF Start, TypeOK
    <2> HIDE DEF number
    <2>5. /\ t \in Task /\ t.pc = "audit" /\ t.version = task[w].version /\ t.session = number
          /\ t.ask = task[w].ask /\ t.outcome = task[w].outcome
      BY <2>3 DEF Task
    <2>6. t.disturbed <=> task[w].disturbed
      BY <2>3 DEF Task
    <2> HIDE DEF t
    <2>7. Others(w) /\ task'[w] = t
      BY <1>1, <2>5, <2>4, NewTask
    <2>8. sessions' \in Seq(Copy) /\ ToSet(sessions') = ToSet(sessions) \cup {CopyOf(w, v)}
      BY <2>1, <2>2, <2>3, SessionStarted
    <2>9. Typed'
      BY <1>1, <2>8, <2>7 DEF Typed, Others, counters
    <2>10. Local(w)'
      <3>1. task[w].ask.op = "start"
        BY <1>1 DEF Local, AtItsPlace
      <3>2. task'[w].session # 0
        BY <2>3, <2>5, <2>7
      <3>3. AtItsPlace(w)'
        BY <1>1, <2>5, <2>7, <3>1, <3>2 DEF Local, AtItsPlace, AskFits, Ids
      <3>4. ReadTrue(w)'
        BY <1>1, <2>5, <2>7 DEF Local, ReadTrue, Ids
      <3> QED
        BY <1>1, <2>5, <2>6, <2>7, <3>3, <3>4 DEF Local
    <2>11. /\ Grows /\ \A u \in Workers : Local(u)'
           /\ RowsConsecutive' /\ NamesUnique'
      BY <1>1, <2>7, <2>9, <2>10, ContentKept
    <2>12. SeenAgree'
      <3>1. UNION {task'[u].version : u \in Workers}
              \subseteq task[w].version \cup UNION {task[u].version : u \in Workers}
        BY <2>5, <2>7, HeldAfter
      <3>2. Copies' = Copies \cup {CopyOf(w, v)}
        BY <1>1, <2>8 DEF Copies
      <3>3. Seen' \subseteq Seen
        BY <1>1, <2>2, <3>1, <3>2 DEF Seen, AsCopy
      <3> QED
        BY <1>1, <2>9, <2>11, <3>3, SeenKept
    <2>13. NoSilentDuplicates' /\ OneSubmission'
      BY <1>1, <2>5, <2>7 DEF NoSilentDuplicates, OneSubmission, OnLoop, Others
    <2> QED
      BY <2>9, <2>11, <2>12, <2>13 DEF IInv, TypeOK, Typed, Local, OnlyDeletionsRaise
  <1> QED
    BY <1>2, <1>3

LEMMA CrashStep == ASSUME IInv, Crash PROVE IInv'
  <1>1. /\ TypeOK /\ Typed /\ RowsConsecutive /\ NamesUnique /\ SeenAgree /\ NoSilentDuplicates
        /\ UNCHANGED <<tables, requests, faults>>
    BY Parts DEF IInv, Crash
  <1>2. /\ task' \in [Workers -> Task]
        /\ \A u \in Workers : /\ task'[u].pc = "idle" /\ task'[u].ask = NoAsk
                              /\ task'[u].version = {} /\ task'[u].outcome = "none"
    <2>1. task' = [u \in Workers |-> NoTask]
      BY DEF Crash
    <2> HIDE DEF NoTask
    <2> QED
      BY <2>1, NoTaskFields
  <1>3. Typed'
    <2>1. Underway \subseteq Event
      BY EventsTyped DEF Underway
    <2> QED
      BY <1>1, <1>2, <2>1 DEF Typed, tables, Crash
  <1>4. Grows
    BY <1>1, UnchangedGrows DEF tables
  <1>5. \A u \in Workers : Local(u)'
    BY <1>2, IdleLocal
  <1>6. RowsConsecutive' /\ NamesUnique'
    BY <1>1 DEF tables, RowsConsecutive, NamesUnique, Stored, Ids, Row
  <1>7. SeenAgree'
    <2>1. Seen' \subseteq Seen
      BY <1>1, <1>2 DEF Seen, AsCopy, Copies, tables
    <2> QED
      BY <1>1, <1>3, <1>4, <2>1, SeenKept
  <1>8. NoSilentDuplicates' /\ OneSubmission'
    BY <1>1, <1>2 DEF NoSilentDuplicates, OneSubmission, OnLoop, tables
  <1> QED
    BY <1>3, <1>5, <1>6, <1>7, <1>8 DEF IInv, TypeOK, Typed, Local, OnlyDeletionsRaise

-----------------------------------------------------------------------------
LEMMA InitIInv == Init => IInv
  <1> SUFFICES ASSUME Init PROVE IInv
    OBVIOUS
  <1>1. Typed
    BY NoTaskFields, ConfigurationsAssumption DEF Init, Typed
  <1>2. \A w \in Workers : /\ task[w].pc = "idle" /\ task[w].ask = NoAsk
                           /\ task[w].version = {} /\ task[w].outcome = "none"
    BY NoTaskFields DEF Init
  <1>3. \A w \in Workers : Local(w)
    BY <1>2 DEF Local, AtItsPlace, AskFits, NoAsk, ReadTrue
  <1>4. RowsConsecutive /\ NamesUnique /\ NoSilentDuplicates
    BY DEF Init, RowsConsecutive, NamesUnique, NoSilentDuplicates, Ids
  <1>5. SeenAgree /\ OneSubmission
    <2>1. Seen = {}
      BY <1>2 DEF Init, Seen, Copies, ToSet
    <2> QED
      BY <1>2, <2>1 DEF SeenAgree, OneSubmission, OnLoop
  <1> QED
    BY <1>1, <1>3, <1>4, <1>5, Parts

LEMMA NextIInv == IInv /\ [Next]_vars => IInv'
  <1> SUFFICES ASSUME IInv, [Next]_vars PROVE IInv'
    OBVIOUS
  <1>1. CASE UNCHANGED vars
    <2>1. UNCHANGED <<tables, task, lost, counters>>
      BY <1>1 DEF vars
    <2>2. CASE Workers = {}
      <3>1. Typed /\ RowsConsecutive /\ NamesUnique /\ SeenAgree /\ NoSilentDuplicates
        BY Parts
      <3>2. Typed'
        BY <2>1, <3>1 DEF Typed, tables, counters
      <3>3. RowsConsecutive' /\ NamesUnique' /\ NoSilentDuplicates'
        BY <2>1, <3>1 DEF tables, RowsConsecutive, NamesUnique, NoSilentDuplicates, Ids, Stored, Row
      <3>4. SeenAgree'
        BY <2>1, <3>1 DEF tables, SeenAgree, Seen, AsCopy, Copies, ToSet, Ids
      <3>5. OneSubmission' /\ \A w \in Workers : Local(w)'
        BY <2>2 DEF OneSubmission, OnLoop
      <3> QED
        BY <2>2, <3>2, <3>3, <3>4, <3>5 DEF IInv, TypeOK, Typed, OnlyDeletionsRaise
    <2>3. ASSUME NEW w \in Workers PROVE IInv'
      <3>1. Typed /\ Local(w)
        BY Parts
      <3>2. Local(w)' /\ Others(w) /\ OnLoop' \subseteq OnLoop
        BY <2>1, <3>1 DEF Others, Typed, OnLoop, Local, AtItsPlace, AskFits, Loaded, ReadTrue,
          tables, Ids, Stored, Row
      <3>3. task'[w].pc = "submit" /\ ~task'[w].ask.confirm =>
              \A v \in task'[w].version, n \in DOMAIN jobs : jobs[n].copy.payload # v.payload
        BY <2>1, Parts DEF OneSubmission
      <3>4. {requests', crashes', faults'} \subseteq Nat /\ lost' \subseteq Event
        BY <2>1, <3>1 DEF Typed, counters
      <3> QED
        BY <2>1, <3>2, <3>3, <3>4, QuietStep
    <2> QED
      BY <2>2, <2>3
  <1> QED
    BY <1>1, BeginStep, FindStep, LoadStep, ListAllStep, ListEachStep, InsertStep, UpdateStep,
      DeleteStep, AuditStep, CheckStep, SubmitStep, StartStep, FailStep, CrashStep DEF Next, Step

LEMMA IInvAlways == Spec => []IInv
  BY InitIInv, NextIInv, PTL DEF Spec

(* Every variable has its type, and a request that goes on past a SELECT    *)
(* holds what it selected (TypeOK).                                         *)
THEOREM TypeCorrect == Spec => []TypeOK
  <1>1. IInv => TypeOK
    BY DEF IInv
  <1> QED
    BY <1>1, IInvAlways, PTL

(* Of two backtests of the same payload the later one was confirmed         *)
(* (NoSilentDuplicates).                                                    *)
THEOREM NoSilentDuplicatesHolds == Spec => []NoSilentDuplicates
  <1>1. IInv => NoSilentDuplicates
    BY DEF IInv
  <1> QED
    BY <1>1, IInvAlways, PTL

(* Only a deletion or a fault lets a request fail unanswered                *)
(* (OnlyDeletionsRaise).                                                    *)
THEOREM OnlyDeletionsRaiseHolds == Spec => []OnlyDeletionsRaise
  <1>1. IInv => OnlyDeletionsRaise
    BY DEF IInv
  <1> QED
    BY <1>1, IInvAlways, PTL

(* Jobs and paper sessions copied the payload of the version they name      *)
(* (SnapshotsMatch).                                                        *)
THEOREM SnapshotsMatchHolds == Spec => []SnapshotsMatch
  <1>1. IInv => SnapshotsMatch
    <2> SUFFICES ASSUME IInv PROVE SnapshotsMatch
      OBVIOUS
    <2>1. Typed /\ SeenAgree
      BY Parts
    <2>2. ASSUME NEW copy \in Copies, Stored(copy.configuration),
                 NEW v \in Row(copy.configuration, copy.version)
          PROVE  v.payload = copy.payload
      <3>1. copy.configuration \in Ids /\ copy.configuration # 0
        BY <2>1, <2>2, IdsNumbered DEF Stored
      <3>2. copy \in Seen
        BY <3>1, SeenOf
      <3>3. AsCopy(v) \in Seen /\ AsCopy(v).configuration = copy.configuration
            /\ AsCopy(v).version = copy.version /\ AsCopy(v).payload = v.payload
        BY SeenOf DEF Row, AsCopy
      <3> QED
        BY <2>1, <3>2, <3>3 DEF SeenAgree
    <2>3. ASSUME NEW one \in Copies, NEW other \in Copies, one.configuration # 0,
                 one.configuration = other.configuration, one.version = other.version
          PROVE  one.payload = other.payload
      BY <2>1, <2>3, SeenOf DEF SeenAgree
    <2> QED
      BY <2>2, <2>3 DEF SnapshotsMatch
  <1> QED
    BY <1>1, IInvAlways, PTL

-----------------------------------------------------------------------------
(* The audit trail.  A step leaves both sides of TrailTellsTrue alone, or   *)
(* moves events from one set on the right to another, or adds the same      *)
(* event to the changes and to those under way.                             *)

LEMMA AddedChanges ==
  ASSUME IInv, NEW v \in Version, Added(v), UNCHANGED sessions
  PROVE  /\ v.configuration \notin Ids =>
              Changes' = Changes \cup {[op |-> "create", subject |-> v.configuration, version |-> 0]}
         /\ v.configuration \in Ids =>
              Changes' = Changes \cup {[op |-> "update", subject |-> v.configuration,
                                        version |-> v.version]}
  <1>1. Typed
    BY Parts
  <1>2. PICK c : c = v.configuration
    OBVIOUS
  <1>3. /\ Ids' = Ids \cup {c} /\ \A d \in Ids \ {c} : configurations'[d] = configurations[d]
        /\ configurations'[c].current = v.version
    BY <1>2 DEF Added
  <1>4. Started' = Started
    BY DEF Started
  <1>5. Deleted' = Deleted
    <2>1. {d \in Ids' : ~Stored(d)'} = {d \in Ids : ~Stored(d)}
      BY <1>2 DEF Added
    <2> QED
      BY <2>1 DEF Deleted
  <1>6. Created' = Created \cup {[op |-> "create", subject |-> c, version |-> 0]}
    BY <1>3 DEF Created
  <1>7. CASE c \notin Ids
    <2>1. 2..configurations'[c].current = {}
      BY <1>2, <1>3, <1>7 DEF Added
    <2>2. \A d \in Ids : configurations'[d].current = configurations[d].current
      BY <1>3, <1>7
    <2>3. Updated' = Updated
      BY <1>3, <2>1, <2>2 DEF Updated
    <2> QED
      BY <1>2, <1>4, <1>5, <1>6, <1>7, <2>3 DEF Changes
  <1>8. CASE c \in Ids
    <2>1. configurations[c].current \in Nat \ {0} /\ v.version = configurations[c].current + 1
      BY <1>1, <1>2, <1>8, IdsNumbered DEF Added
    <2>2. 2..configurations'[c].current = (2..configurations[c].current) \cup {v.version}
      BY <1>3, <2>1
    <2>3. \A d \in Ids \ {c} : configurations'[d].current = configurations[d].current
      BY <1>3
    <2>4. Ids' = Ids
      BY <1>3, <1>8
    <2>5. Updated' = Updated \cup {[op |-> "update", subject |-> c, version |-> v.version]}
      <3>1. ASSUME NEW e
            PROVE  e \in Updated' <=>
                     e \in Updated \/ e = [op |-> "update", subject |-> c, version |-> v.version]
        <4>1. e \in Updated' <=>
                \E d \in Ids : \E n \in 2..configurations'[d].current :
                   e = [op |-> "update", subject |-> d, version |-> n]
          BY <2>4 DEF Updated
        <4>2. e \in Updated <=>
                \E d \in Ids : \E n \in 2..configurations[d].current :
                   e = [op |-> "update", subject |-> d, version |-> n]
          BY DEF Updated
        <4> QED
          BY <1>8, <2>2, <2>3, <4>1, <4>2, Zenon
      <3> QED
        BY <3>1
    <2>6. Created' = Created
      BY <2>4 DEF Created
    <2> QED
      BY <1>2, <1>4, <1>5, <1>8, <2>5, <2>6 DEF Changes
  <1> QED
    BY <1>2, <1>7, <1>8

LEMMA UnchangedChanges ==
  ASSUME UNCHANGED <<configurations, sessions>>
  PROVE  Changes' = Changes
  BY DEF Changes, Created, Updated, Deleted, Started, Ids, Stored

(* What the requests but one are about to record stays the same, if only    *)
(* that one moves.                                                          *)
Besides(w) ==
    \A u \in Workers \ {w} :
        (task'[u].pc = "audit" <=> task[u].pc = "audit") /\ Events(u)' = Events(u)

LEMMA EventsOf ==
  ASSUME NEW u, task'[u].ask = task[u].ask, task'[u].version = task[u].version,
         task'[u].session = task[u].session
  PROVE  Events(u)' = Events(u)
  BY ZenonT(40) DEF Events

LEMMA OthersBesides == ASSUME NEW w \in Workers, Others(w) PROVE Besides(w)
  BY DEF Others, Besides, Events

LEMMA UnderwayMoves ==
  ASSUME NEW w \in Workers, Besides(w)
  PROVE  /\ task[w].pc # "audit" /\ task'[w].pc # "audit" => Underway' = Underway
         /\ task[w].pc # "audit" /\ task'[w].pc = "audit" => Underway' = Underway \cup Events(w)'
         /\ task[w].pc = "audit" /\ task'[w].pc # "audit" => Underway = Underway' \cup Events(w)
  <1> DEFINE Rest == UNION {Events(u) : u \in {v \in Workers \ {w} : task[v].pc = "audit"}}
  <1>1. Rest' = Rest
    BY DEF Besides
  <1>2. /\ task[w].pc = "audit" => Underway = Rest \cup Events(w)
        /\ task[w].pc # "audit" => Underway = Rest
    BY DEF Underway
  <1>3. /\ task'[w].pc = "audit" => Underway' = Rest' \cup Events(w)'
        /\ task'[w].pc # "audit" => Underway' = Rest'
    BY DEF Underway
  <1> HIDE DEF Rest
  <1> QED
    BY <1>1, <1>2, <1>3

LEMMA TrailQuiet ==
  ASSUME TrailTellsTrue, UNCHANGED <<configurations, sessions, trail, lost>>,
         NEW w \in Workers, Besides(w), task[w].pc # "audit", task'[w].pc # "audit"
  PROVE  TrailTellsTrue'
  <1>1. Underway' = Underway
    BY UnderwayMoves
  <1>2. Changes' = Changes
    BY UnchangedChanges
  <1> QED
    BY <1>1, <1>2 DEF TrailTellsTrue

LEMMA TrailChange ==
  ASSUME TrailTellsTrue, UNCHANGED <<trail, lost>>, NEW w \in Workers, Besides(w),
         task[w].pc # "audit", task'[w].pc = "audit",
         NEW e, Events(w)' = {e}, Changes' = Changes \cup {e}
  PROVE  TrailTellsTrue'
  <1>1. Underway' = Underway \cup {e}
    BY UnderwayMoves
  <1> QED
    BY <1>1 DEF TrailTellsTrue

LEMMA RecordedTask ==
  ASSUME TypeOK, NEW w \in Workers, NEW v \in Version, Recorded(w, v)
  PROVE  Besides(w) /\ task'[w].pc = "audit" /\ task'[w].ask = task[w].ask /\ task'[w].version = {v}
  <1> DEFINE t == [task[w] EXCEPT !.pc = "audit", !.version = {v}]
  <1>1. task[w] \in Task
    BY DEF TypeOK
  <1>2. t.pc = "audit" /\ t.ask = task[w].ask /\ t.version = {v}
    BY <1>1 DEF Task
  <1>3. task' = [task EXCEPT ![w] = t]
    BY DEF Recorded
  <1> HIDE DEF t
  <1>4. task'[w] = t /\ \A u \in Workers \ {w} : task'[u] = task[u]
    BY <1>3 DEF TypeOK
  <1> QED
    BY <1>2, <1>4 DEF Besides, Events

LEMMA InsertedId ==
  ASSUME TypeOK, NEW w \in Workers, Insert(w), ~Taken(task[w].ask.name, 0)
  PROVE  Ids' # Ids
  <1>1. PICK r : r = [stored |-> TRUE, name |-> task[w].ask.name, current |-> 1]
    OBVIOUS
  <1>2. configurations \in Seq(Configuration) /\ configurations' = Append(configurations, r)
    BY <1>1 DEF TypeOK, Insert
  <1> QED
    BY <1>2 DEF Ids

(* A request that makes no change does not get to its record. *)
LEMMA QuietTask ==
  ASSUME IInv, NEW w \in Workers,
         Begin(w) \/ Find(w) \/ Load(w) \/ ListAll(w) \/ ListEach(w) \/ Check(w) \/ Submit(w)
  PROVE  Besides(w) /\ task[w].pc # "audit" /\ task'[w].pc # "audit"
  <1>1. TypeOK /\ task[w] \in Task
    BY DEF IInv, TypeOK
  <1>2. ASSUME NEW o \in Outcomes, End(w, o) PROVE Besides(w) /\ task'[w].pc # "audit"
    BY <1>1, <1>2, EndTask, OthersBesides
  <1>3. ASSUME NEW t, t.pc # "audit", task' = [task EXCEPT ![w] = t]
        PROVE  Besides(w) /\ task'[w].pc # "audit"
    <2>1. task'[w] = t /\ \A u \in Workers \ {w} : task'[u] = task[u]
      BY <1>1, <1>3 DEF TypeOK
    <2> QED
      BY <1>3, <2>1 DEF Besides, Events
  <1>4. ASSUME NEW p, NEW x
        PROVE  /\ [task[w] EXCEPT !.pc = p].pc = p
               /\ [task[w] EXCEPT !.pc = p, !.current = x].pc = p
               /\ [task[w] EXCEPT !.version = x, !.pc = p].pc = p
               /\ [task[w] EXCEPT !.pc = p, !.left = x].pc = p
               /\ [task[w] EXCEPT !.left = x].pc = task[w].pc
    BY <1>1 DEF Task
  <1>5. CASE Begin(w)
    <2>1. Others(w) /\ task'[w].pc # "audit"
      BY <1>1, <1>5, BeginTask
    <2> QED
      BY <1>5, <2>1, OthersBesides DEF Begin
  <1>6. CASE Find(w)
    <2>1. CASE End(w, "missing")
      BY <1>2, <1>6, <2>1 DEF Find, Outcomes
    <2>2. CASE ~End(w, "missing")
      <3> DEFINE p == IF task[w].ask.op = "delete" THEN "delete" ELSE "load"
                 x == configurations[task[w].ask.subject].current
                 t == [task[w] EXCEPT !.pc = p, !.current = x]
      <3>1. task' = [task EXCEPT ![w] = t]
        BY <1>1, <1>6, <2>2 DEF Find, TypeOK
      <3>2. p # "audit"
        OBVIOUS
      <3> HIDE DEF p, x
      <3>3. t.pc # "audit" /\ task[w].pc # "audit"
        BY <1>4, <1>6, <3>2 DEF Find
      <3> HIDE DEF t
      <3> QED
        BY <1>3, <3>1, <3>3
    <2> QED
      BY <2>1, <2>2
  <1>7. CASE Load(w)
    <2>1. CASE End(w, "missing")
      BY <1>2, <1>7, <2>1 DEF Load, Outcomes
    <2>2. CASE ~End(w, "missing")
      <3> DEFINE op == task[w].ask.op
                 p == CASE op = "update" -> "update" [] op = "clone" -> "insert"
                        [] op = "submit" -> "check" [] op = "start" -> "start"
                 x == Row(task[w].ask.subject, Resolved(w))
                 t == [task[w] EXCEPT !.version = x, !.pc = p]
      <3>1. task' = [task EXCEPT ![w] = t]
        BY <1>1, <1>7, <2>2 DEF Load, TypeOK
      <3>2. op \in {"update", "clone", "submit", "start"}
        BY <1>7, Parts DEF Load, Local, AtItsPlace
      <3>3. p # "audit"
        BY <3>2
      <3> HIDE DEF p, x
      <3>4. t.pc # "audit" /\ task[w].pc # "audit"
        BY <1>4, <1>7, <3>3 DEF Load
      <3> HIDE DEF t
      <3> QED
        BY <1>3, <3>1, <3>4
    <2> QED
      BY <2>1, <2>2
  <1>8. CASE ListAll(w)
    <2> DEFINE x == {[configuration |-> c, current |-> configurations[c].current] :
                       c \in {d \in Ids : Stored(d)}}
               t == [task[w] EXCEPT !.pc = "each", !.left = x]
    <2>1. task' = [task EXCEPT ![w] = t]
      BY <1>1, <1>8 DEF ListAll, TypeOK
    <2> HIDE DEF x
    <2>2. t.pc # "audit" /\ task[w].pc # "audit"
      BY <1>4, <1>8 DEF ListAll
    <2> HIDE DEF t
    <2> QED
      BY <1>3, <2>1, <2>2
  <1>9. CASE ListEach(w)
    <2>1. task[w].pc # "audit"
      BY <1>9 DEF ListEach
    <2>2. CASE End(w, "done") \/ End(w, "raised")
      <3>1. {"done", "raised"} \subseteq Outcomes
        BY DEF Outcomes
      <3> QED
        BY <1>2, <2>1, <2>2, <3>1
    <2>3. ASSUME NEW item \in task[w].left, task' = [task EXCEPT ![w].left = @ \ {item}]
          PROVE  Besides(w) /\ task'[w].pc # "audit"
      <3> DEFINE t == [task[w] EXCEPT !.left = task[w].left \ {item}]
      <3>1. task' = [task EXCEPT ![w] = t]
        BY <2>3
      <3>2. t.pc # "audit"
        BY <1>4, <2>1
      <3> HIDE DEF t
      <3> QED
        BY <1>3, <2>1, <3>1, <3>2
    <2> QED
      BY <1>9, <2>1, <2>2, <2>3 DEF ListEach
  <1>10. CASE Check(w)
    <2>1. CASE End(w, "conflict")
      BY <1>2, <1>10, <2>1 DEF Check, Outcomes
    <2>2. CASE ~End(w, "conflict")
      <3>1. task' = [task EXCEPT ![w] = [task[w] EXCEPT !.pc = "submit"]]
        BY <1>10, <2>2 DEF Check, Go
      <3> QED
        BY <1>3, <1>4, <1>10, <3>1 DEF Check
    <2> QED
      BY <2>1, <2>2
  <1>11. CASE Submit(w)
    BY <1>2, <1>11 DEF Submit, Outcomes
  <1> QED
    BY <1>5, <1>6, <1>7, <1>8, <1>9, <1>10, <1>11

LEMMA TrailInsert ==
  ASSUME IInv, TrailTellsTrue, NEW w \in Workers, Insert(w)
  PROVE  TrailTellsTrue'
  <1>1. TypeOK /\ task[w] \in Task /\ task[w].pc = "insert"
    BY DEF IInv, TypeOK, Insert
  <1>2. CASE Taken(task[w].ask.name, 0)
    <2>1. End(w, "conflict") /\ UNCHANGED <<configurations, sessions, trail, lost>>
      BY <1>2 DEF Insert, Rejected
    <2> QED
      BY <1>1, <2>1, EndTask, OthersBesides, TrailQuiet DEF Outcomes
  <1>3. CASE ~Taken(task[w].ask.name, 0)
    <2>1. task[w].ask.op \in {"create", "clone"}
      BY <1>3, InsertAdds
    <2>2. PICK v \in Version : Added(v) /\ Recorded(w, v)
      BY <1>3, InsertAdds
    <2>3. v.configuration \notin Ids
      <3>1. Ids' # Ids
        BY <1>1, <1>3, InsertedId
      <3> QED
        BY <2>2, <3>1 DEF Added
    <2>4. Besides(w) /\ task'[w].pc = "audit" /\ task'[w].ask = task[w].ask
          /\ task'[w].version = {v}
      BY <1>1, <2>2, RecordedTask
    <2>5. Events(w)' = {[op |-> "create", subject |-> v.configuration, version |-> 0]}
      BY <2>1, <2>4 DEF Events
    <2>6. Changes' = Changes \cup {[op |-> "create", subject |-> v.configuration, version |-> 0]}
      BY <2>2, <2>3, AddedChanges DEF Insert
    <2> QED
      BY <1>1, <2>4, <2>5, <2>6, TrailChange DEF Insert
  <1> QED
    BY <1>2, <1>3

LEMMA TrailUpdate ==
  ASSUME IInv, TrailTellsTrue, NEW w \in Workers, Update(w)
  PROVE  TrailTellsTrue'
  <1>1. TypeOK /\ task[w] \in Task /\ task[w].pc = "update"
    BY DEF IInv, TypeOK, Update
  <1>2. CASE ~Stored(task[w].ask.subject) \/ Violated(task[w].ask, task[w].current + 1)
    <2>1. /\ End(w, "conflict") \/ End(w, "raised")
          /\ UNCHANGED <<configurations, sessions, trail, lost>>
      BY <1>2 DEF Update, Rejected
    <2> QED
      BY <1>1, <2>1, EndTask, OthersBesides, TrailQuiet DEF Outcomes
  <1>3. CASE Stored(task[w].ask.subject) /\ ~Violated(task[w].ask, task[w].current + 1)
    <2>1. task[w].ask.op = "update"
      BY <1>3, UpdateAdds
    <2>2. PICK v \in Version : Added(v) /\ Recorded(w, v) /\ v.configuration = task[w].ask.subject
                               /\ v.configuration \in Ids
      BY <1>3, UpdateAdds
    <2>3. Besides(w) /\ task'[w].pc = "audit" /\ task'[w].ask = task[w].ask
          /\ task'[w].version = {v}
      BY <1>1, <2>2, RecordedTask
    <2>4. Events(w)' = {[op |-> "update", subject |-> v.configuration, version |-> v.version]}
      BY <2>1, <2>2, <2>3 DEF Events
    <2>5. Changes' = Changes \cup {[op |-> "update", subject |-> v.configuration,
                                    version |-> v.version]}
      BY <2>2, AddedChanges DEF Update
    <2> QED
      BY <1>1, <2>3, <2>4, <2>5, TrailChange DEF Update
  <1> QED
    BY <1>2, <1>3

LEMMA TrailDelete ==
  ASSUME IInv, TrailTellsTrue, NEW w \in Workers, Delete(w)
  PROVE  TrailTellsTrue'
  <1>1. TypeOK /\ Typed /\ task[w].pc = "delete" /\ task[w].ask.op = "delete"
        /\ task[w].ask.subject \in Ids
    BY Parts DEF IInv, Delete, Local, AtItsPlace
  <1>2. PICK c \in Ids : c = task[w].ask.subject
    BY <1>1
  <1>3. /\ Ids' = Ids /\ ~Stored(c)' /\ \A d : d # c => (Stored(d)' <=> Stored(d))
        /\ \A d \in Ids : configurations'[d].current = configurations[d].current
    <2>1. configurations' = [configurations EXCEPT ![c].stored = FALSE]
      BY <1>2 DEF Delete
    <2>2. configurations \in Seq(Configuration)
      BY <1>1 DEF Typed
    <2> QED
      BY <2>1, <2>2, ConfigurationRemoved
  <1>4. Besides(w) /\ task'[w].pc = "audit" /\ task'[w].ask = task[w].ask
    <2>1. /\ task'[w].pc = "audit" /\ task'[w].ask = task[w].ask
          /\ \A u \in Workers \ {w} : /\ task'[u].ask = task[u].ask /\ task'[u].pc = task[u].pc
                                     /\ task'[u].version = task[u].version
                                     /\ task'[u].session = task[u].session
      BY <1>1, DeleteTasks
    <2>2. ASSUME NEW u \in Workers \ {w} PROVE Events(u)' = Events(u)
      <3>1. /\ task'[u].ask = task[u].ask /\ task'[u].version = task[u].version
            /\ task'[u].session = task[u].session
        BY <2>1
      <3> QED
        BY <3>1, EventsOf
    <2> QED
      BY <2>1, <2>2 DEF Besides
  <1>5. Events(w)' = {[op |-> "delete", subject |-> c, version |-> 0]}
    BY <1>1, <1>2, <1>4 DEF Events
  <1>6. Changes' = Changes \cup {[op |-> "delete", subject |-> c, version |-> 0]}
    <2>1. Created' = Created /\ Updated' = Updated
      BY <1>3 DEF Created, Updated
    <2>2. DOMAIN sessions' = DOMAIN sessions
      BY DEF Delete
    <2>3. Started' = Started
      BY <2>2 DEF Started
    <2>4. {d \in Ids' : ~Stored(d)'} = {d \in Ids : ~Stored(d)} \cup {c}
      BY <1>3
    <2>5. Deleted' = Deleted \cup {[op |-> "delete", subject |-> c, version |-> 0]}
      BY <2>4 DEF Deleted
    <2> QED
      BY <2>1, <2>3, <2>5 DEF Changes
  <1> QED
    BY <1>1, <1>4, <1>5, <1>6, TrailChange DEF Delete

LEMMA TrailStart ==
  ASSUME IInv, TrailTellsTrue, NEW w \in Workers, Start(w)
  PROVE  TrailTellsTrue'
  <1>1. TypeOK /\ Typed /\ task[w] \in Task /\ task[w].pc = "start" /\ task[w].ask.op = "start"
    BY Parts DEF IInv, TypeOK, Start, Local, AtItsPlace
  <1>2. CASE ~Stored(task[w].ask.subject)
    <2>1. End(w, "raised") /\ UNCHANGED <<configurations, sessions, trail, lost>>
      BY <1>2 DEF Start
    <2> QED
      BY <1>1, <2>1, EndTask, OthersBesides, TrailQuiet DEF Outcomes
  <1>3. CASE Stored(task[w].ask.subject)
    <2>1. PICK v \in task[w].version : sessions' = Append(sessions, CopyOf(w, v))
      BY <1>3 DEF Start
    <2>2. CopyOf(w, v) \in Copy /\ sessions \in Seq(Copy)
      BY <1>1, CopyIsSeen DEF Typed
    <2>3. DOMAIN sessions' = DOMAIN sessions \cup {Len(sessions) + 1}
      BY <2>1, <2>2, SessionStarted
    <2> DEFINE n == Len(sessions) + 1
               t == [task[w] EXCEPT !.pc = "audit", !.session = n]
    <2>4. task' = [task EXCEPT ![w] = t]
      BY <1>1, <1>3 DEF Start, TypeOK
    <2> HIDE DEF n
    <2>5. t.pc = "audit" /\ t.session = n /\ t.ask = task[w].ask
      BY <1>1 DEF Task
    <2> HIDE DEF t
    <2>6. task'[w] = t /\ \A u \in Workers \ {w} : task'[u] = task[u]
      BY <1>1, <2>4 DEF TypeOK
    <2>7. Besides(w)
      BY <2>6 DEF Besides, Events
    <2>8. Events(w)' = {[op |-> "start", subject |-> n, version |-> 0]}
      BY <1>1, <2>5, <2>6 DEF Events
    <2>9. Changes' = Changes \cup {[op |-> "start", subject |-> n, version |-> 0]}
      <3>1. Started' = Started \cup {[op |-> "start", subject |-> n, version |-> 0]}
        BY <2>3 DEF Started, n
      <3>2. Created' = Created /\ Updated' = Updated /\ Deleted' = Deleted
        BY DEF Start, Created, Updated, Deleted, Ids, Stored
      <3> QED
        BY <3>1, <3>2 DEF Changes
    <2> QED
      BY <1>1, <2>5, <2>6, <2>7, <2>8, <2>9, TrailChange DEF Start
  <1> QED
    BY <1>2, <1>3

LEMMA TrailStep ==
  ASSUME IInv, TrailTellsTrue, [Next]_vars
  PROVE  TrailTellsTrue'
  <1>0. TypeOK
    BY DEF IInv
  <1>1. CASE UNCHANGED vars
    <2>1. UNCHANGED <<configurations, sessions, trail, task, lost>>
      BY <1>1 DEF vars, tables
    <2>2. Underway' = Underway
      <3>1. \A w : Events(w)' = Events(w)
        BY <2>1, EventsOf
      <3> QED
        BY <2>1, <3>1 DEF Underway
    <2> QED
      BY <2>1, <2>2, UnchangedChanges DEF TrailTellsTrue
  <1>2. ASSUME NEW w \in Workers,
               Begin(w) \/ Find(w) \/ Load(w) \/ ListAll(w) \/ ListEach(w) \/ Check(w) \/ Submit(w)
        PROVE  TrailTellsTrue'
    <2>1. UNCHANGED <<configurations, sessions, trail, lost>>
      BY <1>2 DEF Begin, Find, Load, ListAll, ListEach, Check, Submit, tables
    <2>2. Besides(w) /\ task[w].pc # "audit" /\ task'[w].pc # "audit"
      BY <1>2, QuietTask
    <2> QED
      BY <2>1, <2>2, TrailQuiet, SMTT(40)
  <1>3. ASSUME NEW w \in Workers, Audit(w) PROVE TrailTellsTrue'
    <2>1. Besides(w) /\ task[w].pc = "audit" /\ task'[w].pc # "audit"
      BY <1>0, <1>3, EndTask, OthersBesides DEF Audit, Outcomes
    <2>2. Underway = Underway' \cup Events(w)
      BY <2>1, UnderwayMoves
    <2>3. Changes' = Changes
      BY <1>3, UnchangedChanges DEF Audit
    <2> QED
      BY <1>3, <2>2, <2>3 DEF Audit, TrailTellsTrue
  <1>4. ASSUME NEW w \in Workers, Fail(w) PROVE TrailTellsTrue'
    <2>1. Besides(w) /\ task'[w].pc # "audit"
      BY <1>0, <1>4, FailTask, OthersBesides
    <2>2. /\ task[w].pc = "audit" => Underway = Underway' \cup Events(w)
          /\ task[w].pc # "audit" => Underway = Underway'
      BY <2>1, UnderwayMoves
    <2>3. Changes' = Changes
      BY <1>4, UnchangedChanges DEF Fail, tables
    <2> QED
      BY <1>4, <2>2, <2>3 DEF Fail, tables, TrailTellsTrue
  <1>5. CASE Crash
    <2>1. \A w \in Workers : task'[w].pc # "audit"
      BY <1>5, NoTaskFields DEF Crash
    <2>2. Underway' = {}
      BY <2>1 DEF Underway
    <2>3. Changes' = Changes
      BY <1>5, UnchangedChanges DEF Crash, tables
    <2> QED
      BY <1>5, <2>2, <2>3 DEF Crash, tables, TrailTellsTrue
  <1> QED
    BY <1>1, <1>2, <1>3, <1>4, <1>5, TrailInsert, TrailUpdate, TrailDelete, TrailStart
    DEF Next, Step

(* The trail tells of the changes there are, but for those whose request    *)
(* has yet to record them or was cut off first (TrailTellsTrue).            *)
THEOREM TrailTellsTrueHolds == Spec => []TrailTellsTrue
  <1>1. Init => TrailTellsTrue
    <2> SUFFICES ASSUME Init PROVE TrailTellsTrue
      OBVIOUS
    <2>1. Ids = {} /\ DOMAIN sessions = {} /\ trail = {} /\ lost = {}
      BY DEF Init, Ids
    <2>2. Underway = {}
      BY NoTaskFields DEF Init, Underway
    <2>3. Created = {} /\ Updated = {} /\ Deleted = {} /\ Started = {}
      BY <2>1 DEF Created, Updated, Deleted, Started
    <2> QED
      BY <2>1, <2>2, <2>3 DEF TrailTellsTrue, Changes
  <1>2. IInv /\ TrailTellsTrue /\ [Next]_vars => TrailTellsTrue'
    BY TrailStep
  <1> QED
    BY <1>1, <1>2, IInvAlways, PTL DEF Spec

-----------------------------------------------------------------------------
(* VersionHistory is implemented. *)

LEMMA ContentOf ==
  ASSUME NEW c, NEW n, NEW v
  PROVE  /\ Row(c, n) = {v} => Content(c, n) = [name |-> v.name, payload |-> v.payload]
         /\ Row(c, n)' = {v} => Content(c, n)' = [name |-> v.name, payload |-> v.payload]
  <1>1. (CHOOSE x \in {v} : TRUE) = v
    OBVIOUS
  <1> QED
    BY <1>1 DEF Content

LEMMA SameContent ==
  ASSUME NEW c, NEW n, NEW v, Row(c, n) = {v}, Row(c, n)' = {v}
  PROVE  Content(c, n)' = Content(c, n)
  <1>1. Content(c, n) = [name |-> v.name, payload |-> v.payload]
    BY ContentOf
  <1>2. Content(c, n)' = [name |-> v.name, payload |-> v.payload]
    BY ContentOf
  <1> QED
    BY <1>1, <1>2

LEMMA AppendedEntry ==
  ASSUME NEW S, NEW q \in Seq(S), NEW x \in S
  PROVE  Append(q, x) = [n \in 1..(Len(q) + 1) |-> IF n = Len(q) + 1 THEN x ELSE q[n]]
  <1> DEFINE a == Append(q, x)
  <1>1. a \in Seq(S) /\ Len(a) = Len(q) + 1 /\ Len(q) \in Nat
    OBVIOUS
  <1>2. \A n \in 1..(Len(q) + 1) : a[n] = IF n = Len(q) + 1 THEN x ELSE q[n]
    OBVIOUS
  <1> HIDE DEF a
  <1>3. a = [n \in 1..(Len(q) + 1) |-> a[n]]
    BY <1>1
  <1> QED
    BY <1>2, <1>3 DEF a

(* An entry for each version, the last one under the current name. *)
LEMMA HistoryShape ==
  ASSUME Typed, RowsConsecutive, NEW c \in Ids, Stored(c)
  PROVE  /\ History(c) = [n \in 1..configurations[c].current |-> Content(c, n)]
         /\ History(c) \in Seq(Promise!Entry) /\ History(c) # <<>>
         /\ Len(History(c)) = configurations[c].current
         /\ History(c)[Len(History(c))].name = configurations[c].name
  <1> DEFINE k == configurations[c].current
  <1>1. History(c) = [n \in 1..k |-> Content(c, n)] /\ k \in Nat \ {0}
    BY IdsNumbered DEF History, Stored
  <1>2. ASSUME NEW n \in 1..k
        PROVE  /\ Content(c, n) \in Promise!Entry
               /\ n = k => Content(c, n).name = configurations[c].name
    <2>1. PICK v \in versions : Row(c, n) = {v}
      BY DEF RowsConsecutive
    <2>2. Content(c, n) = [name |-> v.name, payload |-> v.payload] /\ v \in Version
      BY <2>1, ContentOf DEF Typed
    <2>3. n = k => v.name = configurations[c].name
      BY <2>1 DEF RowsConsecutive
    <2> QED
      BY <2>2, <2>3 DEF Version, Promise!Entry
  <1>3. \A n \in 1..k : Content(c, n) \in Promise!Entry
    BY <1>2
  <1>4. History(c) \in Seq(Promise!Entry) /\ Len(History(c)) = k
    BY <1>1, <1>3
  <1>5. k \in 1..k /\ History(c)[k] = Content(c, k)
    BY <1>1
  <1>6. History(c)[k].name = configurations[c].name
    BY <1>2, <1>3, <1>5
  <1> QED
    BY <1>1, <1>4, <1>6

LEMMA HistoryDeleted ==
  ASSUME NEW c \in Ids, ~Stored(c)
  PROVE  History(c) = <<>>
  BY DEF History, Stored

Histories == [c \in Ids |-> History(c)]

LEMMA HistoriesType ==
  ASSUME IInv
  PROVE  /\ Histories \in Seq(Seq(Promise!Entry)) /\ Len(Histories) = Len(configurations)
         /\ DOMAIN Histories = Ids
         /\ \A c \in Ids : /\ Histories[c] = History(c)
                           /\ Stored(c) <=> Histories[c] # <<>>
  <1>1. Typed /\ RowsConsecutive
    BY Parts
  <1>2. Ids = 1..Len(configurations) /\ Len(configurations) \in Nat
    BY <1>1, IdsNumbered
  <1>3. ASSUME NEW c \in Ids
        PROVE  History(c) \in Seq(Promise!Entry) /\ (Stored(c) <=> History(c) # <<>>)
    <2>1. CASE Stored(c)
      BY <1>1, <2>1, HistoryShape
    <2>2. CASE ~Stored(c)
      <3>1. History(c) = <<>>
        BY <2>2, HistoryDeleted
      <3> QED
        BY <2>2, <3>1
    <2> QED
      BY <2>1, <2>2
  <1>4. DOMAIN Histories = Ids /\ \A c \in Ids : Histories[c] = History(c)
    BY DEF Histories
  <1>5. Histories \in Seq(Seq(Promise!Entry)) /\ Len(Histories) = Len(configurations)
    BY <1>2, <1>3 DEF Histories
  <1> QED
    BY <1>3, <1>4, <1>5

(* Free says of the histories what Taken says of the table. *)
LEMMA FreeIsNotTaken ==
  ASSUME IInv, NEW name, NEW c, ~Taken(name, c)
  PROVE  Promise!Free(name, c)
  <1>1. Typed /\ RowsConsecutive
    BY Parts
  <1>2. ASSUME NEW d \in Ids, Histories[d] # <<>>, Histories[d][Len(Histories[d])].name = name
        PROVE  d = c
    <2>1. Stored(d) /\ Histories[d] = History(d)
      BY <1>2, HistoriesType
    <2>2. configurations[d].name = name
      BY <1>1, <1>2, <2>1, HistoryShape
    <2> QED
      BY <2>1, <2>2 DEF Taken
  <1> QED
    BY <1>2, HistoriesType DEF Promise!Free, Promise!Exists, Promise!CurrentName, Histories

(* A version that is added is an entry at the end of its history. *)
LEMMA AddedToHistory ==
  ASSUME IInv, NEW v \in Version, Added(v)
  PROVE  /\ [name |-> v.name, payload |-> v.payload] \in Promise!Entry
         /\ \A d \in Ids \ {v.configuration} : History(d)' = History(d)
         /\ History(v.configuration)' =
              [n \in 1..v.version |->
                 IF n = v.version THEN [name |-> v.name, payload |-> v.payload]
                 ELSE Content(v.configuration, n)]
  <1>1. Typed /\ RowsConsecutive
    BY Parts
  <1>2. [name |-> v.name, payload |-> v.payload] \in Promise!Entry
    BY DEF Version, Promise!Entry
  <1>3. ASSUME NEW d, NEW n, Stored(d), d \in Ids, n \in 1..configurations[d].current,
               ~(d = v.configuration /\ n = v.version)
        PROVE  Content(d, n)' = Content(d, n)
    <2>1. PICK u \in versions : Row(d, n) = {u}
      BY <1>1, <1>3 DEF RowsConsecutive
    <2>2. Row(d, n)' = {u}
      BY <1>1, <1>3, <2>1, AddedRow
    <2> QED
      BY <2>1, <2>2, ContentOf
  <1>4. ASSUME NEW d \in Ids \ {v.configuration} PROVE History(d)' = History(d)
    <2>1. configurations'[d] = configurations[d]
      BY DEF Added
    <2>2. CASE configurations[d].stored
      <3>1. \A n \in 1..configurations[d].current : Content(d, n)' = Content(d, n)
        BY <1>3, <2>2 DEF Stored
      <3> QED
        BY <2>1, <2>2, <3>1 DEF History
    <2>3. CASE ~configurations[d].stored
      BY <2>1, <2>3 DEF History
    <2> QED
      BY <2>2, <2>3
  <1>5. PICK c : c = v.configuration
    OBVIOUS
  <1>6. configurations'[c].stored /\ configurations'[c].current = v.version
    BY <1>5 DEF Added, Stored
  <1>7. v.version \in Nat \ {0}
    BY DEF Version
  <1>8. ASSUME NEW n \in 1..v.version
        PROVE  Content(c, n)' = IF n = v.version THEN [name |-> v.name, payload |-> v.payload]
                                ELSE Content(c, n)
    <2>1. CASE n = v.version
      <3>1. Row(c, n)' = {v}
        BY <1>1, <1>5, <2>1, AddedRow
      <3> QED
        BY <2>1, <3>1, ContentOf
    <2>2. CASE n # v.version
      <3>1. Stored(c) /\ c \in Ids /\ n \in 1..configurations[c].current
        BY <1>1, <1>5, <1>7, <2>2, IdsNumbered DEF Added
      <3> QED
        BY <1>3, <2>2, <3>1
    <2> QED
      BY <2>1, <2>2
  <1>9. History(c)' = [n \in 1..v.version |-> Content(c, n)']
    BY <1>6 DEF History
  <1> QED
    BY <1>2, <1>4, <1>5, <1>8, <1>9

LEMMA InsertImplements ==
  ASSUME IInv, NEW v \in Version, Added(v), v.configuration \notin Ids,
         v.configuration = Len(configurations) + 1
  PROVE  \E entry \in Promise!Entry : Promise!Create(entry)
  <1>1. Typed
    BY Parts
  <1>2. PICK entry \in Promise!Entry : entry = [name |-> v.name, payload |-> v.payload]
    BY AddedToHistory
  <1>3. Promise!Free(entry.name, 0)
    <2>1. ~Taken(v.name, 0)
      BY <1>1, IdsNumbered DEF Added, Taken
    <2> QED
      BY <1>2, <2>1, FreeIsNotTaken
  <1>4. v.version = 1
    BY DEF Added
  <1>5. PICK c : c = v.configuration
    OBVIOUS
  <1>6. History(c)' = <<entry>>
    <2>1. History(v.configuration)' =
            [n \in 1..v.version |-> IF n = v.version THEN entry ELSE Content(v.configuration, n)]
      BY <1>2, AddedToHistory, Zenon
    <2>2. History(c)' = [n \in 1..1 |-> entry]
      BY <1>4, <1>5, <2>1
    <2> QED
      BY <2>2
  <1>7. Histories' = Append(Histories, <<entry>>)
    <2>1. /\ Histories \in Seq(Seq(Promise!Entry)) /\ Len(Histories) = Len(configurations)
          /\ DOMAIN Histories = Ids /\ \A d \in Ids : Histories[d] = History(d)
      BY HistoriesType
    <2>2. /\ Ids' = Ids \cup {c} /\ Ids = 1..Len(configurations) /\ Len(configurations) \in Nat
      BY <1>1, <1>5, IdsNumbered DEF Added
    <2>3. Histories' = [d \in Ids \cup {c} |-> History(d)']
      BY <2>2 DEF Histories
    <2>4. \A d \in Ids : History(d)' = Histories[d]
      BY <2>1, AddedToHistory
    <2>5. Histories' = [d \in 1..(Len(Histories) + 1) |->
                          IF d = Len(Histories) + 1 THEN <<entry>> ELSE Histories[d]]
      BY <1>5, <1>6, <2>1, <2>2, <2>3, <2>4
    <2> QED
      BY <2>1, <2>5
  <1> QED
    BY <1>3, <1>7 DEF Promise!Create, Histories

LEMMA UpdateImplements ==
  ASSUME IInv, NEW v \in Version, Added(v), v.configuration \in Ids
  PROVE  \E c \in DOMAIN Histories, entry \in Promise!Entry : Promise!Update(c, entry)
  <1>1. Typed /\ RowsConsecutive
    BY Parts
  <1>2. PICK entry \in Promise!Entry : entry = [name |-> v.name, payload |-> v.payload]
    BY AddedToHistory
  <1>3. PICK c \in Ids : c = v.configuration
    OBVIOUS
  <1>4. Stored(c) /\ v.version = configurations[c].current + 1
    BY <1>3 DEF Added
  <1>5. Promise!Free(entry.name, c)
    <2>1. ~Taken(v.name, c)
      BY <1>3 DEF Added
    <2> QED
      BY <1>2, <2>1, FreeIsNotTaken
  <1>6. History(c)' = Append(History(c), entry)
    <2>1. /\ History(c) \in Seq(Promise!Entry) /\ Len(History(c)) = configurations[c].current
          /\ configurations[c].current \in Nat
          /\ \A n \in 1..configurations[c].current : History(c)[n] = Content(c, n)
      BY <1>1, <1>4, HistoryShape, IdsNumbered
    <2>2. History(c)' = [n \in 1..v.version |-> IF n = v.version THEN entry ELSE Content(c, n)]
      BY <1>2, <1>3, AddedToHistory
    <2>3. History(c)' = [n \in 1..(Len(History(c)) + 1) |->
                           IF n = Len(History(c)) + 1 THEN entry ELSE History(c)[n]]
      BY <1>4, <2>1, <2>2
    <2>4. PICK q \in Seq(Promise!Entry) : q = History(c)
      BY <2>1
    <2>5. Append(q, entry) = [n \in 1..(Len(q) + 1) |-> IF n = Len(q) + 1 THEN entry ELSE q[n]]
      BY AppendedEntry
    <2> QED
      BY <2>3, <2>4, <2>5
  <1>7. Histories' = [Histories EXCEPT ![c] = Append(@, entry)]
    <2>1. Ids' = Ids
      BY DEF Added
    <2>2. Histories' = [d \in Ids |-> History(d)']
      BY <2>1 DEF Histories
    <2>3. \A d \in Ids \ {c} : History(d)' = History(d)
      BY <1>3, AddedToHistory
    <2> QED
      BY <1>6, <2>2, <2>3 DEF Histories
  <1>8. Histories[c] # <<>> /\ c \in DOMAIN Histories
    BY <1>4, HistoriesType
  <1> QED
    BY <1>5, <1>7, <1>8 DEF Promise!Update, Promise!Exists, Histories

LEMMA DeleteImplements ==
  ASSUME IInv, NEW w \in Workers, Delete(w)
  PROVE  UNCHANGED Histories \/ \E c \in DOMAIN Histories : Promise!Remove(c)
  <1>1. Typed /\ RowsConsecutive /\ task[w].ask.subject \in Ids
    BY Parts DEF Delete, Local
  <1>2. PICK c \in Ids : c = task[w].ask.subject
    BY <1>1
  <1>3. configurations' = [configurations EXCEPT ![c].stored = FALSE]
        /\ versions' = {v \in versions : v.configuration # c}
    BY <1>2 DEF Delete
  <1>4. /\ Ids' = Ids /\ ~Stored(c)'
        /\ \A d \in Ids \ {c} : configurations'[d] = configurations[d]
    BY <1>1, <1>3, ConfigurationRemoved DEF Typed
  <1>5. History(c)' = <<>>
    BY <1>4 DEF History, Stored
  <1>6. ASSUME NEW d \in Ids \ {c} PROVE History(d)' = History(d)
    <2>1. configurations'[d] = configurations[d]
      BY <1>4
    <2>2. \A n : Row(d, n)' = Row(d, n)
      BY <1>3 DEF Row
    <2>3. CASE configurations[d].stored
      <3>1. ASSUME NEW n \in 1..configurations[d].current
            PROVE  Content(d, n)' = Content(d, n)
        <4>1. PICK u \in versions : Row(d, n) = {u}
          BY <1>1, <2>3 DEF RowsConsecutive, Stored
        <4>2. Row(d, n)' = {u}
          BY <2>2, <4>1
        <4> QED
          BY <4>1, <4>2, SameContent
      <3> QED
        BY <2>1, <2>3, <3>1 DEF History
    <2>4. CASE ~configurations[d].stored
      BY <2>1, <2>4 DEF History
    <2> QED
      BY <2>3, <2>4
  <1>7. Histories' = [Histories EXCEPT ![c] = <<>>]
    <2>1. Histories' = [d \in Ids |-> History(d)']
      BY <1>4 DEF Histories
    <2> QED
      BY <1>5, <1>6, <2>1 DEF Histories
  <1>8. CASE Stored(c)
    BY <1>7, <1>8, HistoriesType DEF Promise!Remove, Promise!Exists, Histories
  <1>9. CASE ~Stored(c)
    <2>1. Histories[c] = <<>>
      BY <1>9, HistoriesType
    <2> QED
      BY <1>7, <2>1 DEF Histories
  <1> QED
    BY <1>8, <1>9

LEMMA StepImplements ==
  ASSUME IInv, [Next]_vars
  PROVE  Promise!Next \/ UNCHANGED Histories
  <1>1. ASSUME UNCHANGED <<configurations, versions>> PROVE UNCHANGED Histories
    BY <1>1 DEF Histories, History, Content, Row, Ids
  <1>2. ASSUME NEW w \in Workers, Insert(w) PROVE Promise!Next \/ UNCHANGED Histories
    <2>1. CASE Taken(task[w].ask.name, 0)
      BY <1>1, <1>2, <2>1 DEF Insert
    <2>2. CASE ~Taken(task[w].ask.name, 0)
      <3>1. PICK v \in Version : Added(v)
        BY <1>2, <2>2, InsertAdds
      <3>2. configurations' = Append(configurations,
                                [stored |-> TRUE, name |-> task[w].ask.name, current |-> 1])
        BY <1>2, <2>2 DEF Insert
      <3>3. Ids' = 1..(Len(configurations) + 1) /\ Ids = 1..Len(configurations)
            /\ Len(configurations) \in Nat
        <4>1. configurations \in Seq(Configuration)
          BY DEF IInv, TypeOK
        <4>2. PICK r : r = [stored |-> TRUE, name |-> task[w].ask.name, current |-> 1]
          OBVIOUS
        <4>3. configurations' = Append(configurations, r)
          BY <3>2, <4>2
        <4> QED
          BY <4>1, <4>3 DEF Ids
      <3>4. v.configuration \notin Ids /\ v.configuration = Len(configurations) + 1
        BY <3>1, <3>3 DEF Added
      <3> QED
        BY <3>1, <3>4, InsertImplements DEF Promise!Next
    <2> QED
      BY <2>1, <2>2
  <1>3. ASSUME NEW w \in Workers, Update(w) PROVE Promise!Next \/ UNCHANGED Histories
    <2>1. CASE Stored(task[w].ask.subject) /\ ~Violated(task[w].ask, task[w].current + 1)
      BY <1>3, <2>1, UpdateAdds, UpdateImplements DEF Promise!Next, Histories
    <2>2. CASE ~(Stored(task[w].ask.subject) /\ ~Violated(task[w].ask, task[w].current + 1))
      BY <1>1, <1>3, <2>2 DEF Update
    <2> QED
      BY <2>1, <2>2
  <1>4. ASSUME NEW w \in Workers, Delete(w) PROVE Promise!Next \/ UNCHANGED Histories
    BY <1>4, DeleteImplements DEF Promise!Next, Histories
  <1> QED
    BY <1>1, <1>2, <1>3, <1>4
    DEF Next, Step, vars, tables, Crash, Begin, Find, Load, ListAll, ListEach, Audit, Check, Submit,
      Start, Fail

(* Every change of a configuration is one atomic step of its history        *)
(* (Implements).                                                            *)
THEOREM HistoryImplemented == Spec => Implements
  <1>1. Init => Promise!Init
    <2> SUFFICES ASSUME Init PROVE [c \in Ids |-> History(c)] = <<>>
      BY DEF Promise!Init
    <2> QED
      BY DEF Init, Ids
  <1>2. IInv /\ [Next]_vars => [Promise!Next]_[c \in Ids |-> History(c)]
    BY StepImplements DEF Histories
  <1> QED
    BY <1>1, <1>2, IInvAlways, PTL DEF Spec, Implements, Promise!Spec
=============================================================================
