-------------------------- MODULE WebSessionsProofs --------------------------
(***************************************************************************)
(* That a change is committed once, that one tab at work is never refused, *)
(* and that a session which ended stays ended: for any number of tabs,     *)
(* calls, lost messages and expiries.  The invariant is IInv.              *)
(*                                                                         *)
(* A step is one tab's.  What it leaves of the invariant for the others    *)
(* follows from two lemmas: either they are told that they were disturbed, *)
(* or nothing they rely on has changed.                                    *)
(***************************************************************************)
EXTENDS WebSessions, SequenceTheorems, TLAPS

-----------------------------------------------------------------------------
(* The inductive invariant behind CommittedOnce and OnlyRacedCallsRefused.  *)

(* What was committed is on its way to the tab, which ends the call then.   *)
CommitAnswered(t) ==
    call[t].committed # 0 =>
        /\ call[t].committed = 1 /\ call[t].pc = "answer" /\ call[t].path = "change"
        /\ call[t].status \in {"ok", "error"}

(* A token is fetched for the second attempt.                               *)
RefreshIsSecond(t) ==
    call[t].path = "refresh" =>
        ~call[t].first /\ call[t].pc \in {"send", "resolve", "act", "answer"}

(* As long as nobody interferes, the session of the cookie stays accepted   *)
(* from the refusal on, and the token fetched is its valid one, on its way, *)
(* in the jar and in the header of the second attempt.                      *)
RetryPrepared(t) ==
    LET c == call[t]
        s == jar.session
        retrying == ~c.first /\ c.path # "refresh"
    IN  c.pc # "idle" /\ ~c.raced =>
            /\ c.pc = "resolve" => c.session = s
            /\ c.pc = "act" /\ c.path = "refresh" => c.session = s
            /\ c.pc = "answer" /\ c.status = "forbidden" =>
                 c.first /\ c.path # "refresh" /\ Accepted(s)
            /\ c.path = "refresh" => Accepted(s)
            /\ c.path = "refresh" /\ c.pc = "answer" =>
                 c.status = "ok" /\ c.given.csrf = sessions[s].csrf
            /\ retrying /\ c.pc \in {"prepare", "send", "resolve"} =>
                 Accepted(s) /\ jar.csrf = sessions[s].csrf
            /\ retrying /\ c.pc \in {"send", "resolve"} => c.csrf = jar.csrf

IInv ==
    /\ TypeOK /\ OnlyRacedCallsRefused
    /\ \A t \in Tabs : CommitAnswered(t) /\ RefreshIsSecond(t) /\ RetryPrepared(t)

(* The part of IInv that is about one tab. *)
TabInv(t) ==
    /\ call[t].session <= Len(sessions) /\ call[t].given.session <= Len(sessions)
    /\ call[t].pc = "act" /\ call[t].path # "login" => call[t].session # 0
    /\ ~call[t].refused
    /\ CommitAnswered(t) /\ RefreshIsSecond(t) /\ RetryPrepared(t)

Typed ==
    /\ sessions \in Seq(Session) /\ jar \in Cookies /\ call \in [Tabs -> Call]
    /\ jar.session <= Len(sessions)

LEMMA IInvByTab == IInv <=> Typed /\ \A t \in Tabs : TabInv(t)
  BY DEF IInv, TypeOK, OnlyRacedCallsRefused, Typed, TabInv

LEMMA NoCallType == NoCall \in Call
  BY DEF NoCall, Call, Kinds, Cookies, NoCookies

-----------------------------------------------------------------------------
(* What a step does to the table of calls. *)

LEMMA QuietlyCalls ==
  ASSUME call \in [Tabs -> Call], NEW t \in Tabs, NEW mine \in Call, Quietly(t, mine)
  PROVE  /\ call' \in [Tabs -> Call] /\ call'[t] = mine
         /\ \A u \in Tabs \ {t} : call'[u] = call[u]
  BY DEF Quietly

LEMMA RacedType ==
  ASSUME call \in [Tabs -> Call], NEW u \in Tabs
  PROVE  /\ Raced(u) \in Call /\ Raced(u) = [call[u] EXCEPT !.raced = call[u].pc # "idle"]
  BY DEF Raced, Call

LEMMA RacingCalls ==
  ASSUME call \in [Tabs -> Call], NEW t \in Tabs, NEW mine \in Call, Racing(t, mine)
  PROVE  /\ call' \in [Tabs -> Call] /\ call'[t] = mine
         /\ \A u \in Tabs \ {t} : call'[u] = Raced(u)
  BY RacedType DEF Racing

LEMMA DisturbedCalls ==
  ASSUME call \in [Tabs -> Call], Disturbed
  PROVE  call' \in [Tabs -> Call] /\ \A u \in Tabs : call'[u] = Raced(u)
  BY RacedType DEF Disturbed

-----------------------------------------------------------------------------
(* The sessions a step keeps: none is lost from the table, and those that   *)
(* are accepted stay so and keep their tokens.                              *)
Keeps ==
    /\ sessions' \in Seq(Session) /\ Len(sessions) <= Len(sessions')
    /\ \A s \in DOMAIN sessions :
         Accepted(s) => Accepted(s)' /\ sessions'[s].csrf = sessions[s].csrf

(* A tab whose call, cookies and session a step leaves alone.               *)
LEMMA UndisturbedTab ==
  ASSUME IInv, NEW u \in Tabs, call' \in [Tabs -> Call], call'[u] = call[u],
         jar' = jar, Keeps
  PROVE  TabInv(u)'
  <1>1. Typed /\ TabInv(u)
    BY IInvByTab
  <1>2. Accepted(jar.session) =>
          /\ Accepted(jar.session)'
          /\ sessions'[jar.session].csrf = sessions[jar.session].csrf
    BY <1>1 DEF Keeps, Typed, Cookies, Accepted, Exists
  <1>3. RetryPrepared(u)'
    BY <1>1, <1>2 DEF TabInv, RetryPrepared, Accepted, Exists
  <1>4. Len(sessions) \in Nat /\ Len(sessions') \in Nat
    BY <1>1 DEF Typed, Keeps
  <1>5. call[u] \in Call
    BY <1>1 DEF Typed
  <1> QED
    BY <1>1, <1>3, <1>4, <1>5
    DEF TabInv, Keeps, CommitAnswered, RefreshIsSecond, Call, Cookies

(* A tab that is told it was disturbed.                                     *)
LEMMA DisturbedTab ==
  ASSUME IInv, NEW u \in Tabs, call' \in [Tabs -> Call], call'[u] = Raced(u),
         sessions' \in Seq(Session), Len(sessions) <= Len(sessions')
  PROVE  TabInv(u)'
  <1>1. Typed /\ TabInv(u) /\ call[u] \in Call
    BY IInvByTab DEF Typed
  <1>2. call'[u] = [call[u] EXCEPT !.raced = call[u].pc # "idle"]
    BY <1>1, RacedType DEF Typed
  <1>3. /\ call'[u].pc = call[u].pc /\ call'[u].session = call[u].session
        /\ call'[u].path = call[u].path /\ call'[u].first = call[u].first
        /\ call'[u].given = call[u].given /\ call'[u].status = call[u].status
        /\ call'[u].committed = call[u].committed /\ call'[u].refused = call[u].refused
        /\ call'[u].raced = (call[u].pc # "idle")
    BY <1>1, <1>2 DEF Call
  <1>4. RetryPrepared(u)'
    BY <1>3 DEF RetryPrepared
  <1>5. Len(sessions) \in Nat /\ Len(sessions') \in Nat
    BY <1>1 DEF Typed
  <1> QED
    BY <1>1, <1>3, <1>4, <1>5 DEF TabInv, CommitAnswered, RefreshIsSecond, Call, Cookies

-----------------------------------------------------------------------------
(* A step of tab t keeps the invariant if it keeps t's part. *)

LEMMA QuietStep ==
  ASSUME IInv, NEW t \in Tabs, NEW mine \in Call, Quietly(t, mine), jar' = jar, Keeps,
         call'[t] = mine => TabInv(t)'
  PROVE  IInv'
  <1>1. Typed
    BY IInvByTab
  <1>2. /\ call' \in [Tabs -> Call] /\ call'[t] = mine
        /\ \A u \in Tabs \ {t} : call'[u] = call[u]
    BY <1>1, QuietlyCalls DEF Typed
  <1>3. Len(sessions) \in Nat /\ Len(sessions') \in Nat
    BY <1>1 DEF Typed, Keeps
  <1>4. Typed'
    BY <1>1, <1>2, <1>3 DEF Typed, Keeps, Cookies
  <1>5. ASSUME NEW u \in Tabs
        PROVE  TabInv(u)'
    BY <1>2, UndisturbedTab
  <1> QED
    BY <1>4, <1>5, IInvByTab DEF IInv, TypeOK, OnlyRacedCallsRefused, Typed, TabInv

LEMMA RacingStep ==
  ASSUME IInv, NEW t \in Tabs, NEW mine \in Call, Racing(t, mine),
         sessions' \in Seq(Session), Len(sessions) <= Len(sessions'),
         jar' \in Cookies, jar'.session <= Len(sessions'),
         call'[t] = mine => TabInv(t)'
  PROVE  IInv'
  <1>1. Typed
    BY IInvByTab
  <1>2. /\ call' \in [Tabs -> Call] /\ call'[t] = mine
        /\ \A u \in Tabs \ {t} : call'[u] = Raced(u)
    BY <1>1, RacingCalls DEF Typed
  <1>3. Typed'
    BY <1>2 DEF Typed
  <1>4. ASSUME NEW u \in Tabs
        PROVE  TabInv(u)'
    BY <1>2, DisturbedTab
  <1> QED
    BY <1>3, <1>4 DEF IInv, TypeOK, OnlyRacedCallsRefused, Typed, TabInv

LEMMA DisturbedStep ==
  ASSUME IInv, Disturbed, sessions' \in Seq(Session), Len(sessions) <= Len(sessions'),
         jar' \in Cookies, jar'.session <= Len(sessions')
  PROVE  IInv'
  <1>1. Typed
    BY IInvByTab
  <1>2. call' \in [Tabs -> Call] /\ \A u \in Tabs : call'[u] = Raced(u)
    BY <1>1, DisturbedCalls DEF Typed
  <1>3. Typed' /\ \A u \in Tabs : TabInv(u)'
    BY <1>2, DisturbedTab DEF Typed
  <1> QED
    BY <1>3 DEF IInv, TypeOK, OnlyRacedCallsRefused, Typed, TabInv

(* A step that leaves the sessions alone keeps them. *)
LEMMA SameSessionsKept ==
  ASSUME IInv, sessions' = sessions
  PROVE  Keeps
  <1>1. sessions \in Seq(Session) /\ Len(sessions) \in Nat
    BY DEF IInv, TypeOK
  <1> QED
    BY <1>1 DEF Keeps, Accepted, Exists

-----------------------------------------------------------------------------
(* The steps of the browser. *)

LEMMA BeginKeeps ==
  ASSUME IInv, NEW t \in Tabs, Begin(t)
  PROVE  IInv'
  <1>1. PICK kind \in Kinds :
          Quietly(t, [NoCall EXCEPT !.kind = kind, !.path = kind,
                                    !.pc = IF kind = "login" THEN "act" ELSE "prepare"])
    BY DEF Begin
  <1> DEFINE mine == [NoCall EXCEPT !.kind = kind, !.path = kind,
                                    !.pc = IF kind = "login" THEN "act" ELSE "prepare"]
  <1>2. mine \in Call
    BY NoCallType DEF Call, Kinds, NoCall
  <1>3. /\ mine.session = 0 /\ mine.given = NoCookies /\ mine.path = kind /\ mine.first
        /\ mine.status = "none" /\ mine.committed = 0 /\ ~mine.refused
        /\ mine.pc = IF kind = "login" THEN "act" ELSE "prepare"
    BY DEF NoCall
  <1>4. jar' = jar /\ sessions' = sessions
    BY DEF Begin
  <1>5. Len(sessions) \in Nat
    BY DEF IInv, TypeOK
  <1>6. call'[t] = mine => TabInv(t)'
    BY <1>3, <1>4, <1>5
    DEF TabInv, CommitAnswered, RefreshIsSecond, RetryPrepared, NoCookies, Kinds
  <1> QED
    BY <1>1, <1>2, <1>4, <1>6, SameSessionsKept, QuietStep

LEMMA PrepareKeeps ==
  ASSUME IInv, NEW t \in Tabs, Prepare(t)
  PROVE  IInv'
  <1> DEFINE mine == [call[t] EXCEPT !.pc = "send", !.csrf = jar.csrf]
  <1>1. Typed /\ TabInv(t) /\ call[t] \in Call
    BY IInvByTab DEF Typed
  <1>2. mine \in Call
    BY <1>1 DEF Call, Typed, Cookies
  <1>3. /\ mine.session = call[t].session /\ mine.given = call[t].given
        /\ mine.path = call[t].path /\ mine.first = call[t].first
        /\ mine.raced = call[t].raced /\ mine.refused = call[t].refused
        /\ mine.committed = call[t].committed /\ mine.pc = "send" /\ mine.csrf = jar.csrf
    BY <1>1 DEF Call
  <1>4. jar' = jar /\ sessions' = sessions /\ call[t].pc = "prepare" /\ Quietly(t, mine)
    BY DEF Prepare
  <1>5. call'[t] = mine => TabInv(t)'
    BY <1>1, <1>3, <1>4
    DEF TabInv, CommitAnswered, RefreshIsSecond, RetryPrepared, Accepted, Exists
  <1> QED
    BY <1>2, <1>4, <1>5, SameSessionsKept, QuietStep

LEMMA SendKeeps ==
  ASSUME IInv, NEW t \in Tabs, Send(t)
  PROVE  IInv'
  <1> DEFINE mine == [call[t] EXCEPT !.pc = "resolve", !.session = jar.session]
  <1>1. Typed /\ TabInv(t) /\ call[t] \in Call
    BY IInvByTab DEF Typed
  <1>2. mine \in Call
    BY <1>1 DEF Call, Typed, Cookies
  <1>3. /\ mine.session = jar.session /\ mine.given = call[t].given
        /\ mine.path = call[t].path /\ mine.first = call[t].first
        /\ mine.raced = call[t].raced /\ mine.refused = call[t].refused
        /\ mine.committed = call[t].committed /\ mine.pc = "resolve"
        /\ mine.csrf = call[t].csrf
    BY <1>1 DEF Call
  <1>4. jar' = jar /\ sessions' = sessions /\ call[t].pc = "send" /\ Quietly(t, mine)
    BY DEF Send
  <1>5. call'[t] = mine => TabInv(t)'
    BY <1>1, <1>3, <1>4
    DEF Typed, TabInv, CommitAnswered, RefreshIsSecond, RetryPrepared, Accepted, Exists
  <1> QED
    BY <1>2, <1>4, <1>5, SameSessionsKept, QuietStep

(* A call that ended without having been refused.                           *)
LEMMA EndedFields ==
  ASSUME NEW t \in Tabs, NEW status, call[t] \in Call
  PROVE  /\ Ended(t, status) \in Call
         /\ Ended(t, status).pc = "idle" /\ Ended(t, status).path = "none"
         /\ Ended(t, status).session = 0 /\ Ended(t, status).given = NoCookies
         /\ Ended(t, status).status = "none" /\ Ended(t, status).committed = 0
         /\ Ended(t, status).refused <=> status = "forbidden" /\ ~call[t].raced
  <1>1. CASE status = "forbidden" /\ ~call[t].raced
    <2>1. Ended(t, status) = [NoCall EXCEPT !.refused = TRUE]
      BY <1>1, Zenon DEF Ended
    <2> QED
      BY <1>1, <2>1, NoCallType DEF NoCall, Call
  <1>2. CASE ~(status = "forbidden" /\ ~call[t].raced)
    <2>1. (status = "forbidden" /\ ~call[t].raced) = FALSE
      BY <1>2
    <2>2. Ended(t, status) = [NoCall EXCEPT !.refused = FALSE]
      BY <2>1, Zenon DEF Ended
    <2> QED
      BY <1>2, <2>2, NoCallType DEF NoCall, Call
  <1> QED
    BY <1>1, <1>2

LEMMA EndedTab ==
  ASSUME IInv, NEW t \in Tabs, NEW mine, call'[t] = mine,
         mine.pc = "idle", mine.path = "none", mine.session = 0, mine.given = NoCookies,
         mine.committed = 0, ~mine.refused, sessions' \in Seq(Session)
  PROVE  TabInv(t)'
  <1>1. Len(sessions') \in Nat
    OBVIOUS
  <1> QED
    BY <1>1 DEF TabInv, CommitAnswered, RefreshIsSecond, RetryPrepared, NoCookies

LEMMA LoseKeeps ==
  ASSUME IInv, NEW t \in Tabs, Lose(t)
  PROVE  IInv'
  <1>1. sessions \in Seq(Session) /\ call[t] \in Call
    BY DEF IInv, TypeOK
  <1>2. Quietly(t, Ended(t, "failed")) /\ jar' = jar /\ sessions' = sessions
    BY DEF Lose
  <1>3. call'[t] = Ended(t, "failed") => TabInv(t)'
    BY <1>1, <1>2, EndedFields, EndedTab
  <1> QED
    BY <1>1, <1>2, <1>3, EndedFields, SameSessionsKept, QuietStep

(* The answer is read: clearing what it brought changes nothing else.       *)
LEMMA ClearedFields ==
  ASSUME NEW next \in Call
  PROVE  LET cleared == [next EXCEPT !.status = "none", !.given = NoCookies]
         IN  /\ cleared \in Call /\ cleared.status = "none" /\ cleared.given = NoCookies
             /\ cleared.pc = next.pc /\ cleared.path = next.path
             /\ cleared.first = next.first /\ cleared.session = next.session
             /\ cleared.csrf = next.csrf /\ cleared.committed = next.committed
             /\ cleared.raced = next.raced /\ cleared.refused = next.refused
  BY DEF Call, Cookies, NoCookies

(* The call that goes on: for a token, or with the token it got.            *)
LEMMA RetryFields ==
  ASSUME NEW t \in Tabs, call[t] \in Call
  PROVE  /\ LET fetch == [call[t] EXCEPT !.path = "refresh", !.first = FALSE, !.pc = "send"]
            IN  /\ fetch \in Call /\ fetch.path = "refresh" /\ ~fetch.first
                /\ fetch.pc = "send" /\ fetch.session = call[t].session
                /\ fetch.committed = call[t].committed /\ fetch.raced = call[t].raced
                /\ fetch.refused = call[t].refused
         /\ LET again == [call[t] EXCEPT !.path = call[t].kind, !.pc = "prepare"]
            IN  /\ again \in Call /\ again.path # "refresh" /\ again.first = call[t].first
                /\ again.pc = "prepare" /\ again.session = call[t].session
                /\ again.committed = call[t].committed /\ again.raced = call[t].raced
                /\ again.refused = call[t].refused
  BY ZenonT(60) DEF Call, Kinds

LEMMA ReceiveKeeps ==
  ASSUME IInv, NEW t \in Tabs, Receive(t)
  PROVE  IInv'
  <1> DEFINE next == IF call[t].path = "refresh" THEN AfterRefresh(t) ELSE AfterAnswer(t)
             cleared == [next EXCEPT !.status = "none", !.given = NoCookies]
             sets == call[t].status = "ok" /\ call[t].path # "change"
  <1>1. Typed /\ TabInv(t) /\ call[t] \in Call
    BY IInvByTab DEF Typed
  <1>2. /\ call[t].pc = "answer" /\ sessions' = sessions
        /\ \/ sets /\ jar' = CookiesAfter(t) /\ Racing(t, cleared)
           \/ ~sets /\ Quietly(t, cleared) /\ jar' = jar
    BY DEF Receive
  <1>3. /\ Len(sessions) \in Nat /\ sessions' \in Seq(Session) /\ Len(sessions) <= Len(sessions')
        /\ jar \in Cookies
    BY <1>1, <1>2 DEF Typed
  <1>4. jar' \in Cookies /\ jar'.session <= Len(sessions')
    BY <1>1, <1>2, <1>3 DEF Typed, TabInv, CookiesAfter, Call, Cookies
  <1>5. next \in Call /\ (call'[t] = cleared => TabInv(t)')
    <2>1. CASE call[t].path = "refresh" /\ call[t].status = "ok"
      <3>1. next = [call[t] EXCEPT !.path = call[t].kind, !.pc = "prepare"]
        BY <2>1 DEF AfterRefresh
      <3>2. jar' = [jar EXCEPT !.csrf = call[t].given.csrf]
        BY <1>2, <2>1 DEF CookiesAfter
      <3>3. jar'.session = jar.session /\ jar'.csrf = call[t].given.csrf
        BY <1>3, <3>2 DEF Cookies
      <3>4. next \in Call
        BY <1>1, <3>1, RetryFields
      <3> DEFINE again == [call[t] EXCEPT !.path = call[t].kind, !.pc = "prepare"]
      <3>9. /\ again.path # "refresh" /\ again.first = call[t].first
            /\ again.pc = "prepare" /\ again.session = call[t].session
            /\ again.committed = call[t].committed /\ again.raced = call[t].raced
            /\ again.refused = call[t].refused
        BY <1>1, RetryFields
      <3>10. next = again
        BY <3>1
      <3> HIDE DEF next, again
      <3>5. /\ cleared.given = NoCookies /\ cleared.status = "none"
            /\ cleared.path # "refresh" /\ cleared.pc = "prepare"
            /\ cleared.first = call[t].first /\ cleared.session = call[t].session
            /\ cleared.committed = call[t].committed /\ cleared.raced = call[t].raced
            /\ cleared.refused = call[t].refused
        BY <3>4, <3>9, <3>10, ClearedFields, ZenonT(60)
      <3>6. call[t].committed = 0
        BY <1>1, <2>1 DEF TabInv, CommitAnswered
      <3>7. ~call[t].raced =>
              /\ Accepted(jar.session)
              /\ call[t].given.csrf = sessions[jar.session].csrf
        BY <1>1, <1>2, <2>1 DEF TabInv, RetryPrepared
      <3> HIDE DEF cleared
      <3>8. call'[t] = cleared => RetryPrepared(t)'
        BY <1>2, <3>3, <3>5, <3>7 DEF RetryPrepared, Accepted, Exists
      <3> QED
        BY <1>1, <1>2, <1>3, <3>4, <3>5, <3>6, <3>8
        DEF TabInv, CommitAnswered, RefreshIsSecond, NoCookies
    <2>2. CASE call[t].path = "refresh" /\ call[t].status # "ok"
      <3>1. next = Ended(t, "forbidden")
        BY <2>2 DEF AfterRefresh
      <3>2. call[t].raced
        BY <1>1, <1>2, <2>2 DEF TabInv, RetryPrepared
      <3>3. next \in Call
        BY <1>1, <3>1, EndedFields
      <3>4. ~next.refused /\ next.pc = "idle" /\ next.path = "none" /\ next.session = 0
            /\ next.committed = 0
        BY <1>1, <3>1, <3>2, EndedFields
      <3> HIDE DEF next
      <3>5. ~cleared.refused /\ cleared.pc = "idle" /\ cleared.path = "none"
            /\ cleared.session = 0 /\ cleared.committed = 0 /\ cleared.given = NoCookies
        BY <3>3, <3>4, ClearedFields
      <3> QED
        BY <1>3, <3>3, <3>5, EndedTab
    <2>3. CASE call[t].path # "refresh" /\ WorthRetrying(t)
      <3>1. next = [call[t] EXCEPT !.path = "refresh", !.first = FALSE, !.pc = "send"]
        BY <2>3 DEF AfterAnswer
      <3>2. jar' = jar
        BY <1>2, <2>3 DEF WorthRetrying
      <3>3. next \in Call
        BY <1>1, <3>1, RetryFields
      <3> DEFINE fetch == [call[t] EXCEPT !.path = "refresh", !.first = FALSE, !.pc = "send"]
      <3>8. /\ fetch.path = "refresh" /\ fetch.pc = "send" /\ ~fetch.first
            /\ fetch.session = call[t].session /\ fetch.committed = call[t].committed
            /\ fetch.raced = call[t].raced /\ fetch.refused = call[t].refused
        BY <1>1, RetryFields
      <3>9. next = fetch
        BY <3>1
      <3> HIDE DEF next, fetch
      <3>4. /\ cleared.given = NoCookies /\ cleared.status = "none"
            /\ cleared.path = "refresh" /\ cleared.pc = "send" /\ ~cleared.first
            /\ cleared.session = call[t].session /\ cleared.committed = call[t].committed
            /\ cleared.raced = call[t].raced /\ cleared.refused = call[t].refused
        BY <3>3, <3>8, <3>9, ClearedFields
      <3>5. call[t].committed = 0
        BY <1>1, <2>3 DEF TabInv, CommitAnswered, WorthRetrying
      <3>6. ~call[t].raced => Accepted(jar.session)
        BY <1>1, <1>2, <2>3 DEF TabInv, RetryPrepared, WorthRetrying
      <3> HIDE DEF cleared
      <3>7. call'[t] = cleared => RetryPrepared(t)'
        BY <1>2, <3>2, <3>4, <3>6 DEF RetryPrepared, Accepted, Exists
      <3> QED
        BY <1>1, <1>2, <1>3, <3>3, <3>4, <3>5, <3>7
        DEF TabInv, CommitAnswered, RefreshIsSecond, NoCookies
    <2>4. CASE call[t].path # "refresh" /\ ~WorthRetrying(t)
      <3>1. next = Ended(t, call[t].status)
        BY <2>4 DEF AfterAnswer
      <3>2. ~(call[t].status = "forbidden" /\ ~call[t].raced)
        BY <1>1, <1>2, <2>4 DEF TabInv, RetryPrepared, WorthRetrying
      <3>3. next \in Call
        BY <1>1, <3>1, EndedFields
      <3>4. ~next.refused /\ next.pc = "idle" /\ next.path = "none" /\ next.session = 0
            /\ next.committed = 0
        BY <1>1, <3>1, <3>2, EndedFields
      <3> HIDE DEF next
      <3>5. ~cleared.refused /\ cleared.pc = "idle" /\ cleared.path = "none"
            /\ cleared.session = 0 /\ cleared.committed = 0 /\ cleared.given = NoCookies
        BY <3>3, <3>4, ClearedFields
      <3> QED
        BY <1>3, <3>3, <3>5, EndedTab
    <2> QED
      BY <2>1, <2>2, <2>3, <2>4
  <1> HIDE DEF next
  <1>6. cleared \in Call
    BY <1>5, ClearedFields
  <1>7. CASE Racing(t, cleared)
    BY <1>3, <1>4, <1>5, <1>6, <1>7, RacingStep
  <1>8. CASE Quietly(t, cleared) /\ jar' = jar
    BY <1>2, <1>5, <1>6, <1>8, SameSessionsKept, QuietStep
  <1> QED
    BY <1>2, <1>7, <1>8

LEMMA CookiesExpireKeeps ==
  ASSUME IInv, CookiesExpire
  PROVE  IInv'
  <1>1. Typed /\ jar' = NoCookies /\ sessions' = sessions /\ Disturbed
    BY IInvByTab DEF CookiesExpire
  <1>2. Len(sessions) \in Nat
    BY <1>1 DEF Typed
  <1> QED
    BY <1>1, <1>2, DisturbedStep DEF Typed, Cookies, NoCookies

-----------------------------------------------------------------------------
(* The steps of the server. *)

(* A row of the table that gets another value.                              *)
LEMMA RowChanged ==
  ASSUME IInv, NEW s \in DOMAIN sessions, NEW row \in Session,
         sessions' = [sessions EXCEPT ![s] = row]
  PROVE  /\ sessions' \in Seq(Session) /\ Len(sessions') = Len(sessions)
         /\ sessions'[s] = row
         /\ \A r \in DOMAIN sessions \ {s} : sessions'[r] = sessions[r]
  BY ExceptSeq DEF IInv, TypeOK

(* The changes there are: a token is replaced, or the session ends.         *)
LEMMA TokenChanged ==
  ASSUME IInv, NEW s \in DOMAIN sessions, NEW csrf \in Tokens,
         sessions' = [sessions EXCEPT ![s].csrf = csrf]
  PROVE  /\ sessions' \in Seq(Session) /\ Len(sessions') = Len(sessions)
         /\ sessions'[s].csrf = csrf
         /\ sessions'[s].stored = sessions[s].stored /\ sessions'[s].over = sessions[s].over
         /\ \A r \in DOMAIN sessions \ {s} : sessions'[r] = sessions[r]
  <1> DEFINE row == [sessions[s] EXCEPT !.csrf = csrf]
  <1>1. sessions \in Seq(Session) /\ sessions[s] \in Session
    BY DEF IInv, TypeOK
  <1>2. row \in Session
    BY <1>1 DEF Session
  <1>3. sessions' = [sessions EXCEPT ![s] = row]
    BY <1>1
  <1>4. row.csrf = csrf /\ row.stored = sessions[s].stored /\ row.over = sessions[s].over
    BY <1>1 DEF Session
  <1> HIDE DEF row
  <1> QED
    BY <1>2, <1>3, <1>4, RowChanged

LEMMA SessionDeleted ==
  ASSUME IInv, NEW s \in DOMAIN sessions,
         sessions' = [sessions EXCEPT ![s].stored = FALSE]
  PROVE  /\ sessions' \in Seq(Session) /\ Len(sessions') = Len(sessions)
         /\ \A r \in DOMAIN sessions \ {s} : sessions'[r] = sessions[r]
  <1> DEFINE row == [sessions[s] EXCEPT !.stored = FALSE]
  <1>1. sessions \in Seq(Session) /\ sessions[s] \in Session
    BY DEF IInv, TypeOK
  <1>2. row \in Session
    BY <1>1 DEF Session
  <1>3. sessions' = [sessions EXCEPT ![s] = row]
    BY <1>1
  <1> HIDE DEF row
  <1> QED
    BY <1>2, <1>3, RowChanged

LEMMA SessionOver ==
  ASSUME IInv, NEW s \in DOMAIN sessions,
         sessions' = [sessions EXCEPT ![s].over = TRUE]
  PROVE  sessions' \in Seq(Session) /\ Len(sessions') = Len(sessions)
  <1> DEFINE row == [sessions[s] EXCEPT !.over = TRUE]
  <1>1. sessions \in Seq(Session) /\ sessions[s] \in Session
    BY DEF IInv, TypeOK
  <1>2. row \in Session
    BY <1>1 DEF Session
  <1>3. sessions' = [sessions EXCEPT ![s] = row]
    BY <1>1
  <1> HIDE DEF row
  <1> QED
    BY <1>2, <1>3, RowChanged

LEMMA AnswerFields ==
  ASSUME NEW t \in Tabs, call[t] \in Call,
         NEW status \in {"ok", "unauthorized", "forbidden", "error"}
  PROVE  /\ Answer(t, status) \in Call
         /\ Answer(t, status).pc = "answer" /\ Answer(t, status).status = status
         /\ Answer(t, status).session = 0 /\ Answer(t, status).path = call[t].path
         /\ Answer(t, status).first = call[t].first /\ Answer(t, status).raced = call[t].raced
         /\ Answer(t, status).given = call[t].given
         /\ Answer(t, status).committed = call[t].committed
         /\ Answer(t, status).refused = call[t].refused
  BY DEF Answer, Call

LEMMA ResolveKeeps ==
  ASSUME IInv, NEW t \in Tabs, Resolve(t)
  PROVE  IInv'
  <1> DEFINE s == call[t].session
  <1>1. Typed /\ TabInv(t) /\ call[t] \in Call
    BY IInvByTab DEF Typed
  <1>2. call[t].pc = "resolve" /\ jar' = jar
    BY DEF Resolve
  <1>3. Len(sessions) \in Nat /\ sessions \in Seq(Session) /\ s \in Nat /\ s <= Len(sessions)
    BY <1>1 DEF Typed, TabInv, Call
  <1>4. call[t].committed = 0
    BY <1>1, <1>2 DEF TabInv, CommitAnswered
  <1>5. ~call[t].raced => s = jar.session
    BY <1>1, <1>2 DEF TabInv, RetryPrepared
  <1>6. CASE /\ Refused(t) /\ Quietly(t, Answer(t, "unauthorized"))
             /\ sessions' = IF Exists(s) THEN [sessions EXCEPT ![s].stored = FALSE]
                            ELSE sessions
    <2>1. Keeps
      <3>1. CASE Exists(s)
        <4>1. s \in DOMAIN sessions
          BY <1>3, <3>1 DEF Exists
        <4>3. /\ sessions' \in Seq(Session) /\ Len(sessions') = Len(sessions)
              /\ \A r \in DOMAIN sessions \ {s} : sessions'[r] = sessions[r]
          BY <1>6, <3>1, <4>1, SessionDeleted
        <4>4. ~Accepted(s)
          BY <1>6 DEF Refused
        <4> QED
          BY <1>3, <4>3, <4>4 DEF Keeps, Accepted, Exists
      <3>2. CASE ~Exists(s)
        BY <1>6, <3>2, SameSessionsKept
      <3> QED
        BY <3>1, <3>2
    <2>2. call[t].path = "refresh" => call[t].raced
      BY <1>1, <1>2, <1>5, <1>6 DEF TabInv, RetryPrepared, Refused
    <2>3. Len(sessions') \in Nat /\ Len(sessions) <= Len(sessions')
      BY <2>1 DEF Keeps
    <2>4. call'[t] = Answer(t, "unauthorized") => TabInv(t)'
      BY <1>1, <1>3, <1>4, <2>2, <2>3, AnswerFields
      DEF TabInv, CommitAnswered, RefreshIsSecond, RetryPrepared, Call, Cookies
    <2> QED
      BY <1>1, <1>2, <1>6, <2>1, <2>4, AnswerFields, QuietStep
  <1>7. CASE ~Refused(t) /\ Forbidden(t) /\ Quietly(t, Answer(t, "forbidden")) /\ sessions' = sessions
    <2>1. call[t].path # "refresh"
      BY <1>7 DEF Forbidden
    <2>2. Accepted(s) /\ call[t].csrf # sessions[s].csrf
      BY <1>7 DEF Refused, Forbidden
    <2>3. ~call[t].raced => call[t].first
      BY <1>1, <1>2, <1>5, <2>1, <2>2 DEF TabInv, RetryPrepared, Call
    <2>4. ~call[t].raced => Accepted(jar.session)
      BY <1>5, <2>2
    <2>5. call'[t] = Answer(t, "forbidden") => TabInv(t)'
      BY <1>1, <1>2, <1>3, <1>4, <1>7, <2>1, <2>3, <2>4, AnswerFields
      DEF TabInv, CommitAnswered, RefreshIsSecond, RetryPrepared, Accepted, Exists
    <2> QED
      BY <1>1, <1>2, <1>7, <2>5, AnswerFields, SameSessionsKept, QuietStep
  <1>8. CASE /\ ~Refused(t) /\ ~Forbidden(t) /\ sessions' = sessions
             /\ Quietly(t, [call[t] EXCEPT !.pc = "act", !.csrf = 0])
    <2> DEFINE mine == [call[t] EXCEPT !.pc = "act", !.csrf = 0]
    <2>1. mine \in Call
      BY <1>1 DEF Call
    <2>2. /\ mine.pc = "act" /\ mine.session = s /\ mine.given = call[t].given
          /\ mine.path = call[t].path /\ mine.first = call[t].first
          /\ mine.raced = call[t].raced /\ mine.refused = call[t].refused
          /\ mine.committed = call[t].committed
      BY <1>1 DEF Call
    <2>3. s # 0
      BY <1>8 DEF Refused, Accepted, Exists
    <2>4. call[t].path = "refresh" /\ ~call[t].raced => Accepted(jar.session)
      BY <1>1, <1>2 DEF TabInv, RetryPrepared
    <2>5. call'[t] = mine => TabInv(t)'
      BY <1>1, <1>2, <1>4, <1>5, <1>8, <2>2, <2>3, <2>4
      DEF TabInv, CommitAnswered, RefreshIsSecond, RetryPrepared, Accepted, Exists
    <2> QED
      BY <1>2, <1>8, <2>1, <2>5, SameSessionsKept, QuietStep
  <1> QED
    BY <1>6, <1>7, <1>8 DEF Resolve

LEMMA LoginKeeps ==
  ASSUME IInv, NEW t \in Tabs, Login(t)
  PROVE  IInv'
  <1>1. Typed /\ TabInv(t) /\ call[t] \in Call
    BY IInvByTab DEF Typed
  <1>2. call[t].pc = "act" /\ call[t].path = "login" /\ jar' = jar
    BY DEF Login
  <1>3. sessions \in Seq(Session) /\ Len(sessions) \in Nat /\ call[t].committed = 0
    BY <1>1, <1>2 DEF Typed, TabInv, CommitAnswered
  <1>4. ASSUME NEW csrf \in Fresh,
               sessions' = Append(sessions, [csrf |-> csrf, stored |-> TRUE, over |-> FALSE]),
               Quietly(t, [Answer(t, "ok") EXCEPT
                   !.given = [session |-> Len(sessions) + 1, csrf |-> csrf]])
        PROVE  IInv'
    <2> DEFINE mine == [Answer(t, "ok") EXCEPT
                            !.given = [session |-> Len(sessions) + 1, csrf |-> csrf]]
               row == [csrf |-> csrf, stored |-> TRUE, over |-> FALSE]
    <2>1. csrf \in Tokens /\ row \in Session
      BY DEF Fresh, Session
    <2>2. /\ sessions' \in Seq(Session) /\ Len(sessions') = Len(sessions) + 1
          /\ \A s \in DOMAIN sessions : s \in DOMAIN sessions' /\ sessions'[s] = sessions[s]
      BY <1>3, <1>4, <2>1
    <2>3. Keeps
      BY <1>3, <2>2 DEF Keeps, Accepted, Exists
    <2>4. /\ mine \in Call /\ mine.pc = "answer" /\ mine.status = "ok" /\ mine.session = 0
          /\ mine.path = "login" /\ mine.given.session = Len(sessions) + 1
          /\ mine.committed = 0 /\ mine.refused = call[t].refused
      BY <1>1, <1>2, <1>3, <2>1, AnswerFields, SMTT(30) DEF Call, Cookies
    <2> HIDE DEF mine
    <2>5. call'[t] = mine => TabInv(t)'
      BY <1>1, <1>3, <2>2, <2>4
      DEF TabInv, CommitAnswered, RefreshIsSecond, RetryPrepared
    <2> QED
      BY <1>2, <1>4, <2>3, <2>4, <2>5, QuietStep DEF mine
  <1>5. CASE Quietly(t, Answer(t, "unauthorized")) /\ sessions' = sessions
    <2>1. call'[t] = Answer(t, "unauthorized") => TabInv(t)'
      BY <1>1, <1>2, <1>3, <1>5, AnswerFields
      DEF TabInv, CommitAnswered, RefreshIsSecond, RetryPrepared
    <2> QED
      BY <1>1, <1>2, <1>5, <2>1, AnswerFields, SameSessionsKept, QuietStep
  <1> QED
    BY <1>4, <1>5 DEF Login

LEMMA RefreshKeeps ==
  ASSUME IInv, NEW t \in Tabs, Refresh(t)
  PROVE  IInv'
  <1>1. Typed /\ TabInv(t) /\ call[t] \in Call
    BY IInvByTab DEF Typed
  <1>2. call[t].pc = "act" /\ call[t].path = "refresh" /\ jar' = jar
    BY DEF Refresh
  <1>0. PICK s \in DOMAIN sessions : s = call[t].session
    BY <1>1, <1>2 DEF Typed, TabInv, Call
  <1>3. sessions \in Seq(Session) /\ Len(sessions) \in Nat /\ call[t].committed = 0
        /\ ~call[t].first
    BY <1>1, <1>2 DEF Typed, TabInv, CommitAnswered, RefreshIsSecond
  <1>4. ~call[t].raced => s = jar.session /\ Accepted(s)
    BY <1>0, <1>1, <1>2 DEF TabInv, RetryPrepared
  <1>5. ASSUME NEW csrf \in Fresh, sessions' = [sessions EXCEPT ![s].csrf = csrf],
               Racing(t, [Answer(t, "ok") EXCEPT !.given.csrf = csrf])
        PROVE  IInv'
    <2> DEFINE mine == [Answer(t, "ok") EXCEPT !.given.csrf = csrf]
    <2>1. csrf \in Tokens
      BY DEF Fresh
    <2>3. /\ sessions' \in Seq(Session) /\ Len(sessions') = Len(sessions)
          /\ sessions'[s].csrf = csrf
          /\ sessions'[s].stored = sessions[s].stored /\ sessions'[s].over = sessions[s].over
      BY <1>5, <2>1, TokenChanged
    <2>4. Accepted(s) => Accepted(s)'
      BY <2>3 DEF Accepted, Exists
    <2>5. /\ Answer(t, "ok") \in Call /\ Answer(t, "ok").given \in Cookies
          /\ Answer(t, "ok").given = call[t].given
      BY <1>1, AnswerFields DEF Call
    <2>6. mine \in Call
      BY <2>1, <2>5 DEF Call, Cookies
    <2>7. mine.given.session = call[t].given.session /\ mine.given.csrf = csrf
      BY <2>5 DEF Call, Cookies
    <2>8. /\ mine.pc = "answer" /\ mine.status = "ok" /\ mine.session = 0
          /\ mine.path = "refresh" /\ mine.first = call[t].first /\ mine.raced = call[t].raced
          /\ mine.committed = 0 /\ mine.refused = call[t].refused
      BY <1>1, <1>2, <1>3, <2>5, AnswerFields DEF Call
    <2> HIDE DEF mine
    <2>9. call'[t] = mine => RetryPrepared(t)'
      BY <1>2, <1>4, <2>3, <2>4, <2>7, <2>8 DEF RetryPrepared, Accepted, Exists
    <2>10. call'[t] = mine => TabInv(t)'
      BY <1>1, <1>3, <2>3, <2>7, <2>8, <2>9 DEF TabInv, CommitAnswered, RefreshIsSecond
    <2>11. jar' \in Cookies /\ jar'.session <= Len(sessions')
      BY <1>1, <1>2, <2>3 DEF Typed
    <2>12. Len(sessions) <= Len(sessions') /\ Racing(t, mine)
      BY <1>3, <1>5, <2>3 DEF mine
    <2> QED
      BY <2>3, <2>6, <2>10, <2>11, <2>12, RacingStep
  <1>6. CASE ~Exists(s) /\ Quietly(t, Answer(t, "error")) /\ sessions' = sessions
    <2>1. call[t].raced
      BY <1>4, <1>6 DEF Accepted
    <2>2. call'[t] = Answer(t, "error") => TabInv(t)'
      BY <1>1, <1>2, <1>3, <1>6, <2>1, AnswerFields
      DEF TabInv, CommitAnswered, RefreshIsSecond, RetryPrepared
    <2> QED
      BY <1>1, <1>2, <1>6, <2>2, AnswerFields, SameSessionsKept, QuietStep
  <1> QED
    BY <1>0, <1>5, <1>6 DEF Refresh

LEMMA LogoutKeeps ==
  ASSUME IInv, NEW t \in Tabs, Logout(t)
  PROVE  IInv'
  <1>1. Typed /\ TabInv(t) /\ call[t] \in Call
    BY IInvByTab DEF Typed
  <1>2. /\ call[t].pc = "act" /\ call[t].path = "logout" /\ jar' = jar
        /\ Racing(t, Answer(t, "ok"))
        /\ sessions' = [sessions EXCEPT ![call[t].session].stored = FALSE]
    BY DEF Logout
  <1>3. Len(sessions) \in Nat /\ call[t].committed = 0 /\ call[t].session \in DOMAIN sessions
    BY <1>1, <1>2 DEF Typed, TabInv, CommitAnswered, Call
  <1>4. sessions' \in Seq(Session) /\ Len(sessions') = Len(sessions)
    BY <1>2, <1>3, SessionDeleted
  <1>5. call'[t] = Answer(t, "ok") => TabInv(t)'
    BY <1>1, <1>2, <1>3, <1>4, AnswerFields
    DEF TabInv, CommitAnswered, RefreshIsSecond, RetryPrepared
  <1>6. Answer(t, "ok") \in Call
    BY <1>1, AnswerFields
  <1>7. jar' \in Cookies /\ jar'.session <= Len(sessions') /\ Len(sessions) <= Len(sessions')
    BY <1>1, <1>2, <1>3, <1>4 DEF Typed
  <1> QED
    BY <1>2, <1>4, <1>5, <1>6, <1>7, RacingStep

LEMMA HandleKeeps ==
  ASSUME IInv, NEW t \in Tabs, Handle(t)
  PROVE  IInv'
  <1>1. Typed /\ TabInv(t) /\ call[t] \in Call
    BY IInvByTab DEF Typed
  <1>2. call[t].pc = "act" /\ call[t].path = "change" /\ jar' = jar /\ sessions' = sessions
    BY DEF Handle
  <1>3. Len(sessions) \in Nat /\ call[t].committed = 0
    BY <1>1, <1>2 DEF Typed, TabInv, CommitAnswered
  <1>4. CASE Quietly(t, Answer(t, "error"))
    <2>1. call'[t] = Answer(t, "error") => TabInv(t)'
      BY <1>1, <1>2, <1>3, AnswerFields
      DEF TabInv, CommitAnswered, RefreshIsSecond, RetryPrepared
    <2> QED
      BY <1>1, <1>2, <1>4, <2>1, AnswerFields, SameSessionsKept, QuietStep
  <1>5. ASSUME NEW status \in {"ok", "error"},
               Quietly(t, [Answer(t, status) EXCEPT !.committed = @ + 1])
        PROVE  IInv'
    <2> DEFINE mine == [Answer(t, status) EXCEPT !.committed = @ + 1]
    <2>1. /\ mine \in Call /\ mine.pc = "answer" /\ mine.status = status /\ mine.session = 0
          /\ mine.path = "change" /\ mine.given = call[t].given /\ mine.committed = 1
          /\ mine.refused = call[t].refused
      BY <1>1, <1>2, <1>3, AnswerFields DEF Call
    <2> HIDE DEF mine
    <2>2. call'[t] = mine => TabInv(t)'
      BY <1>1, <1>2, <1>3, <2>1 DEF TabInv, CommitAnswered, RefreshIsSecond, RetryPrepared
    <2> QED
      BY <1>2, <1>5, <2>1, <2>2, SameSessionsKept, QuietStep DEF mine
  <1> QED
    BY <1>4, <1>5 DEF Handle

LEMMA ExpireKeeps ==
  ASSUME IInv, NEW s \in DOMAIN sessions, Expire(s)
  PROVE  IInv'
  <1>1. Typed /\ jar' = jar /\ Disturbed
    BY IInvByTab DEF Expire
  <1>2. sessions' \in Seq(Session) /\ Len(sessions') = Len(sessions)
    BY SessionOver DEF Expire
  <1>3. Len(sessions) \in Nat
    BY <1>1 DEF Typed
  <1> QED
    BY <1>1, <1>2, <1>3, DisturbedStep DEF Typed

-----------------------------------------------------------------------------
(* The theorems. *)

LEMMA InitIInv ==
  ASSUME Init
  PROVE  IInv
  <1>1. Typed
    BY NoCallType DEF Init, Typed, Session, Cookies, NoCookies
  <1>2. ASSUME NEW t \in Tabs
        PROVE  TabInv(t)
    <2>1. /\ call[t].pc = "idle" /\ call[t].path = "none" /\ call[t].session = 0
          /\ call[t].given.session = 0 /\ call[t].committed = 0 /\ ~call[t].refused
          /\ Len(sessions) = 0
      BY DEF Init, NoCall, NoCookies
    <2> QED
      BY <2>1 DEF TabInv, CommitAnswered, RefreshIsSecond, RetryPrepared
  <1> QED
    BY <1>1, <1>2, IInvByTab

LEMMA StutterKeeps ==
  ASSUME IInv, UNCHANGED vars
  PROVE  IInv'
  BY DEF IInv, TypeOK, OnlyRacedCallsRefused, CommitAnswered, RefreshIsSecond,
         RetryPrepared, Accepted, Exists, vars

LEMMA NextKeeps ==
  ASSUME IInv, [Next]_vars
  PROVE  IInv'
  <1>1. ASSUME NEW t \in Tabs, Begin(t) \/ Lose(t)
        PROVE  IInv'
    BY <1>1, BeginKeeps, LoseKeeps
  <1>2. ASSUME NEW t \in Tabs, Step(t)
        PROVE  IInv'
    BY <1>2, PrepareKeeps, SendKeeps, ReceiveKeeps, ResolveKeeps, LoginKeeps,
       RefreshKeeps, LogoutKeeps, HandleKeeps DEF Step
  <1>3. ASSUME CookiesExpire \/ \E s \in DOMAIN sessions : Expire(s)
        PROVE  IInv'
    BY <1>3, CookiesExpireKeeps, ExpireKeeps
  <1> QED
    BY <1>1, <1>2, <1>3, StutterKeeps DEF Next

(* The conjunction of the invariants and of what makes them inductive holds *)
(* in every reachable state, however many tabs, calls and faults there are. *)
THEOREM Invariance == Spec => []IInv
  BY InitIInv, NextKeeps, PTL DEF Spec

(* Cookies only name sessions that were stored, and who acts for a session  *)
(* has one (auth/service.py:67-120).                                        *)
THEOREM TypeCorrect == Spec => []TypeOK
  <1>1. IInv => TypeOK
    BY DEF IInv
  <1> QED
    BY <1>1, Invariance, PTL

(* The second attempt of a call never commits its change a second time      *)
(* (client.ts:35-46).                                                       *)
THEOREM CommittedOnceHolds == Spec => []CommittedOnce
  <1>1. IInv => CommittedOnce
    <2>1. ASSUME IInv, NEW t \in Tabs
          PROVE  call[t].committed <= 1
      <3>1. CommitAnswered(t) /\ call[t].committed \in Nat
        BY <2>1 DEF IInv, TypeOK, Call
      <3> QED
        BY <3>1 DEF CommitAnswered
    <2> QED
      BY <2>1 DEF CommittedOnce
  <1> QED
    BY <1>1, Invariance, PTL

(* Without another tab or the clock in between, the second attempt carries  *)
(* the valid token (client.ts:27-46, api/auth.py:46-54).                    *)
THEOREM OnlyRacedCallsRefusedHolds == Spec => []OnlyRacedCallsRefused
  <1>1. IInv => OnlyRacedCallsRefused
    BY DEF IInv
  <1> QED
    BY <1>1, Invariance, PTL

(* A row that is not accepted is not brought back by any step.              *)
LEMMA StaysEnded ==
  ASSUME IInv, [Next]_vars, NEW s \in DOMAIN sessions, ~Accepted(s)
  PROVE  ~Accepted(s)'
  <1>1. sessions \in Seq(Session) /\ s \in DOMAIN sessions /\ sessions[s] \in Session
    BY DEF IInv, TypeOK
  <1>2. CASE sessions' = sessions
    BY <1>2 DEF Accepted, Exists
  <1>3. ASSUME NEW t \in Tabs, Resolve(t), Exists(call[t].session),
               sessions' = [sessions EXCEPT ![call[t].session].stored = FALSE]
        PROVE  ~Accepted(s)'
    BY <1>1, <1>3 DEF Accepted, Exists, Session
  <1>4. ASSUME NEW t \in Tabs, NEW csrf,
               sessions' = Append(sessions, [csrf |-> csrf, stored |-> TRUE, over |-> FALSE])
        PROVE  ~Accepted(s)'
    BY <1>1, <1>4 DEF Accepted, Exists
  <1>5. ASSUME NEW t \in Tabs, NEW csrf, sessions' = [sessions EXCEPT ![call[t].session].csrf = csrf]
        PROVE  ~Accepted(s)'
    BY <1>1, <1>5 DEF Accepted, Exists, Session
  <1>6. ASSUME NEW t \in Tabs, sessions' = [sessions EXCEPT ![call[t].session].stored = FALSE]
        PROVE  ~Accepted(s)'
    BY <1>1, <1>6 DEF Accepted, Exists, Session
  <1>7. ASSUME NEW r \in DOMAIN sessions, Expire(r)
        PROVE  ~Accepted(s)'
    BY <1>1, <1>7 DEF Expire, Accepted, Exists, Session
  <1>8. ASSUME NEW t \in Tabs, Begin(t) \/ Lose(t) \/ Step(t)
        PROVE  ~Accepted(s)'
    <2>1. CASE Begin(t) \/ Lose(t) \/ Prepare(t) \/ Send(t) \/ Receive(t) \/ Handle(t)
      BY <1>2, <2>1 DEF Begin, Lose, Prepare, Send, Receive, Handle
    <2>2. CASE Resolve(t)
      BY <1>2, <1>3, <2>2 DEF Resolve
    <2>3. CASE Login(t)
      BY <1>2, <1>4, <2>3 DEF Login
    <2>4. CASE Refresh(t)
      BY <1>2, <1>5, <2>4 DEF Refresh
    <2>5. CASE Logout(t)
      BY <1>6, <2>5 DEF Logout
    <2> QED
      BY <1>8, <2>1, <2>2, <2>3, <2>4, <2>5 DEF Step
  <1>9. CASE CookiesExpire \/ UNCHANGED vars
    BY <1>2, <1>9 DEF CookiesExpire, vars
  <1> QED
    BY <1>7, <1>8, <1>9 DEF Next

(* No request that was past the check when a session ended brings it back,  *)
(* neither /auth/csrf nor any other (auth/service.py:92-120).               *)
THEOREM EndedForGoodHolds == Spec => EndedForGood
  <1>1. IInv /\ [Next]_vars =>
          [ \A s \in DOMAIN sessions : ~Accepted(s) => ~Accepted(s)' ]_vars
    BY StaysEnded
  <1> QED
    BY <1>1, Invariance, PTL DEF Spec, EndedForGood
==============================================================================
