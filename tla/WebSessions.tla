---------------------------- MODULE WebSessions ----------------------------
(***************************************************************************)
(* Logging in and out, and the requests in between: the administrator's    *)
(* sessions on the server (auth/service.py, api/auth.py), the cookies all  *)
(* tabs of the browser share, and the one helper through which a tab sends *)
(* every request, which fetches a new CSRF token and tries once more when  *)
(* the one it sent is refused (frontend/src/api/client.ts).                *)
(*                                                                         *)
(* A tab makes one call at a time.  Sending, the server's look at the      *)
(* session, the handler's commit and the arrival of the answer are steps;  *)
(* answers overtake each other, requests and answers get lost.             *)
(***************************************************************************)
EXTENDS Naturals, Sequences

CONSTANTS Tabs,
          Tokens,                \* the CSRF tokens
          MaxCalls, MaxFaults   \* bounds; a fault is a lost message or an expiry

ASSUME WebSessionsAssumption == 0 \notin Tokens /\ {MaxCalls, MaxFaults} \subseteq Nat

VARIABLES sessions,   \* admin_sessions, numbered by their tokens, in the order of logins
          jar,        \* the cookies, 0 for an absent one
          call,       \* what every tab is doing
          calls, faults   \* counters for the bounds

counters == <<calls, faults>>
vars == <<sessions, jar, call, counters>>

-----------------------------------------------------------------------------
(* A row has the CSRF token that is valid, is there until it is deleted,    *)
(* and its time is over at some moment.                                     *)
Session == [csrf : Tokens, stored : BOOLEAN, over : BOOLEAN]
Cookies == [session : Nat, csrf : Tokens \cup {0}]
NoCookies == [session |-> 0, csrf |-> 0]

(* "change" stands for any POST, PUT or DELETE but these two; a GET carries *)
(* no token and is never sent again.                                        *)
Kinds == {"login", "logout", "change"}

(* What a tab's call is about and what is on its way: the path, which is    *)
(* "refresh" for /auth/csrf, with the cookie and the header it was sent     *)
(* with; then the status of the answer and the tokens it gives.  The last   *)
(* three tell properties apart: how often the handler committed its change, *)
(* whether another tab or the clock touched sessions or cookies since the   *)
(* call began, and whether it ended with its token refused without that.    *)
NoCall == [kind |-> "none", pc |-> "idle", path |-> "none", first |-> TRUE,
           session |-> 0, csrf |-> 0, status |-> "none", given |-> NoCookies,
           committed |-> 0, raced |-> FALSE, refused |-> FALSE]

Call ==
    [kind : Kinds \cup {"none"}, path : Kinds \cup {"refresh", "none"}, first : BOOLEAN,
     pc : {"idle", "prepare", "send", "resolve", "act", "answer"},
     session : Nat, csrf : Tokens \cup {0},
     status : {"none", "ok", "unauthorized", "forbidden", "error"}, given : Cookies,
     committed : Nat, raced : BOOLEAN, refused : BOOLEAN]

Exists(s) == s # 0 /\ sessions[s].stored
Accepted(s) == Exists(s) /\ ~sessions[s].over

(* secrets.token_urlsafe(32): a token nobody has any more, always the same   *)
(* one of them.                                                             *)
Held ==
    {jar.csrf} \cup {sessions[s].csrf : s \in DOMAIN sessions}
        \cup UNION {{call[t].csrf, call[t].given.csrf} : t \in Tabs}
Fresh == {n \in Tokens \ Held : n = CHOOSE m \in Tokens \ Held : TRUE}

Init ==
    /\ sessions = <<>> /\ jar = NoCookies
    /\ call = [t \in Tabs |-> NoCall]
    /\ calls = 0 /\ faults = 0

(* A call is over; its status matters to properties only.                   *)
Ended(t, status) == [NoCall EXCEPT !.refused = status = "forbidden" /\ ~call[t].raced]

(* What t does next to its own call, while it disturbs those of the others. *)
Raced(u) == [call[u] EXCEPT !.raced = call[u].pc # "idle"]
Racing(t, mine) == call' = [u \in Tabs |-> IF u = t THEN mine ELSE Raced(u)]
Disturbed == call' = [u \in Tabs |-> Raced(u)]

Quietly(t, mine) == call' = [call EXCEPT ![t] = mine]

-----------------------------------------------------------------------------
(* The browser *)

Begin(t) ==
    /\ call[t].pc = "idle" /\ calls < MaxCalls
    /\ \E kind \in Kinds :
         Quietly(t, [NoCall EXCEPT !.kind = kind, !.path = kind,
                                   !.pc = IF kind = "login" THEN "act" ELSE "prepare"])
    /\ calls' = calls + 1
    /\ UNCHANGED <<sessions, jar, faults>>

(* send() looks up the token for the header of every attempt.  While there  *)
(* is no cookie csrfToken is sent instead; it is never that of a session    *)
(* whose cookie arrives later, so that nothing (0) fares like it.           *)
Prepare(t) ==
    /\ call[t].pc = "prepare"
    /\ Quietly(t, [call[t] EXCEPT !.pc = "send", !.csrf = jar.csrf])
    /\ UNCHANGED <<sessions, jar, counters>>

(* The browser adds the session cookie when the request leaves, which may   *)
(* be another one by then.                                                  *)
Send(t) ==
    /\ call[t].pc = "send"
    /\ Quietly(t, [call[t] EXCEPT !.pc = "resolve", !.session = jar.session])
    /\ UNCHANGED <<sessions, jar, counters>>

(* A network failure rejects the fetch, and with it the call.               *)
Lose(t) ==
    /\ call[t].pc \in {"resolve", "answer"} /\ faults < MaxFaults
    /\ Quietly(t, Ended(t, "failed"))
    /\ faults' = faults + 1
    /\ UNCHANGED <<sessions, jar, calls>>

(* Faulty variant: any failure is worth another attempt. *)
WorthRetryingAny(t) == call[t].status # "ok" /\ call[t].first

(* Faulty variant: any failure is worth as many attempts as it takes. *)
WorthRetryingAlways(t) == call[t].status # "ok"

(* The CSRF token was refused, for the first time. *)
WorthRetrying(t) ==
    call[t].status = "forbidden" /\ call[t].first

(* What the call does with the answer to the request itself. *)
AfterAnswer(t) ==
    IF WorthRetrying(t)
    THEN [call[t] EXCEPT !.path = "refresh", !.first = FALSE, !.pc = "send"]
    ELSE Ended(t, call[t].status)

(* And with the answer of /auth/csrf: once more, or it stays refused.       *)
AfterRefresh(t) ==
    IF call[t].status = "ok"
    THEN [call[t] EXCEPT !.path = call[t].kind, !.pc = "prepare"]
    ELSE Ended(t, "forbidden")

(* Faulty variant: /auth/csrf answers with the token but sets no cookie. *)
CookiesAfterBare(t) == IF call[t].path = "refresh" THEN jar ELSE call[t].given

(* The cookies that the answer sets or, after logging out, deletes.         *)
CookiesAfter(t) ==
    IF call[t].path = "refresh" THEN [jar EXCEPT !.csrf = call[t].given.csrf]
    ELSE call[t].given

(* They reach the jar before the tab reads the answer.                      *)
Receive(t) ==
    LET next == IF call[t].path = "refresh" THEN AfterRefresh(t) ELSE AfterAnswer(t)
        cleared == [next EXCEPT !.status = "none", !.given = NoCookies]
        sets == call[t].status = "ok" /\ call[t].path # "change"
    IN  /\ call[t].pc = "answer"
        /\ \/ sets /\ jar' = CookiesAfter(t) /\ Racing(t, cleared)
           \/ ~sets /\ Quietly(t, cleared) /\ UNCHANGED jar
        /\ UNCHANGED <<sessions, counters>>

(* Cookies expire with the session they were set for. *)
CookiesExpire ==
    /\ jar.session # 0 /\ sessions[jar.session].over
    /\ jar' = NoCookies
    /\ Disturbed
    /\ UNCHANGED <<sessions, counters>>

-----------------------------------------------------------------------------
(* The server *)

Answer(t, status) ==
    [call[t] EXCEPT !.pc = "answer", !.status = status, !.session = 0, !.csrf = 0]

(* require_session *)
Refused(t) == ~Accepted(call[t].session)

(* require_csrf *)
Forbidden(t) ==
    call[t].path \in {"logout", "change"} /\ call[t].csrf # sessions[call[t].session].csrf

(* resolve_session deletes a session whose time is over.                    *)
Resolve(t) ==
    LET s == call[t].session
    IN  /\ call[t].pc = "resolve"
        /\ \/ /\ Refused(t)
              /\ Quietly(t, Answer(t, "unauthorized"))
              /\ sessions' = IF Exists(s) THEN [sessions EXCEPT ![s].stored = FALSE]
                             ELSE sessions
           \/ /\ ~Refused(t) /\ Forbidden(t)
              /\ Quietly(t, Answer(t, "forbidden"))
              /\ UNCHANGED sessions
           \/ /\ ~Refused(t) /\ ~Forbidden(t)
              /\ Quietly(t, [call[t] EXCEPT !.pc = "act", !.csrf = 0])
              /\ UNCHANGED sessions
        /\ UNCHANGED <<jar, counters>>

(* Faulty variant: the new session is not committed. *)
LoginUncommitted(t) ==
    /\ call[t].pc = "act" /\ call[t].path = "login"
    /\ \E csrf \in Fresh :
         Quietly(t, [Answer(t, "ok") EXCEPT
             !.given = [session |-> Len(sessions) + 1, csrf |-> csrf]])
    /\ UNCHANGED <<sessions, jar, counters>>

(* AuthService.login, which no cookie has a part in; or a wrong password.   *)
Login(t) ==
    /\ call[t].pc = "act" /\ call[t].path = "login"
    /\ \/ \E csrf \in Fresh :
            /\ sessions' = Append(sessions, [csrf |-> csrf, stored |-> TRUE, over |-> FALSE])
            /\ Quietly(t, [Answer(t, "ok") EXCEPT
                 !.given = [session |-> Len(sessions) + 1, csrf |-> csrf]])
       \/ Quietly(t, Answer(t, "unauthorized")) /\ UNCHANGED sessions
    /\ UNCHANGED <<jar, counters>>

(* Faulty variant: the row read before is written back, stored or not. *)
RefreshMerging(t) ==
    LET s == call[t].session
    IN  /\ call[t].pc = "act" /\ call[t].path = "refresh"
        /\ \E csrf \in Fresh :
             /\ sessions' = [sessions EXCEPT ![s].csrf = csrf, ![s].stored = TRUE]
             /\ Racing(t, [Answer(t, "ok") EXCEPT !.given.csrf = csrf])
        /\ UNCHANGED <<jar, counters>>

(* refresh_csrf: the update of a session that is gone by now raises.        *)
Refresh(t) ==
    LET s == call[t].session
    IN  /\ call[t].pc = "act" /\ call[t].path = "refresh"
        /\ \/ /\ Exists(s)
              /\ \E csrf \in Fresh :
                   /\ sessions' = [sessions EXCEPT ![s].csrf = csrf]
                   /\ Racing(t, [Answer(t, "ok") EXCEPT !.given.csrf = csrf])
           \/ ~Exists(s) /\ Quietly(t, Answer(t, "error")) /\ UNCHANGED sessions
        /\ UNCHANGED <<jar, counters>>

(* Deleting a session that is gone already is no error. *)
Logout(t) ==
    /\ call[t].pc = "act" /\ call[t].path = "logout"
    /\ sessions' = [sessions EXCEPT ![call[t].session].stored = FALSE]
    /\ Racing(t, Answer(t, "ok"))
    /\ UNCHANGED <<jar, counters>>

(* Any other handler: it refuses, or commits its change and may fail after  *)
(* that, for instance at the audit record.                                  *)
Handle(t) ==
    /\ call[t].pc = "act" /\ call[t].path = "change"
    /\ \/ Quietly(t, Answer(t, "error"))
       \/ \E status \in {"ok", "error"} :
            Quietly(t, [Answer(t, status) EXCEPT !.committed = @ + 1])
    /\ UNCHANGED <<sessions, jar, counters>>

(* session_lifetime has passed. *)
Expire(s) ==
    /\ ~sessions[s].over /\ faults < MaxFaults
    /\ sessions' = [sessions EXCEPT ![s].over = TRUE]
    /\ faults' = faults + 1
    /\ Disturbed
    /\ UNCHANGED <<jar, calls>>

-----------------------------------------------------------------------------
(* The progress of a call that was begun. *)
Step(t) ==
    \/ Prepare(t) \/ Send(t) \/ Receive(t)
    \/ Resolve(t) \/ Login(t) \/ Refresh(t) \/ Logout(t) \/ Handle(t)

Next ==
    \/ \E t \in Tabs : Begin(t) \/ Step(t) \/ Lose(t)
    \/ CookiesExpire \/ \E s \in DOMAIN sessions : Expire(s)

Spec == Init /\ [][Next]_vars

(* The browser runs the continuations of its promises and the server its    *)
(* handlers; nobody has to click, lose a message or wait for an expiry.     *)
FairSpec == Spec /\ \A t \in Tabs : WF_vars(Step(t))

-----------------------------------------------------------------------------
(* Every variable has its type, no cookie names a session that was never    *)
(* stored, and whoever acts for a session has one.                          *)
TypeOK ==
    /\ sessions \in Seq(Session) /\ jar \in Cookies /\ call \in [Tabs -> Call]
    /\ jar.session <= Len(sessions)
    /\ \A t \in Tabs :
         /\ call[t].session <= Len(sessions) /\ call[t].given.session <= Len(sessions)
         /\ call[t].pc = "act" /\ call[t].path # "login" => call[t].session # 0

(* However often a call is sent, its change is committed once at most, also *)
(* when the handler fails after its commit (client.ts:35-46).               *)
CommittedOnce == \A t \in Tabs : call[t].committed <= 1

(* A call is refused for its CSRF token in the end only if another tab      *)
(* fetched a token, logged in or out, or time ran out during that very      *)
(* call: with one tab at work the second attempt always passes, whatever    *)
(* tokens earlier answers left behind (client.ts:27-46, api/auth.py:46-54). *)
OnlyRacedCallsRefused == \A t \in Tabs : ~call[t].refused

(* A session that ended, by logging out or by its time, is never accepted   *)
(* again, whatever requests were past the check when it ended               *)
(* (auth/service.py:92-120).                                                *)
EndedForGood ==
    [][ \A s \in DOMAIN sessions : ~Accepted(s) => ~Accepted(s)' ]_vars

(* Every call ends, even when tabs take each other's tokens away            *)
(* (client.ts:35-52).                                                       *)
CallsEnd == \A t \in Tabs : call[t].pc # "idle" ~> call[t].pc = "idle"
=============================================================================
