--------------------------- MODULE PaperDelivery ----------------------------
(***************************************************************************)
(* What a paper session promises about its market data: every stream (a    *)
(* strategy following one symbol and interval) receives the closed candles *)
(* one by one, in order, none twice and none left out, until the session   *)
(* is stopped; one update already under way may still land after the stop. *)
(* PaperTrading implements it as long as no two strategies of a session    *)
(* follow the same symbol and interval.                                    *)
(***************************************************************************)
EXTENDS Naturals, Sequences

CONSTANTS Sessions, Streams, Candles

VARIABLES state, \* state[s]: "absent", "active" or "stopped"
          log,   \* log[s][x]: the candles stream x of session s received
          grace  \* grace[s]: an update under way at the stop may still land

vars == <<state, log, grace>>

Init ==
    /\ state = [s \in Sessions |-> "absent"]
    /\ log = [s \in Sessions |-> [x \in Streams |-> <<>>]]
    /\ grace = [s \in Sessions |-> TRUE]

Start(s) ==
    /\ state[s] = "absent"
    /\ state' = [state EXCEPT ![s] = "active"]
    /\ UNCHANGED <<log, grace>>

Stop(s) ==
    /\ state[s] = "active"
    /\ state' = [state EXCEPT ![s] = "stopped"]
    /\ UNCHANGED <<log, grace>>

(* Candle c may follow what a stream has received. *)
Follows(received, c) ==
    received # <<>> => c = received[Len(received)] + 1

Deliver(s, x, c) ==
    /\ state[s] = "active" \/ (state[s] = "stopped" /\ grace[s])
    /\ Follows(log[s][x], c)
    /\ log' = [log EXCEPT ![s][x] = Append(@, c)]
    /\ grace' = [grace EXCEPT ![s] = state[s] = "active"]
    /\ UNCHANGED state

Next ==
    \E s \in Sessions :
        \/ Start(s) \/ Stop(s)
        \/ \E x \in Streams : \E c \in Candles : Deliver(s, x, c)

Spec == Init /\ [][Next]_vars
=============================================================================
