------------------------------- MODULE MCPaper ------------------------------
(* Small instances of PaperTrading for TLC: two strategies, two feeds. *)
EXTENDS PaperTrading, TLC

CONSTANTS f1, f2, s1

MCOrder == <<"trend", "grid">>

(* Each strategy follows a feed of its own. *)
Apart == [s \in Sessions |-> [k \in {"trend", "grid"} |->
             IF k = "trend" THEN {f1} ELSE {f2}]]

(* One session's strategies share a feed, the other's do not. *)
Mixed == [s \in Sessions |-> [k \in {"trend", "grid"} |->
             IF s = s1 \/ k = "trend" THEN {f1} ELSE {f2}]]
=============================================================================
