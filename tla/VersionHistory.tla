--------------------------- MODULE VersionHistory ---------------------------
(***************************************************************************)
(* What the strategy configurations promise: every configuration is a      *)
(* history of versions that only grows at its end, until it is removed as  *)
(* a whole; the names of the configurations that exist are distinct.  One  *)
(* atomic step per change, whoever else is at work.                        *)
(***************************************************************************)
EXTENDS Naturals, Sequences

CONSTANTS Names, Payloads

VARIABLE history   \* per configuration, in the order of creation

Entry == [name : Names, payload : Payloads]

Exists(c) == history[c] # <<>>

CurrentName(c) == history[c][Len(history[c])].name

Free(name, c) ==
    \A d \in DOMAIN history : Exists(d) /\ CurrentName(d) = name => d = c

Init == history = <<>>

Create(entry) ==
    /\ Free(entry.name, 0)
    /\ history' = Append(history, <<entry>>)

Update(c, entry) ==
    /\ Exists(c) /\ Free(entry.name, c)
    /\ history' = [history EXCEPT ![c] = Append(@, entry)]

Remove(c) ==
    /\ Exists(c)
    /\ history' = [history EXCEPT ![c] = <<>>]

Next ==
    \/ \E entry \in Entry : Create(entry)
    \/ \E c \in DOMAIN history : Remove(c) \/ \E entry \in Entry : Update(c, entry)

Spec == Init /\ [][Next]_history
=============================================================================
