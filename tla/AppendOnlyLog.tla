--------------------------- MODULE AppendOnlyLog ---------------------------
(***************************************************************************)
(* What the event ledger promises: the entries that survive a power loss   *)
(* form a log that only grows, every entry names its place and its         *)
(* predecessor, and a log that was sealed by a torn entry never grows      *)
(* again.                                                                  *)
(***************************************************************************)
EXTENDS Naturals, Sequences

VARIABLES
    log,        \* the durable entries: records with a sequence and a previous
    sealed      \* a torn entry is durable

logVars == <<log, sealed>>

Linked(s) ==
    \A i \in DOMAIN s :
        /\ s[i].sequence = i - 1
        /\ s[i].previous = IF i = 1 THEN <<>> ELSE s[i - 1].hash

Init == log = <<>> /\ sealed = FALSE

(* Some entries become durable, and with them perhaps a torn tail.          *)
Persist ==
    /\ ~sealed
    /\ Len(log') >= Len(log)
    /\ SubSeq(log', 1, Len(log)) = log
    /\ Linked(log')
    /\ sealed' \in BOOLEAN

Next == Persist
Spec == Init /\ [][Next]_logVars
=============================================================================
