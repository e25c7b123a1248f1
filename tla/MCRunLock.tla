----------------------------- MODULE MCRunLock -----------------------------
(* Two processes, one of them with two threads, and the two lock files of  *)
(* a run: the mutation lock, and the ledger lock taken inside it.          *)
EXTENDS RunLock

CONSTANTS T1, T2, T3, P1, P2, Mutation, Ledger

MCThread == {T1, T2, T3}
MCProcess == {P1, P2}
MCProcOf == [t \in MCThread |-> IF t = T3 THEN P2 ELSE P1]
MCPath == {Mutation, Ledger}
MCBelow == [p \in MCPath |-> IF p = Ledger THEN {Mutation} ELSE {}]
=============================================================================
