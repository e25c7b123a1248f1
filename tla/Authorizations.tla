--------------------------- MODULE Authorizations ---------------------------
(***************************************************************************)
(* What the authority kernel promises: evidence can be gathered until an   *)
(* authorization of exactly it, which was offered for signature before, is *)
(* begun; one is carried out at a time; it ends in a certificate that      *)
(* holds, or leaves one that never will; and a certificate that ceased to  *)
(* hold never holds again.                                                 *)
(***************************************************************************)
CONSTANTS Candidate, Evidence

VARIABLES
    evidence,   \* what was gathered about each candidate
    offers,     \* what the authorities may have signed: a candidate with its evidence
    status      \* of the authorization of each candidate

promised == <<evidence, offers, status>>

Offer(c) == [cand |-> c, evidence |-> evidence[c]]
Become(C, s) == status' = [c \in Candidate |-> IF c \in C THEN s ELSE status[c]]

Init ==
    /\ evidence \in [Candidate -> Evidence]
    /\ offers = {}
    /\ status = [c \in Candidate |-> "open"]

Gather(c) ==
    /\ status[c] = "open"
    /\ evidence' \in [Candidate -> Evidence]
    /\ \A d \in Candidate \ {c} : evidence'[d] = evidence[d]
    /\ UNCHANGED <<offers, status>>

(* An offer may take the place of others; nothing stops one that cannot be  *)
(* taken up any more.                                                       *)
Prepare(c) ==
    /\ \E kept \in SUBSET offers : offers' = kept \cup {Offer(c)}
    /\ UNCHANGED <<evidence, status>>

Begin(c) ==
    /\ status[c] = "open" /\ \A d \in Candidate : status[d] # "committing"
    /\ Offer(c) \in offers
    /\ Become({c}, "committing")
    /\ UNCHANGED <<evidence, offers>>

(* A commit that left nothing behind can be made again.                     *)
End(c) ==
    /\ status[c] = "committing"
    /\ Become({c}, "valid") \/ Become({c}, "open")
    /\ UNCHANGED <<evidence, offers>>

(* One cause may spoil several: the torn end of the ledger they share.      *)
Lose(C) ==
    /\ \A c \in C : status[c] \in {"committing", "valid"}
    /\ Become(C, "void")
    /\ UNCHANGED <<evidence, offers>>

Next ==
    \/ \E c \in Candidate : Gather(c) \/ Prepare(c) \/ Begin(c) \/ End(c)
    \/ \E C \in SUBSET Candidate : Lose(C)

Spec == Init /\ [][Next]_promised
=============================================================================
