---------------------------- MODULE MCAuthority ----------------------------
(***************************************************************************)
(* The authority over a run in which every candidate was investigated up   *)
(* to a passing replay without a fault.  The initial state is what the     *)
(* operations of RunStore leave behind: their own write sequences, carried *)
(* out one after the other.  Candidate 1 still misses its last review.     *)
(***************************************************************************)
EXTENDS Authority, SequencesExt

CONSTANTS K1, K2
MCKernel == {K1, K2}

Investigation(c) ==
    Proposal(c) \o Planning(c) \o Execution(c, "SUPPORTS", Commands)
    \o Transition(c, "SUPPORTED", "SUPPORTS") \o Replaying(c, "PASS", Commands)
    \o (IF c = 1 THEN <<>> ELSE FlattenSeq(SetToSeq({Reviewing(c, t) : t \in Review})))
Done == Observing \o Expecting(1) \o FlattenSeq([c \in Candidate |-> Investigation(c)])
Made(kind) == SelectSeq(Done, LAMBDA x : x.kind = kind)
MadeFor(kind, c) == SelectSeq(Made(kind), LAMBDA x : x.cand = c)

Investigated ==
    /\ dirs = Candidate
    /\ file = [c \in Candidate |-> [n \in FileName |->
                   LET fs == SelectSeq(MadeFor("file", c), LAMBDA x : x.of = n) IN
                   IF fs = <<>> THEN "absent" ELSE fs[1].value]]
    /\ history = [c \in Candidate |->
                   LET ss == MadeFor("state", c) IN
                   [i \in DOMAIN ss |-> [to |-> ss[i].of, evidence |-> ss[i].value]]]
    /\ tail = [c \in Candidate \cup {0} |-> "whole"]
    /\ commands = [c \in Candidate |-> Len(MadeFor("command", c))]
    /\ expectations = 1
    /\ observations = LET os == Made("observation") IN [i \in DOMAIN os |-> os[i].cand]
    /\ scan = TRUE
    /\ ledger = << [type |-> "RUN_CREATED", cand |-> 0, of |-> "run"] >> \o
                LET es == Made("event") IN
                [i \in DOMAIN es |->
                    [type |-> es[i].value, cand |-> es[i].cand, of |-> es[i].of]]
    /\ torn = FALSE
    /\ index = [c \in Candidate |-> "REPRODUCED"]
    /\ listing = [r \in Lister |-> <<>>]
    /\ job = <<>>
    /\ faults = 0
    /\ prepared = [k \in Kernel |-> Unprepared]
    /\ signed = [c \in Candidate |-> Unprepared]

MCSafeSpec == Investigated /\ [][AuthorityNext]_authorityVars
MCSpec == MCSafeSpec /\ Progress
=============================================================================
