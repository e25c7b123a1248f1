-------------------------- MODULE MCCertification --------------------------
(***************************************************************************)
(* One positive and one control case, two variants, and the envelopes a    *)
(* caller may come with: in order or wrong in one way.                     *)
(***************************************************************************)
EXTENDS Certification

MCPositive == {"seeded"}
MCControl == {"clean"}
MCVariant == {"detectors", "full"}
MCWalk == << <<"detectors", "clean">>, <<"detectors", "seeded">>,
             <<"full", "clean">>, <<"full", "seeded">> >>
MCBusy == {<<"full", "clean">>, <<"full", "seeded">>}
MCUnfinished == {<<"full", "seeded">>}

(* Documents that agree, and three in which one of them disagrees.          *)
Agreed(listed) == [index |-> listed, matrix |-> listed, report |-> listed]
Seeded == {<<"full", "seeded">>}
MCClaims ==
    {Agreed(listed) : listed \in SUBSET MCBusy}
    \cup {[Agreed({}) EXCEPT !.index = Seeded], [Agreed({}) EXCEPT !.report = Seeded],
          [Agreed(Seeded) EXCEPT !.report = {}]}

Key(id, actor, role, status) ==
    [id |-> id, public |-> id, actor |-> actor, role |-> role, status |-> status,
     from |-> 0, until |-> 1]
Keys ==
    {Key("a1", "ada", "DISCOVERY_AUTHORITY", "ACTIVE"),
     Key("k1", "kim", "CUSTODIAN", "ACTIVE"),
     Key("i1", "ira", "ISOLATION_ATTESTER", "ACTIVE"),
     Key("w1", "wim", "LEDGER_WITNESS", "ACTIVE"),
     Key("e1", "eva", "TRIAL_EVALUATOR", "ACTIVE"),
     Key("c1", "cay", "M0_CERTIFIER", "ACTIVE"),
     Key("c2", "col", "M0_CERTIFIER", "ACTIVE"),
     Key("c3", "col", "M0_CERTIFIER", "ACTIVE"),
     Key("c4", "cya", "M0_CERTIFIER", "REVOKED")}
Production ==
    [id |-> "production", mode |-> "PRODUCTION", issued |-> 0, from |-> 0, until |-> 1,
     keys |-> Keys,
     threshold |-> [role \in Role |-> IF role = "M0_CERTIFIER" THEN 2 ELSE 1]]
Shadow == [Production EXCEPT !.id = "shadow", !.mode = "SHADOW"]
Brief ==
    [Production EXCEPT !.id = "brief", !.until = 0,
                       !.keys = {[k EXCEPT !.until = 0] : k \in Keys}]
TwoRoles ==
    [Production EXCEPT !.id = "two roles",
        !.keys = @ \cup {Key("e2", "cay", "TRIAL_EVALUATOR", "ACTIVE")}]

Statement(p, role, sigs, issuer) ==
    [role |-> role, sigs |-> sigs, issued |-> 0, issuer |-> issuer, policy |-> p.id,
     sound |-> TRUE]
Complete(p) ==
    [policy |-> p,
     statement |-> [role \in Attester |->
        CASE role = "CUSTODIAN" -> Statement(p, role, <<"k1">>, "kim")
          [] role = "ISOLATION_ATTESTER" -> Statement(p, role, <<"i1">>, "ira")
          [] role = "LEDGER_WITNESS" -> Statement(p, role, <<"w1">>, "wim")
          [] role = "TRIAL_EVALUATOR" -> Statement(p, role, <<"e1">>, "eva")
          [] role = "M0_CERTIFIER" -> Statement(p, role, <<"c1", "c2">>, "cay")],
     evaluator |-> "truthful", decision |-> "M0_DEMONSTRATED"]
Negative(s) == [s EXCEPT !.decision = "M0_NOT_DEMONSTRATED"]
SignedBy(role, sigs, issuer) ==
    [Negative(Complete(Production)) EXCEPT !.statement[role].sigs = sigs,
                                           !.statement[role].issuer = issuer]

MCSigning ==
    {Complete(Production), Negative(Complete(Production)),
     [Complete(Production) EXCEPT !.statement["CUSTODIAN"].sound = FALSE],
     [Complete(Production) EXCEPT !.evaluator = "overstates"],
     [Complete(Production) EXCEPT !.evaluator = "inconsistent"],
     Complete(Shadow), Negative(Complete(Shadow)), Negative(Complete(Brief)),
     SignedBy("M0_CERTIFIER", <<"c1", "c1">>, "cay"),
     SignedBy("M0_CERTIFIER", <<"c2", "c3">>, "col"),
     SignedBy("M0_CERTIFIER", <<"c1", "c4">>, "cay"),
     SignedBy("LEDGER_WITNESS", <<"i1">>, "ira"),
     [Negative(Complete(TwoRoles)) EXCEPT !.statement["TRIAL_EVALUATOR"].sigs = <<"e2">>,
                                          !.statement["TRIAL_EVALUATOR"].issuer = "cay"]}
=============================================================================
