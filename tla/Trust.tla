------------------------------- MODULE Trust -------------------------------
(***************************************************************************)
(* unasked/trust.py: a pinned trust policy, the keys it gives each role,   *)
(* and the conditions under which a signed statement counts.               *)
(*                                                                         *)
(* A policy is [id, mode, issued, from, until, keys, threshold], a key     *)
(* [id, public, actor, role, status, from, until]; a statement is          *)
(* [role, sigs, issued, issuer, policy, sound]: "role" stands for the      *)
(* predicate type, "policy" for the hash of the policy it binds, "sound"   *)
(* for the predicate's own qualification.  A signature is named by the     *)
(* public key it verifies under (Ed25519 is external); the envelope's key  *)
(* identifiers only order the candidates and do not appear.                *)
(***************************************************************************)
EXTENDS Naturals, FiniteSets, Sequences

Role ==
    {"DISCOVERY_AUTHORITY", "CUSTODIAN", "ISOLATION_ATTESTER", "LEDGER_WITNESS",
     "TRIAL_EVALUATOR", "M0_CERTIFIER"}

KeysFor(p, role) == {k \in p.keys : k.role = role}
Actors(keys) == {k.actor : k \in keys}
Publics(keys) == {k.public : k \in keys}

(* Who a key stands for when signers are counted.                           *)
Identities(p, keys) == IF p.mode = "PRODUCTION" THEN Actors(keys) ELSE Publics(keys)

-----------------------------------------------------------------------------
(* load_trust_policy, at the time now.                                      *)

PolicyInForce(p, now) == p.issued <= now /\ p.from <= now /\ now <= p.until
KeysWithinPolicy(p) ==
    \A k \in p.keys : p.from <= k.from /\ k.from <= k.until /\ k.until <= p.until
KeysDistinct(p) ==
    \A k, l \in p.keys : k # l => k.id # l.id /\ k.public # l.public
OneRolePerActor(p) ==
    p.mode = "PRODUCTION" =>
        \A k, l \in p.keys : k.actor = l.actor => k.role = l.role
ThresholdsInReach(p) ==
    \A role \in Role :
        Cardinality(Identities(p, KeysFor(p, role))) >= p.threshold[role]

(* Seeded bugs: an actor may hold two roles; an expired policy still loads. *)
LoadsAnyActor(p, now) ==
    /\ PolicyInForce(p, now)
    /\ KeysWithinPolicy(p) /\ KeysDistinct(p) /\ ThresholdsInReach(p)
LoadsExpired(p, now) ==
    /\ p.issued <= now
    /\ KeysWithinPolicy(p) /\ KeysDistinct(p)
    /\ OneRolePerActor(p) /\ ThresholdsInReach(p)
Loads(p, now) ==
    /\ PolicyInForce(p, now)
    /\ KeysWithinPolicy(p) /\ KeysDistinct(p)
    /\ OneRolePerActor(p) /\ ThresholdsInReach(p)

-----------------------------------------------------------------------------
(* _decode_and_verify_dsse: what the dictionary of accepted keys holds when *)
(* every signature was tried.                                               *)
Accepted(keys, sigs) == {k \in keys : \E i \in DOMAIN sigs : sigs[i] = k.public}

(* verify_dsse_statement: of the accepted keys those that were active and   *)
(* valid when the statement was issued.                                     *)
Qualifying(p, s) ==
    {k \in Accepted(KeysFor(p, s.role), s.sigs) :
        /\ k.status = "ACTIVE"
        /\ p.from <= s.issued /\ s.issued <= p.until
        /\ k.from <= s.issued /\ s.issued <= k.until}

(* Seeded bugs: signatures are counted instead of keys; the revoked and     *)
(* outdated keys still count.                                               *)
EnoughSignatures(p, s) == Len(s.sigs) >= p.threshold[s.role]
EnoughAccepted(p, s) ==
    Cardinality(Identities(p, Accepted(KeysFor(p, s.role), s.sigs))) >= p.threshold[s.role]
Enough(p, s) ==
    LET accepted == Accepted(KeysFor(p, s.role), s.sigs) IN
    /\ Cardinality(Publics(accepted)) >= p.threshold[s.role]
    /\ Cardinality(Publics(Qualifying(p, s))) >= p.threshold[s.role]
    /\ Cardinality(Identities(p, Qualifying(p, s))) >= p.threshold[s.role]

Verified(p, s, role, now) ==
    /\ Loads(p, now)
    /\ s.role = role
    /\ Enough(p, s)
    /\ s.policy = p.id
    /\ s.issuer \in Actors(Qualifying(p, s))

(* VerifiedStatement.production_qualified.                                  *)
ProductionQualified(p, s) == p.mode = "PRODUCTION" /\ s.sound
=============================================================================
