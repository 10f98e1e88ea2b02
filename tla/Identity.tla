------------------------------ MODULE Identity ------------------------------
(***************************************************************************)
(* Attestors and attestations: circuits/identity/src/lib.rs and the rules  *)
(* of core/primitives/src/attestor.rs.                                     *)
(*                                                                         *)
(* The operators read and return a ledger k, a record with at least        *)
(*     k.attestors  address -> AttestorRecord, None when not registered    *)
(*     k.names      skeleton of a name -> the attestor that bears it       *)
(*     k.acct       address -> the attestation fields of its AccountEntry  *)
(* and return None where the code returns an error.                        *)
(*                                                                         *)
(* A credential is a member of Credentials.  Its hash is what a grant      *)
(* writes, so hash and credential are one value; Leaf gives the claims and *)
(* the country the credential's preimage holds, which the chain never      *)
(* sees, and a zero-knowledge proof is modelled by what it proves of them. *)
(***************************************************************************)
EXTENDS Integers

CONSTANTS
    Credentials,   \* identity hashes
    Leaf,          \* Leaf[c] = [claims, country, expires] of the preimage
    Names,         \* attestor names
    Skeleton,      \* Skeleton[n]: the name without case, spacing, lookalikes
    InvalidNames,  \* names refused for their length or characters
    Multisigs,     \* addresses that derive from 2 or more owners and a
                   \* threshold of at least 2
    None           \* an absent row or field

validate_attestor_name(name) == name \in Names \ InvalidNames

attestor_name_skeleton(name) == Skeleton[name]

validate_attestor_multisig(attestor) == attestor \in Multisigs

NoAttestation ==
    [hash |-> None, by |-> None, at |-> None, claims |-> {},
     jurisdiction |-> None, zk |-> FALSE]

is_attested(k, p) ==
    /\ k.acct[p].hash # None
    /\ k.acct[p].by # None => k.attestors[k.acct[p].by] # None

require_attestor(k, a) == k.attestors[a] # None

blocked(record) == record.self_blocked \/ record.removal_pending

AttestorRecord(name, h) ==
    [name |-> name, registered_at |-> h, self_blocked |-> FALSE,
     removal_pending |-> FALSE, cooldown |-> 0]

\* The record and the row that guards its name are written together.
apply_register_attestor(k, a, name, h) ==
    IF /\ validate_attestor_name(name)
       /\ validate_attestor_multisig(a)
       /\ k.attestors[a] = None
       /\ k.names[attestor_name_skeleton(name)] = None
    THEN [k EXCEPT
            !.attestors[a] = AttestorRecord(name, h),
            !.names[attestor_name_skeleton(name)] = a]
    ELSE None

apply_deregister_attestor(k, a) ==
    IF require_attestor(k, a)
    THEN [k EXCEPT
            !.attestors[a] = None,
            !.names[attestor_name_skeleton(k.attestors[a].name)] = None]
    ELSE None

apply_set_self_blocked(k, a, value) ==
    IF require_attestor(k, a)
    THEN [k EXCEPT !.attestors[a].self_blocked = value]
    ELSE None

apply_open_removal(k, a, h) ==
    IF /\ require_attestor(k, a)
       /\ ~ k.attestors[a].removal_pending
       /\ h >= k.attestors[a].cooldown
    THEN [k EXCEPT !.attestors[a].removal_pending = TRUE]
    ELSE None

\* An attestor that is gone leaves nothing to close.
apply_close_failed_removal(k, a, h, cooldown_blocks) ==
    IF k.attestors[a] = None
    THEN k
    ELSE [k EXCEPT !.attestors[a].removal_pending = FALSE,
                   !.attestors[a].cooldown = h + cooldown_blocks]

apply_grant_attestation(k, a, subject, hash, topics, jurisdiction, h) ==
    IF require_attestor(k, a) /\ ~ blocked(k.attestors[a])
    THEN [k EXCEPT !.acct[subject] =
            [hash |-> hash, by |-> a, at |-> h, claims |-> topics,
             jurisdiction |-> jurisdiction, zk |-> @.zk /\ @.hash = hash]]
    ELSE None

\* Any attestor may revoke; who granted stays recorded.
apply_revoke_attestation(k, a, subject) ==
    IF require_attestor(k, a)
    THEN [k EXCEPT !.acct[subject] = [NoAttestation EXCEPT !.by = @]]
    ELSE None

\* A proof that the sender knows the preimage of its own hash.
apply_verify_credential(k, p, preimage) ==
    IF k.acct[p].hash # None /\ preimage = k.acct[p].hash
    THEN [k EXCEPT !.acct[p].zk = TRUE]
    ELSE None

\* The public inputs the chain builds from the asset record: the claims asked
\* for.  The jurisdiction topic needs no bit, the country list has its own.
claims_mask(asset) ==
    (asset.required_claims \ {"JURISDICTION"})
        \cup (IF asset.allowed # None THEN {"RESIDENCY"} ELSE {})

\* The constraints of PredicateCircuit on the opening of the sender's own leaf:
\* it holds the claims asked for, its country is one of those allowed, and it
\* has not expired on the day the proof names.
PredicateHolds(mask, opening, countries, today) ==
    /\ mask \ {"RESIDENCY"} \subseteq opening.claims
    /\ mask # {} => today < opening.expires
    /\ "RESIDENCY" \in mask => opening.country # None /\ opening.country \in countries

\* A proof is accepted for a day at most one from the block's, and never for
\* an asset with nothing to prove.
verify_claim_proof(k, p, asset, today, day) ==
    /\ today - day \in -1 .. 1
    /\ is_attested(k, p)
    /\ claims_mask(asset) # {}
    /\ asset.allowed # {}
    /\ PredicateHolds(claims_mask(asset), Leaf[k.acct[p].hash], asset.allowed, today)
=============================================================================
