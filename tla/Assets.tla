------------------------------- MODULE Assets -------------------------------
(***************************************************************************)
(* The asset ledger as blocks execute it: the handlers of                  *)
(* arxd/runtime/src/asset.rs, token.rs and identity.rs over the circuits   *)
(* of RwaAsset and Identity, and over the permissionless tokens of         *)
(* circuits/token/src/lib.rs.                                              *)
(*                                                                         *)
(* Every action is one dispatch of a signed action in the block at height; *)
(* a handler that refuses is no step.  NextBlock is the commit, which      *)
(* writes the holders index, and the start of the next block.  Attestors   *)
(* come and go by executed proposals (Governance).                         *)
(*                                                                         *)
(* A handler belongs to one of the families Moves, Issuer, Locks,          *)
(* Corporate, Claims and Token, a commit to Blocks, and a behaviour takes  *)
(* at most budget[f] steps of each, chosen at the start from Budgets: the  *)
(* bound on the length of a run.                                           *)
(* Left out: nonces and action fees (Production), free text and sizes.     *)
(***************************************************************************)
EXTENDS RwaAsset

CONSTANTS
    token_create_fee,
    Regulated,    \* asset refs registered with RegisterAsset
    Tokens,       \* asset refs created with Token::Create
    Owner,        \* Owner[a]: the address the ref is derived from
    Metas,        \* the metadata assets are registered with
    Attestors,    \* addresses that are or become attestors
    GenesisNames, \* the names of those registered at genesis, None if not
    Grants,       \* [hash, topics, jurisdiction]: what attestors vouch for
    Amounts,      \* the amounts moved
    Limits,       \* [holders, balance, age] given to SetAssetLimits
    Ratios,       \* <<numerator, denominator>> of splits
    Uris,         \* the values metadata_uri is set to
    Native,       \* the native balance of a party
    BlocksPerDay,
    Budgets,      \* the budgets a behaviour may run with
    MaxHeight     \* no budget has as many blocks

-----------------------------------------------------------------------------
(* Tokens.  A token is a record of the same ledger as a regulated asset,   *)
(* with class "Token".  Here k also has k.native, the native balances, and *)
(* k.treasury, which takes the creation fee.                               *)

require_token(k, a) == k.assets[a] # None /\ k.assets[a].class = "Token"

require_creator(k, a, sender) == k.assets[a].issuer = sender

\* The creator counts as a holder.
token_track_holder(r, before, after) ==
    CASE before = 0 /\ after > 0 -> [r EXCEPT !.holder_count = @ + 1]
      [] before > 0 /\ after = 0 -> [r EXCEPT !.holder_count = Most(@ - 1, 0)]
      [] OTHER -> r

mint_into(k, a, to, amount) ==
    IF SupplyAllows(k.assets[a], amount)
    THEN [k EXCEPT
            !.assets[a] = [token_track_holder(@, k.bal[a][to], k.bal[a][to] + amount)
                            EXCEPT !.total_supply = @ + amount],
            !.bal[a][to] = @ + amount]
    ELSE None

\* The record is built, the initial supply is minted to the creator and the
\* fee goes to the treasury, or nothing happens.
token_apply_create(k, a, creator, initial_supply, max_supply, mintable) ==
    LET meta == [compliance_required |-> FALSE, required_claims |-> {},
                 allowed |-> None, max_supply |-> max_supply]
        created == [k EXCEPT !.assets[a] = Asset("Token", creator, meta, ~ mintable)]
        minted == IF initial_supply > 0
                  THEN mint_into(created, a, creator, initial_supply)
                  ELSE created
    IN  IF \/ k.assets[a] # None
           \/ initial_supply = 0 /\ ~ mintable
           \/ minted = None
           \/ k.native[creator] < token_create_fee
        THEN None
        ELSE [minted EXCEPT !.native[creator] = @ - token_create_fee,
                            !.treasury = @ + token_create_fee]

token_apply_mint(k, a, sender, to, amount) ==
    IF /\ require_token(k, a)
       /\ require_creator(k, a, sender)
       /\ ~ k.assets[a].issuance_locked
       /\ amount > 0
    THEN mint_into(k, a, to, amount)
    ELSE None

token_apply_transfer(k, a, from, to, amount) ==
    LET b == k.bal[a]
    IN  IF ~ require_token(k, a) \/ amount = 0 \/ b[from] < amount
        THEN None
        ELSE IF from = to
        THEN k
        ELSE [k EXCEPT
               !.assets[a] = token_track_holder(
                               token_track_holder(@, b[from], b[from] - amount),
                               b[to], b[to] + amount),
               !.bal[a][from] = @ - amount,
               !.bal[a][to] = @ + amount]

token_apply_burn(k, a, holder, amount) ==
    LET b == k.bal[a][holder]
    IN  IF require_token(k, a) /\ amount > 0 /\ b >= amount
        THEN [k EXCEPT
                !.assets[a] = [token_track_holder(@, b, b - amount)
                                EXCEPT !.total_supply = Most(@ - amount, 0)],
                !.bal[a][holder] = @ - amount]
        ELSE None

token_apply_renounce_mint(k, a, sender) ==
    IF require_token(k, a) /\ require_creator(k, a, sender)
    THEN [k EXCEPT !.assets[a].issuance_locked = TRUE]
    ELSE None

-----------------------------------------------------------------------------
(* The ledger *)

VARIABLES
    height,  \* the height of the block being executed
    l,       \* the ledger rows
    budget,  \* how many handlers of each family are left
    handed,  \* the assets whose issuer has changed
    burned   \* the assets whose issuer burned under a lock of its own

vars == <<height, l, budget, handed, burned>>

AllAssets == Regulated \cup Tokens

ASSUME AssetsAssumption ==
    /\ Regulated \cap Tokens = {}
    /\ Parties \subseteq Nat /\ Attestors \cap Parties = {}
    /\ BlocksPerDay > 0 /\ MAX_ASSET_HOLDERS > 0
    /\ 0 \notin Amounts /\ \A r \in Ratios : r[1] > 0 /\ r[2] > 0

GenesisAttestor(a) ==
    IF GenesisNames[a] = None THEN None ELSE AttestorRecord(GenesisNames[a], 0)

Init ==
    /\ height = 1
    /\ l = [attestors |-> [a \in Attestors |-> GenesisAttestor(a)],
            names |-> [s \in {Skeleton[n] : n \in Names} |->
                IF \E a \in Attestors : GenesisNames[a] # None /\ Skeleton[GenesisNames[a]] = s
                THEN CHOOSE a \in Attestors :
                        GenesisNames[a] # None /\ Skeleton[GenesisNames[a]] = s
                ELSE None],
            acct |-> [p \in Parties |-> NoAttestation],
            assets |-> [a \in AllAssets |-> None],
            bal |-> [a \in AllAssets |-> [p \in Parties |-> 0]],
            hs |-> [a \in AllAssets |-> [p \in Parties |-> NoHolderState]],
            holders |-> [a \in AllAssets |-> {}],
            native |-> [p \in Parties |-> Native],
            treasury |-> 0]
    /\ budget \in Budgets
    /\ handed = {}
    /\ burned = {}

-----------------------------------------------------------------------------
(* The handlers.                                                           *)

\* The ledger after a handler of family f, unless it refused.
Becomes(f, k) ==
    /\ budget[f] > 0
    /\ k # None
    /\ l' = k
    /\ budget' = [budget EXCEPT ![f] = @ - 1]
    /\ UNCHANGED height

NoGhost == UNCHANGED <<handed, burned>>

resolve_asset(a) == l.assets[a] # None /\ l.assets[a].class # "Token"

require_issuer(a, sender) == resolve_asset(a) /\ l.assets[a].issuer = sender

register_asset(a, meta) ==
    /\ l.assets[a] = None
    /\ Becomes("Issuer",
               [l EXCEPT !.assets[a] = RegisteredAsset("Regulated", Owner[a], meta)])
    /\ NoGhost

issue_asset(a, sender, amount) ==
    /\ resolve_asset(a)
    /\ Becomes("Moves", apply_issue(l, a, sender, amount))
    /\ NoGhost

transfer_asset(a, sender, to, amount) ==
    /\ resolve_asset(a)
    /\ Becomes("Moves", apply_compliant_transfer(l, a, sender, to, amount, height))
    /\ NoGhost

set_frozen(a, sender, frozen) ==
    /\ require_issuer(a, sender)
    /\ Becomes("Issuer", [l EXCEPT !.assets[a].frozen = frozen])
    /\ NoGhost

burn_asset(a, sender, amount) ==
    /\ require_issuer(a, sender)
    /\ Becomes("Moves", apply_burn(l, a, sender, amount))
    /\ burned' = IF holder_state(l, a, sender, height).amount > 0
                 THEN burned \cup {a} ELSE burned
    /\ UNCHANGED handed

set_holder_frozen(a, sender, holder, frozen) ==
    /\ require_issuer(a, sender)
    /\ Becomes("Locks", apply_set_holder_frozen(l, a, holder, frozen))
    /\ NoGhost

lock_holder_amount(a, sender, holder, amount, lock, expires) ==
    /\ require_issuer(a, sender)
    /\ expires # None => expires > height
    /\ Becomes("Locks", apply_lock_amount(l, a, holder, amount, lock, expires, height))
    /\ NoGhost

issuer_forced_transfer(a, sender, from, to, amount) ==
    /\ require_issuer(a, sender)
    /\ Becomes("Moves", apply_forced_transfer_with_lock(l, a, from, to, amount, height))
    /\ NoGhost

issue_asset_to(a, sender, to, amount) ==
    /\ require_issuer(a, sender)
    /\ Becomes("Moves", apply_issue_to(l, a, to, amount, height))
    /\ NoGhost

\* One way, and the cap becomes what is outstanding.
lock_issuance(a, sender) ==
    /\ require_issuer(a, sender)
    /\ Becomes("Issuer", [l EXCEPT !.assets[a].issuance_locked = TRUE,
                                   !.assets[a].max_supply = l.assets[a].total_supply])
    /\ NoGhost

\* The count of holders is left as it was.
transfer_issuer(a, sender, new_issuer) ==
    /\ require_issuer(a, sender)
    /\ Becomes("Issuer", [l EXCEPT !.assets[a].issuer = new_issuer])
    /\ handed' = IF new_issuer = sender THEN handed ELSE handed \cup {a}
    /\ UNCHANGED burned

set_limits(a, sender, limits) ==
    /\ require_issuer(a, sender)
    /\ limits.balance # 0
    /\ Becomes("Issuer", [l EXCEPT !.assets[a].max_holders = limits.holders,
                                   !.assets[a].max_balance = limits.balance,
                                   !.assets[a].max_age = limits.age])
    /\ NoGhost

set_metadata_uri(a, sender, uri) ==
    /\ require_issuer(a, sender)
    /\ Becomes("Issuer", [l EXCEPT !.assets[a].metadata_uri = uri])
    /\ NoGhost

set_private_claims(a, sender, enabled) ==
    /\ require_issuer(a, sender)
    /\ Becomes("Issuer", [l EXCEPT !.assets[a].private_claims = enabled])
    /\ NoGhost

record_claim_proof(a, sender, today) ==
    /\ resolve_asset(a)
    /\ l.assets[a].private_claims
    /\ verify_claim_proof(l, sender, l.assets[a], today, height \div BlocksPerDay)
    /\ Becomes("Claims", apply_record_claim_proof(l, a, sender, height))
    /\ NoGhost

recover_holder(a, sender, lost, replacement) ==
    /\ lost # replacement
    /\ require_issuer(a, sender)
    /\ Becomes("Moves", apply_recover(l, a, lost, replacement, height))
    /\ NoGhost

snapshot_holders(a, sender) ==
    /\ require_issuer(a, sender)
    /\ Becomes("Corporate", apply_snapshot(l, a, height))
    /\ NoGhost

\* The snapshot the action names by its height.
snapshot_at(a, h) == l.assets[a].snapshot # None /\ l.assets[a].snapshot.height = h

distribute(a, sender, h, payout, total) ==
    /\ require_issuer(a, sender)
    /\ snapshot_at(a, h)
    /\ l.assets[a].snapshot.total > 0
    /\ resolve_asset(payout)
    /\ Becomes("Corporate",
               apply_distribution(l, payout, sender, l.assets[a].snapshot, total, height))
    /\ NoGhost

redeem(a, sender, h) ==
    /\ require_issuer(a, sender)
    /\ snapshot_at(a, h)
    /\ l.assets[a].snapshot.total > 0
    /\ Becomes("Corporate", apply_redemption(l, a, l.assets[a].snapshot, height))
    /\ NoGhost

split(a, sender, h, ratio) ==
    /\ require_issuer(a, sender)
    /\ snapshot_at(a, h)
    /\ Becomes("Corporate",
               apply_split(l, a, l.assets[a].snapshot, ratio[1], ratio[2], height))
    /\ NoGhost

-----------------------------------------------------------------------------
(* Tokens.                                                                 *)

token_create(a, supply, max_supply, mintable) ==
    /\ Becomes("Token", token_apply_create(l, a, Owner[a], supply, max_supply, mintable))
    /\ NoGhost

token_mint(a, sender, to, amount) ==
    /\ Becomes("Token", token_apply_mint(l, a, sender, to, amount))
    /\ NoGhost

token_transfer(a, sender, to, amount) ==
    /\ Becomes("Token", token_apply_transfer(l, a, sender, to, amount))
    /\ NoGhost

token_burn(a, sender, amount) ==
    /\ Becomes("Token", token_apply_burn(l, a, sender, amount))
    /\ NoGhost

token_renounce_mint(a, sender) ==
    /\ Becomes("Token", token_apply_renounce_mint(l, a, sender))
    /\ NoGhost

-----------------------------------------------------------------------------
(* Attestors and attestations.                                             *)

grant_attestation(attestor, subject, g) ==
    /\ Becomes("Claims", apply_grant_attestation(l, attestor, subject, g.hash, g.topics,
                                                 g.jurisdiction, height))
    /\ NoGhost

revoke_attestation(attestor, subject) ==
    /\ Becomes("Claims", apply_revoke_attestation(l, attestor, subject))
    /\ NoGhost

verify_identity_credential(p, preimage) ==
    /\ Becomes("Claims", apply_verify_credential(l, p, preimage))
    /\ NoGhost

\* An executed proposal adds or removes an attestor.
AttestorVotedIn(a, name) ==
    /\ Becomes("Claims", apply_register_attestor(l, a, name, height))
    /\ NoGhost

AttestorVotedOut(a) ==
    /\ Becomes("Claims", apply_deregister_attestor(l, a))
    /\ NoGhost

\* The holders index after a block: a party is listed while it has a balance.
asset_index_updates(k) == [a \in AllAssets |-> {p \in Parties : k.bal[a][p] > 0}]

NextBlock ==
    /\ budget.Blocks > 0
    /\ height' = height + 1
    /\ l' = [l EXCEPT !.holders = asset_index_updates(l)]
    /\ budget' = [budget EXCEPT !.Blocks = @ - 1]
    /\ UNCHANGED <<handed, burned>>

-----------------------------------------------------------------------------
Expiries == {None} \cup (2 .. MaxHeight)

\* What moves units of a regulated asset.
MoveStep(a, s) ==
    \E amount \in Amounts :
        \/ issue_asset(a, s, amount)
        \/ burn_asset(a, s, amount)
        \/ \E to \in Parties :
              \/ transfer_asset(a, s, to, amount)
              \/ issue_asset_to(a, s, to, amount)
              \/ \E from \in Parties : issuer_forced_transfer(a, s, from, to, amount)

\* What its issuer sets, on the asset or on a holder.
ControlStep(a, s) ==
    \/ \E flag \in BOOLEAN :
          \/ set_frozen(a, s, flag)
          \/ set_private_claims(a, s, flag)
          \/ \E p \in Parties : set_holder_frozen(a, s, p, flag)
    \/ \E p \in Parties, amount \in Amounts, lock \in BOOLEAN, e \in Expiries :
          /\ ~ lock => e = None
          /\ lock_holder_amount(a, s, p, amount, lock, e)
    \/ lock_issuance(a, s)
    \/ \E limits \in Limits : set_limits(a, s, limits)
    \/ \E uri \in Uris : set_metadata_uri(a, s, uri)
    \/ \E p \in Parties :
          \/ transfer_issuer(a, s, p)
          \/ \E q \in Parties : recover_holder(a, s, p, q)

\* What happens to all holders of a snapshot, and the proofs of claims.
CorporateStep(a, s) ==
    \/ snapshot_holders(a, s)
    \/ \E h \in 1 .. MaxHeight :
          \/ redeem(a, s, h)
          \/ \E ratio \in Ratios : split(a, s, h, ratio)
          \/ \E payout \in Regulated, amount \in Amounts : distribute(a, s, h, payout, amount)
    \/ \E today \in 0 .. (MaxHeight \div BlocksPerDay + 1) : record_claim_proof(a, s, today)

AssetStep(a, s) == MoveStep(a, s) \/ ControlStep(a, s) \/ CorporateStep(a, s)

TokenStep(a, s) ==
    \/ \E amount \in Amounts :
          \/ token_burn(a, s, amount)
          \/ \E to \in Parties :
                token_mint(a, s, to, amount) \/ token_transfer(a, s, to, amount)
    \/ token_renounce_mint(a, s)

IdentityStep(attestor) ==
    \/ \E p \in Parties :
          \/ \E g \in Grants : grant_attestation(attestor, p, g)
          \/ revoke_attestation(attestor, p)
    \/ \E name \in Names : AttestorVotedIn(attestor, name)
    \/ AttestorVotedOut(attestor)

Next ==
    \/ \E a \in Regulated, meta \in Metas : register_asset(a, meta)
    \/ \E a \in Tokens, supply \in Amounts \cup {0}, cap \in Amounts \cup {None},
          mintable \in BOOLEAN : token_create(a, supply, cap, mintable)
    \/ \E a \in AllAssets, s \in Parties : AssetStep(a, s) \/ TokenStep(a, s)
    \/ \E attestor \in Attestors : IdentityStep(attestor)
    \/ \E p \in Parties, c \in Credentials : verify_identity_credential(p, c)
    \/ NextBlock

Spec == Init /\ [][Next]_vars

-----------------------------------------------------------------------------
Registered == {a \in AllAssets : l.assets[a] # None}

\* The supply an asset's record shows is the sum of its balances, whatever
\* issues, burns, forced moves, recoveries and corporate actions did, and fits
\* the width of an amount.
SupplyIsHeld ==
    \A a \in AllAssets :
        IF a \in Registered
        THEN Sum(l.bal[a]) = l.assets[a].total_supply /\ l.assets[a].total_supply <= U128Max
        ELSE Sum(l.bal[a]) = 0


\* A lock that binds is covered by the balance it locks: it never catches
\* units the holder receives later.  An asset whose issuer burned units it had
\* locked itself is the exception (apply_burn does not look at locks).
LockIsCovered ==
    \A a \in Registered \ burned, p \in Parties :
        holder_state(l, a, p, height).amount <= l.bal[a][p]

\* A claim proof that opens the gate speaks for the credential the account
\* has now: the credential of the latest live grant holds what the asset
\* requires, although grants, proofs and revocations may share blocks and
\* attestors come and go.
ProvenHolderQualifies ==
    \A a \in Registered, p \in Parties :
        claim_proof_live(l, a, p, height) =>
            LET leaf == Leaf[l.acct[p].hash]
                mask == claims_mask(l.assets[a])
            IN  /\ mask \ {"RESIDENCY"} \subseteq leaf.claims
                /\ "RESIDENCY" \in mask => leaf.country \in l.assets[a].allowed

=============================================================================
