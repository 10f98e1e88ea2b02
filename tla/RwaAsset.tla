------------------------------ MODULE RwaAsset ------------------------------
(***************************************************************************)
(* Regulated assets: circuits/rwa-asset/src/lib.rs.                        *)
(*                                                                         *)
(* Over Identity, a ledger k also has                                      *)
(*     k.assets   asset -> Asset record, None when not registered          *)
(*     k.bal      asset -> owner -> balance                                *)
(*     k.hs       asset -> owner -> HolderState                            *)
(*     k.holders  asset -> the holders index, as of the last commit        *)
(* Each apply_ operator returns the new ledger, or None where the code     *)
(* returns an error.  The record the code mutates and the overlay of       *)
(* staged balances are both the ledger that is passed along.               *)
(*                                                                         *)
(* Amounts are naturals up to U128Max.  A balance never exceeds the supply *)
(* (SupplyIsHeld in Assets), so only the checks on the supply and on       *)
(* products can meet the width.                                            *)
(***************************************************************************)
EXTENDS Identity, FiniteSets, SequencesExt

CONSTANTS
    Parties,            \* the addresses that issue and hold assets
    MAX_ASSET_HOLDERS,  \* ceiling on the holders of one asset
    ProofTtl,           \* CLAIM_PROOF_TTL_SECS in blocks
    U128Max             \* the largest amount

NoHolderState == [frozen |-> FALSE, amount |-> 0, expires |-> None, verified |-> None]

Least(a, b) == IF a < b THEN a ELSE b
Most(a, b) == IF a > b THEN a ELSE b

\* A record before anything is issued.  What the issuer supplies is meta.
Asset(class, issuer, meta, issuance_locked) ==
    [class |-> class, issuer |-> issuer,
     compliance_required |-> meta.compliance_required,
     required_claims |-> meta.required_claims, allowed |-> meta.allowed,
     max_supply |-> meta.max_supply, total_supply |-> 0, frozen |-> FALSE,
     issuance_locked |-> issuance_locked, max_holders |-> None, max_balance |-> None,
     max_age |-> None, holder_count |-> 0, snapshot |-> None,
     private_claims |-> FALSE, metadata_uri |-> None]

\* Asset::register.
RegisteredAsset(class, issuer, meta) == Asset(class, issuer, meta, FALSE)

-----------------------------------------------------------------------------
(* Who may hold.                                                           *)

\* The state as it binds at height h: an expired lock reads as none.
holder_state(k, a, p, h) ==
    LET s == k.hs[a][p]
    IN  IF s.expires # None /\ h >= s.expires
        THEN [s EXCEPT !.amount = 0, !.expires = None]
        ELSE s

\* Mutant of claim_proof_live: a grant in the proof's own block keeps it.
claim_proof_liveMutant(k, a, p, h) ==
    LET verified == k.hs[a][p].verified
        at == k.acct[p].at
    IN  /\ verified # None /\ at # None
        /\ at <= verified
        /\ is_attested(k, p)
        /\ h < verified + ProofTtl

\* The last accepted proof still speaks for the account: the attestation is
\* live and older than the proof, and the proof is young enough.
claim_proof_live(k, a, p, h) ==
    LET verified == k.hs[a][p].verified
        at == k.acct[p].at
    IN  /\ verified # None /\ at # None
        /\ at < verified
        /\ is_attested(k, p)
        /\ h < verified + ProofTtl

Proven(k, a, p, h) == k.assets[a].private_claims /\ claim_proof_live(k, a, p, h)

check_party(k, a, p, h) ==
    LET r == k.assets[a]
        e == k.acct[p]
    IN  /\ ~ holder_state(k, a, p, h).frozen
        /\ \/ Proven(k, a, p, h)
           \/ /\ r.required_claims # {}
              /\ is_attested(k, p)
              /\ r.required_claims \subseteq e.claims
           \/ /\ r.required_claims = {}
              /\ r.compliance_required => is_attested(k, p)
        /\ r.max_age # None => e.at # None /\ h - e.at <= r.max_age
        /\ r.allowed # None /\ ~ Proven(k, a, p, h) => e.jurisdiction \in r.allowed

\* The issuer's treasury is bound by neither limit.
check_recipient(k, a, to, amount, h) ==
    LET r == k.assets[a]
        cap == IF r.max_holders = None THEN MAX_ASSET_HOLDERS
               ELSE Least(r.max_holders, MAX_ASSET_HOLDERS)
    IN  /\ check_party(k, a, to, h)
        /\ to # r.issuer =>
             /\ ~ (k.bal[a][to] = 0 /\ amount > 0 /\ r.holder_count >= cap)
             /\ r.max_balance # None => k.bal[a][to] + amount <= r.max_balance

apply_record_claim_proof(k, a, p, h) ==
    IF k.acct[p].at # None /\ k.acct[p].at >= h
    THEN None
    ELSE [k EXCEPT !.hs[a][p].verified = h]

-----------------------------------------------------------------------------
(* Supply, balances and the count of holders.                              *)


track_holder(r, p, before, after) ==
    CASE p = r.issuer -> r
      [] p # r.issuer /\ before = 0 /\ after > 0 -> [r EXCEPT !.holder_count = @ + 1]
      [] p # r.issuer /\ before > 0 /\ after = 0 ->
            [r EXCEPT !.holder_count = Most(@ - 1, 0)]
      [] OTHER -> r

SupplyAllows(r, amount) ==
    /\ r.total_supply + amount <= U128Max
    /\ r.max_supply # None => r.total_supply + amount <= r.max_supply

\* Self-minting into the treasury; a frozen asset may still issue this way.
apply_issue(k, a, sender, amount) ==
    IF /\ sender = k.assets[a].issuer
       /\ ~ k.assets[a].issuance_locked
       /\ SupplyAllows(k.assets[a], amount)
    THEN [k EXCEPT !.assets[a].total_supply = @ + amount,
                   !.bal[a][sender] = @ + amount]
    ELSE None

apply_issue_to(k, a, to, amount, h) ==
    IF /\ ~ k.assets[a].issuance_locked
       /\ ~ k.assets[a].frozen
       /\ check_recipient(k, a, to, amount, h)
       /\ SupplyAllows(k.assets[a], amount)
    THEN [k EXCEPT
            !.assets[a] = [track_holder(@, to, k.bal[a][to], k.bal[a][to] + amount)
                            EXCEPT !.total_supply = @ + amount],
            !.bal[a][to] = @ + amount]
    ELSE None

\* Mutant of apply_forced_transfer: a move to oneself is computed like any
\* other, and the credit overwrites the debit.
apply_forced_transferMutant(k, a, from, to, amount) ==
    LET b == k.bal[a]
    IN  IF b[from] < amount
        THEN None
        ELSE [k EXCEPT !.bal[a][from] = b[from] - amount,
                       !.bal[a][to] = b[to] + amount]

\* The unchecked mover: only the balance is looked at.
apply_forced_transfer(k, a, from, to, amount) ==
    LET b == k.bal[a]
    IN  CASE b[from] < amount -> None
          [] b[from] >= amount /\ to = from -> k
          [] b[from] >= amount /\ to # from ->
               [k EXCEPT
                 !.assets[a] = track_holder(track_holder(@, from, b[from], b[from] - amount),
                                            to, b[to], b[to] + amount),
                 !.bal[a][from] = @ - amount,
                 !.bal[a][to] = @ + amount]

\* The compliance half of a move.
check_move(k, a, from, to, amount, h) ==
    /\ ~ k.assets[a].frozen
    /\ check_party(k, a, from, h)
    /\ check_recipient(k, a, to, amount, h)

\* The balance half: locked units stay.
move_checked(k, a, from, to, amount, h) ==
    LET locked == holder_state(k, a, from, h).amount
    IN  IF locked > 0 /\ amount > Most(k.bal[a][from] - locked, 0)
        THEN None
        ELSE apply_forced_transfer(k, a, from, to, amount)

apply_compliant_transfer(k, a, from, to, amount, h) ==
    IF check_move(k, a, from, to, amount, h)
    THEN move_checked(k, a, from, to, amount, h)
    ELSE None

apply_burn(k, a, issuer, amount) ==
    IF amount <= k.bal[a][issuer] /\ amount <= k.assets[a].total_supply
    THEN [k EXCEPT !.assets[a].total_supply = @ - amount,
                   !.bal[a][issuer] = @ - amount]
    ELSE None

-----------------------------------------------------------------------------
(* Holder states.                                                          *)

\* The stored state, an expired lock included.
apply_set_holder_frozen(k, a, p, frozen) == [k EXCEPT !.hs[a][p].frozen = frozen]

apply_lock_amount(k, a, p, amount, lock, expires, h) ==
    LET s == holder_state(k, a, p, h)
    IN  CASE lock /\ s.amount + amount > k.bal[a][p] -> None
          [] lock /\ s.amount + amount <= k.bal[a][p] ->
               [k EXCEPT !.hs[a][p] =
                   [s EXCEPT !.amount = @ + amount, !.expires = expires]]
          [] ~ lock /\ amount > s.amount -> None
          [] ~ lock /\ amount <= s.amount ->
               [k EXCEPT !.hs[a][p] =
                   [s EXCEPT !.amount = @ - amount,
                             !.expires = IF s.amount = amount THEN None ELSE @]]

\* The lock of a holder whose units moved without its signature: scaled by a
\* split, then held to what is left.  None when the product has no room.
adjusted_lock(k, a, p, numerator, denominator, h) ==
    LET s == holder_state(k, a, p, h)
        scaled == (s.amount * numerator) \div denominator
        locked == Least(scaled, k.bal[a][p])
    IN  CASE s.amount = 0 \/ (s.amount * numerator <= U128Max /\ locked = s.amount) -> k
          [] s.amount > 0 /\ s.amount * numerator > U128Max -> None
          [] OTHER -> [k EXCEPT !.hs[a][p] =
                         [s EXCEPT !.amount = locked,
                                   !.expires = IF locked = 0 THEN None ELSE @]]

\* Mutant of apply_forced_transfer_with_lock: the lock is left as it is.
apply_forced_transfer_with_lockMutant(k, a, from, to, amount, h) ==
    apply_forced_transfer(k, a, from, to, amount)

apply_forced_transfer_with_lock(k, a, from, to, amount, h) ==
    LET moved == apply_forced_transfer(k, a, from, to, amount)
    IN  IF moved = None \/ from = to
        THEN moved
        ELSE adjusted_lock(moved, a, from, 1, 1, h)

\* The expiry of two locks put together: the later of two terms, or the one
\* term there is.
MergedExpiry(x, y) ==
    CASE x # None /\ y # None -> Most(x, y)
      [] x # None /\ y = None -> x
      [] x = None -> y

apply_recover(k, a, lost, replacement, h) ==
    LET b == k.bal[a]
        ls == holder_state(k, a, lost, h)
        rs == holder_state(k, a, replacement, h)
    IN  IF ~ check_recipient(k, a, replacement, b[lost], h)
        THEN None
        ELSE [k EXCEPT
               !.assets[a] = track_holder(track_holder(@, lost, b[lost], 0),
                                replacement, b[replacement], b[replacement] + b[lost]),
               !.bal[a][lost] = 0,
               !.bal[a][replacement] = @ + b[lost],
               !.hs[a][lost] = NoHolderState,
               !.hs[a][replacement] =
                   [rs EXCEPT !.amount = @ + ls.amount,
                              !.expires = MergedExpiry(@, ls.expires),
                              !.frozen = @ \/ ls.frozen]]

-----------------------------------------------------------------------------
(* Corporate actions.  A cap table is the balances of the holders listed;  *)
(* they are gone through in address order, and the first that fails fails  *)
(* the whole action.                                                       *)

Sum(f) == FoldLeft(LAMBDA x, p : x + f[p], 0, SetToSeq(DOMAIN f))

\* The holders index is that of the last commit, the balances are the
\* block's own.
apply_snapshot(k, a, h) ==
    LET listed == {p \in k.holders[a] : p # k.assets[a].issuer /\ k.bal[a][p] > 0}
        table == [p \in listed |-> k.bal[a][p]]
    IN  [k EXCEPT !.assets[a].snapshot =
            [height |-> h, total |-> Sum(table), holders |-> table]]

ForEachHolder(Step(_, _), k, table) ==
    FoldLeft(LAMBDA x, p : IF x = None THEN None ELSE Step(x, p),
             k, SetToSortSeq(DOMAIN table.holders, <))

pro_rata(table, holding, total) ==
    IF holding * total <= U128Max THEN (holding * total) \div table.total ELSE None

\* A holder the payout asset refuses is passed over; any other error fails
\* the action.
apply_distribution(k, payout, issuer, table, total, h) ==
    LET Pay(x, p) ==
          LET share == pro_rata(table, table.holders[p], total)
          IN  CASE share = None -> None
                [] share # None /\ share = 0 -> x
                [] share # None /\ share > 0 ->
                     CASE x.assets[payout].frozen -> None
                       [] OTHER ->
                         IF ~ check_party(x, payout, issuer, h)
                         THEN IF p = issuer THEN x ELSE None
                         ELSE IF check_recipient(x, payout, p, share, h)
                              THEN move_checked(x, payout, issuer, p, share, h)
                              ELSE x
    IN  ForEachHolder(Pay, k, table)

ClearSnapshot(k, a) == IF k = None THEN None ELSE [k EXCEPT !.assets[a].snapshot = None]

apply_redemption(k, a, table, h) ==
    LET Redeem(x, p) ==
          LET moved == apply_forced_transfer(x, a, p, x.assets[a].issuer, table.holders[p])
          IN  IF moved = None THEN None ELSE adjusted_lock(moved, a, p, 1, 1, h)
    IN  ClearSnapshot(ForEachHolder(Redeem, k, table), a)

apply_split(k, a, table, numerator, denominator, h) ==
    LET Scale(x, p) ==
          LET held == table.holders[p]
              scaled == (held * numerator) \div denominator
              moved == IF scaled > held
                       THEN apply_issue_to(x, a, p, scaled - held, h)
                       ELSE apply_forced_transfer(x, a, p, x.assets[a].issuer, held - scaled)
          IN  IF held * numerator > U128Max \/ moved = None
              THEN None
              ELSE adjusted_lock(moved, a, p, numerator, denominator, h)
    IN  ClearSnapshot(ForEachHolder(Scale, k, table), a)
=============================================================================
