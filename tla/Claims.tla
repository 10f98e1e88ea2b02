------------------------------- MODULE Claims -------------------------------
(***************************************************************************)
(* Credential claims: what an asker may ask (parse_claims), what the        *)
(* Groth16 statements constrain (circuits/identity-zk), and what a wallet   *)
(* checks before it proves.  A proof verifies exactly when a witness        *)
(* satisfies the statement's constraints; the proof system itself, the      *)
(* field and the hash are not modelled.                                     *)
(*                                                                         *)
(* A credential is its leaf: the leaf hash determines the holder's secret   *)
(* and the opening it commits to.  The live leaves form the anonymity tree, *)
(* a binary tree of fixed depth whose missing leaves are zero: the node     *)
(* keeps one and updates it in place, wallets rebuild it from the served    *)
(* leaves and prove membership by a sibling path.  A Poseidon hash is the   *)
(* tuple of what it hashes, so it is injective.                             *)
(***************************************************************************)
EXTENDS Integers, Sequences, FiniteSets, SequencesExt

-----------------------------------------------------------------------------
(* The anonymity tree *)

CONSTANTS TreeDepth,    \* ATTESTED_TREE_DEPTH
          Zero          \* the empty leaf

ASSUME TreeAssumption == TreeDepth \in Nat \ {0}

poseidon_pair(left, right) == <<left, right>>

\* The root of an empty subtree of each height.
zeros[d \in 0..TreeDepth] ==
    IF d = 0 THEN Zero ELSE poseidon_pair(zeros[d - 1], zeros[d - 1])

\* The node at `i` of a level, or the empty subtree where the level ends.
NodeAt(level, i, d) == IF i <= Len(level) THEN level[i] ELSE zeros[d]

Parents(level, d) ==
    [i \in 1..((Len(level) + 1) \div 2) |->
        poseidon_pair(level[2 * i - 1], NodeAt(level, 2 * i, d))]

Fits(leaves) == Len(leaves) <= 2 ^ TreeDepth

\* The levels of the tree, leaves first.
from_leaves(leaves) ==
    LET levels[d \in 0..TreeDepth] ==
            IF d = 0 THEN leaves ELSE Parents(levels[d - 1], d - 1)
    IN  levels

root(tree) == NodeAt(tree[TreeDepth], 1, TreeDepth)

\* The position, one level up for each d, of the leaf at i.
Above(i, d) == ((i - 1) \div (2 ^ d)) + 1

\* Replaces a leaf and recomputes only its ancestors.
replace_leaf(tree, i, value) ==
    LET levels[d \in 0..TreeDepth] ==
            IF d = 0 THEN [tree[0] EXCEPT ![i] = value]
            ELSE LET left == 2 * Above(i, d) - 1
                 IN  [tree[d] EXCEPT ![Above(i, d)] =
                         poseidon_pair(levels[d - 1][left],
                                       NodeAt(levels[d - 1], left + 1, d - 1))]
    IN  levels

Sibling(i) == IF i % 2 = 1 THEN i + 1 ELSE i - 1

path(tree, i) == [d \in 0..(TreeDepth - 1) |-> NodeAt(tree[d], Sibling(Above(i, d)), d)]

\* Folds a leaf up its sibling path; also what the circuit's merkle_gadget
\* constrains.
root_from_path(leaf, i, siblings) ==
    LET node[d \in 0..TreeDepth] ==
            IF d = 0 THEN leaf
            ELSE IF Above(i, d - 1) % 2 = 1
                 THEN poseidon_pair(node[d - 1], siblings[d - 1])
                 ELSE poseidon_pair(siblings[d - 1], node[d - 1])
    IN  node[TreeDepth]

-----------------------------------------------------------------------------
(* The calendar arithmetic behind an age claim: "at least n years old        *)
(* today" becomes the latest admissible birth day.  Days are counted from    *)
(* 1970-01-01; credentials count them from 1900-01-01.                       *)

CREDENTIAL_EPOCH_OFFSET_DAYS == 25567

\* Years run from March, so a leap day ends its year.
civil_from_days(days) ==
    LET z == days + 719468
        era == z \div 146097
        doe == z - era * 146097
        yoe == (doe - doe \div 1460 + doe \div 36524 - doe \div 146096) \div 365
        doy == doe - (365 * yoe + yoe \div 4 - yoe \div 100)
        mp == (5 * doy + 2) \div 153
        month == IF mp < 10 THEN mp + 3 ELSE mp - 9
    IN  [year |-> yoe + era * 400 + (IF month <= 2 THEN 1 ELSE 0),
         month |-> month,
         day |-> doy - (153 * mp + 2) \div 5 + 1]

days_from_civil(year, month, day) ==
    LET y == IF month <= 2 THEN year - 1 ELSE year
        era == y \div 400
        yoe == y - era * 400
        m == IF month > 2 THEN month - 3 ELSE month + 9
        doy == (153 * m + 2) \div 5 + day - 1
    IN  era * 146097 + yoe * 365 + yoe \div 4 - yoe \div 100 + doy - 719468

Leap(year) == year % 4 = 0 /\ (year % 100 # 0 \/ year % 400 = 0)

\* The birth day of someone who turns `age` on credential day `today`; a leap
\* day falls back to the 28th.
age_cutoff(today, age) ==
    LET date == civil_from_days(today - CREDENTIAL_EPOCH_OFFSET_DAYS)
        earlier == date.year - age
        day == IF date.month = 2 /\ date.day = 29 /\ ~Leap(earlier) THEN 28 ELSE date.day
    IN  days_from_civil(earlier, date.month, day) + CREDENTIAL_EPOCH_OFFSET_DAYS

-----------------------------------------------------------------------------
(* The reference the arithmetic is checked against: a calendar counted one  *)
(* day at a time.                                                           *)

DaysIn(year, month) ==
    CASE month = 2 -> IF Leap(year) THEN 29 ELSE 28
      [] month \in {4, 6, 9, 11} -> 30
      [] OTHER -> 31

NextDay(d) ==
    IF d.day < DaysIn(d.year, d.month) THEN [d EXCEPT !.day = @ + 1]
    ELSE IF d.month < 12 THEN [d EXCEPT !.month = @ + 1, !.day = 1]
    ELSE [year |-> d.year + 1, month |-> 1, day |-> 1]

\* From the 1st of January 1970, over `days`: each day is the calendar's next one
\* and converts back to its number.
CalendarIsExact(days) ==
    /\ civil_from_days(0) = [year |-> 1970, month |-> 1, day |-> 1]
    /\ \A d \in days :
         LET date == civil_from_days(d)
         IN  /\ civil_from_days(d + 1) = NextDay(date)
             /\ days_from_civil(date.year, date.month, date.day) = d

-----------------------------------------------------------------------------
(* Claims *)

CONSTANTS Creds,        \* credential leaves
          Secret,       \* the id secret a leaf's commitment is made from
          Opening,      \* the CredentialOpening a leaf commits to
          Members,      \* group root -> the secrets whose commitments are in it
          NoCountry,    \* the zero country code
          NoGroup,      \* no group asked for, or none in the opening
          Refused       \* a request parse_claims turns down

KYC == "kyc"
AML == "aml"
ACCREDITED == "accredited"
AGE == "age"
RESIDENCY == "residency"
MEMBERSHIP == "membership"

Ages == {13, 16, 18, 21}

-----------------------------------------------------------------------------
(* Requests *)

\* One claim string: its kind, with the age, the codes or the group it names.
Flag(kind) == [kind |-> kind]
age_gte(n) == [kind |-> AGE, n |-> n]
resident_in_any(codes) == [kind |-> RESIDENCY, codes |-> codes]
member_of(group) == [kind |-> MEMBERSHIP, group |-> group]

NoClaims == [mask |-> {}, age |-> 0, countries |-> {}, group |-> NoGroup]

\* The country codes asked for so far, intersected with one more list.
Narrowed(acc, codes) ==
    IF RESIDENCY \in acc.mask THEN acc.countries \cap codes ELSE codes

\* One turn of the loop.
AddClaim(acc, claim) ==
    IF acc = Refused THEN Refused
    ELSE CASE claim.kind = AGE ->
                IF claim.n \notin Ages THEN Refused
                ELSE [acc EXCEPT !.mask = @ \cup {AGE},
                                 !.age = IF claim.n > @ THEN claim.n ELSE @]
           [] claim.kind = RESIDENCY ->
                IF claim.codes = {} \/ NoCountry \in claim.codes THEN Refused
                ELSE [acc EXCEPT !.countries = Narrowed(acc, claim.codes),
                                 !.mask = @ \cup {RESIDENCY}]
           [] claim.kind = MEMBERSHIP ->
                IF acc.group \notin {NoGroup, claim.group} THEN Refused
                ELSE [acc EXCEPT !.mask = @ \cup {MEMBERSHIP}, !.group = claim.group]
           [] OTHER -> [acc EXCEPT !.mask = @ \cup {claim.kind}]

\* A list of claims as one predicate, or Refused.
parse_claims(claims) ==
    LET parsed == FoldLeft(AddClaim, NoClaims, claims)
    IN  IF parsed = Refused THEN Refused
        ELSE IF RESIDENCY \in parsed.mask /\ parsed.countries = {} THEN Refused
        ELSE parsed

-----------------------------------------------------------------------------
(* Statements *)

\* Hashes of a secret and a scope are the pair.
derive_sub(secret, scope) == <<secret, scope>>

asker_scope(account) == <<"asker", account>>

asset_scope(asset) == <<"asset", asset>>

\* The allowed-country tree is padded with zero leaves, so membership is being a
\* leaf that is not the zero country.
CountryAllowed(country, countries) == country \in countries /\ country # NoCountry

\* PredicateCircuit's constraints on public inputs p and witness w.
PredicateHolds(p, w) ==
    LET o == Opening[w.leaf]
        requested == p.mask # {}
    IN  /\ p.sub = derive_sub(Secret[w.leaf], p.scope)
        /\ KYC \in p.mask => o.kyc
        /\ AML \in p.mask => o.aml
        /\ ACCREDITED \in p.mask => o.accredited
        /\ requested => root_from_path(w.leaf, w.leaf_index, w.leaf_path) = p.merkle_root
        /\ requested => o.expiry > p.today
        /\ AGE \in p.mask => p.age \in Ages /\ o.birth <= p.cutoff
        /\ RESIDENCY \in p.mask => CountryAllowed(o.country, p.countries)
        /\ MEMBERSHIP \in p.mask => /\ o.membership = p.group
                                    /\ Secret[w.leaf] \in Members[p.group]

-----------------------------------------------------------------------------
(* Claim proofs for an asset's gate *)

asset_claim_public(leaf, asset, mask, countries, today) ==
    [sub |-> derive_sub(Secret[leaf], asset_scope(asset)), scope |-> asset_scope(asset),
     mask |-> mask, age |-> 0, countries |-> countries, group |-> NoGroup,
     merkle_root |-> root(from_leaves(<<leaf>>)), today |-> today, cutoff |-> 0]

check_asset_claim(o, mask, countries, today) ==
    /\ mask # {} /\ mask \subseteq {KYC, AML, ACCREDITED, RESIDENCY}
    /\ KYC \in mask => o.kyc
    /\ AML \in mask => o.aml
    /\ ACCREDITED \in mask => o.accredited
    /\ o.expiry > today
    /\ RESIDENCY \in mask => o.country # NoCountry /\ o.country \in countries

\* prove_asset_claim's witness: the holder's own leaf as a one-leaf tree.
AssetWitness(leaf) ==
    [leaf |-> leaf, leaf_index |-> 1, leaf_path |-> path(from_leaves(<<leaf>>), 1)]

-----------------------------------------------------------------------------
(* What the pure parts promise, for TLC to evaluate on small inputs *)

\* What one claim says of a credential, on its own.
Meets(leaf, claim, today) ==
    LET o == Opening[leaf]
    IN  CASE claim.kind = KYC -> o.kyc
          [] claim.kind = AML -> o.aml
          [] claim.kind = ACCREDITED -> o.accredited
          [] claim.kind = AGE -> claim.n \in Ages /\ o.birth <= age_cutoff(today, claim.n)
          [] claim.kind = RESIDENCY -> CountryAllowed(o.country, claim.codes)
                                         /\ NoCountry \notin claim.codes
          [] claim.kind = MEMBERSHIP -> o.membership = claim.group
                                          /\ Secret[leaf] \in Members[claim.group]

\* A parsed request asks for the conjunction of its claims, no more and no less:
\* a live credential satisfies the statement exactly when it meets every claim,
\* and only requests no credential could meet are refused (parse_claims,
\* age_cutoff, PredicateCircuit).
ParsedMeansAll(lists, today) ==
    \A claims \in lists, leaf \in Creds :
        LET q == parse_claims(claims)
            p == [sub |-> derive_sub(Secret[leaf], asker_scope("asker")),
                  scope |-> asker_scope("asker"), mask |-> q.mask, age |-> q.age,
                  countries |-> q.countries, group |-> q.group,
                  merkle_root |-> root(from_leaves(<<leaf>>)), today |-> today,
                  cutoff |-> IF q.age = 0 THEN 0 ELSE age_cutoff(today, q.age)]
        IN  Opening[leaf].expiry > today =>
              ((\A i \in DOMAIN claims : Meets(leaf, claims[i], today))
                 <=> (q # Refused /\ PredicateHolds(p, AssetWitness(leaf))))

\* The wallet's check and the circuit agree on an asset's gate, so a wallet never
\* proves what the chain refuses, nor refuses what it could prove
\* (check_asset_claim, prove_asset_claim, asset_claim_public).
WalletAgrees(masks, allowed, today) ==
    \A leaf \in Creds, mask \in masks \ {{}}, countries \in allowed :
        check_asset_claim(Opening[leaf], mask, countries, today)
          <=> PredicateHolds(asset_claim_public(leaf, "asset", mask, countries, today),
                             AssetWitness(leaf))
=============================================================================
