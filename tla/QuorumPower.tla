---------------------------- MODULE QuorumPower ----------------------------
(***************************************************************************)
(* Voting power and quorums (core/primitives/src/validator_set.rs).        *)
(*                                                                         *)
(* The powers of an active set sum to exactly TOTAL_VOTING_POWER units, so *)
(* a set is described by who owns each unit: a validator's power is the    *)
(* number of units it owns, and the power of a group of signers is the     *)
(* number of units its members own.  Signers are a set, as signed_power    *)
(* ignores duplicates, and a signer outside the set owns no unit.          *)
(***************************************************************************)
EXTENDS Integers, FiniteSets

CONSTANTS
    Validators,   \* the validator set in force at the height
    Faulty,       \* the validators that may do anything
    owner         \* the unit of voting power -> the validator holding it

TOTAL_VOTING_POWER == 10000

QUORUM_POWER == 6667

Units == 1 .. TOTAL_VOTING_POWER

signed_power(signers) == Cardinality({u \in Units : owner[u] \in signers})

\* The groups of validators whose power reaches QUORUM_POWER (written as an
\* image so that TLC computes the set once).
Quorums ==
    {S : S \in {T \in SUBSET Validators : signed_power(T) >= QUORUM_POWER}}

quorum_reached(signers) == signers \in Quorums

Honest == Validators \ Faulty

\* Less than a third of the power is faulty: what "at most f faults" is worth
\* in units (docs/consensus-safety.md, section 3).
ASSUME PowerAssumption ==
    /\ owner \in [Units -> Validators]
    /\ Faulty \subseteq Validators
    /\ signed_power(Faulty) <= TOTAL_VOTING_POWER - QUORUM_POWER

=============================================================================
