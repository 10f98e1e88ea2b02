---------------------------- MODULE VotingPower ----------------------------
(***************************************************************************)
(* The loop of assign_voting_power (core/primitives/src/validator_set.rs)  *)
(* as a specification: the variable s holds the loop's locals, and each    *)
(* step is one iteration (StakePower!Iteration).                           *)
(***************************************************************************)
EXTENDS StakePower

CONSTANTS
    Addresses,   \* the addresses that may validate
    Stakes       \* the stakes tried

VARIABLES
    stakes,      \* the argument: validator -> stake
    s            \* the loop's locals

ASSUME VotingPowerAssumption ==
    /\ Addresses \subseteq Nat /\ IsFiniteSet(Addresses)
    /\ Stakes \subseteq Nat

loopVars == <<stakes, s>>

-----------------------------------------------------------------------------

LoopInit ==
    /\ stakes \in UNION {[S -> Stakes] : S \in (SUBSET Addresses) \ {{}}}
    /\ s = Start(stakes)

Iterate ==
    /\ s.pool # {}
    /\ s' = Iteration(stakes, s)
    /\ UNCHANGED stakes

LoopSpec == LoopInit /\ [][Iterate]_loopVars

-----------------------------------------------------------------------------

\* Stake becomes power without loss and without a master.  The powers sum to
\* exactly TOTAL_VOTING_POWER, counting what is still to be given out, whatever
\* the rounding and however many passes of clamping and redistribution it takes:
\* a unit lost or minted would move every quorum.  And the result respects the
\* cap of power_cap, also after redistribution has pushed more power to those who
\* were under it, so with four validators or more nobody alone can hold back a
\* quorum.
PowerIsShared ==
    /\ SumOf(s.powers, DOMAIN stakes) + s.power = TOTAL_VOTING_POWER
    /\ s.pool = {} =>
          \A a \in DOMAIN stakes :
              /\ s.powers[a] <= power_cap(Cardinality(DOMAIN stakes))
              /\ Cardinality(DOMAIN stakes) >= 4 =>
                     TOTAL_VOTING_POWER - s.powers[a] >= QUORUM_POWER

\* The inductive invariant behind it.  While the loop runs, whoever left the pool
\* sits at the cap and nobody in the pool has been given anything; once it has
\* ended, all the power is given out, to nobody more than the cap.
LoopState(st, t) ==
    LET D == DOMAIN st
        cap == power_cap(Cardinality(D))
    IN  /\ D \in SUBSET Addresses /\ D # {} /\ st \in [D -> Nat]
        /\ t \in [powers : [D -> Nat], power : Nat, pool : SUBSET D]
        /\ t.pool # {} =>
              /\ \A a \in D : t.powers[a] = IF a \in t.pool THEN 0 ELSE cap
              /\ t.power + cap * (Cardinality(D) - Cardinality(t.pool)) = TOTAL_VOTING_POWER
        /\ t.pool = {} =>
              /\ t.power = 0 /\ SumOf(t.powers, D) = TOTAL_VOTING_POWER
              /\ \A a \in D : t.powers[a] <= cap

LoopInv == LoopState(stakes, s)

=============================================================================
