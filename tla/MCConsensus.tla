---------------------------- MODULE MCConsensus ----------------------------
(***************************************************************************)
(* Consensus with four validators of equal power, one of them faulty.      *)
(***************************************************************************)
EXTENDS Consensus, TLC

CONSTANTS v1, v2, v3, v4, b1, b2

\* assign_voting_power gives four equal stakes 2500 units each.
MCOwner ==
    [u \in 1 .. 10000 |-> IF u <= 2500 THEN v1
                          ELSE IF u <= 5000 THEN v2
                          ELSE IF u <= 7500 THEN v3 ELSE v4]

\* The three honest validators are interchangeable, and so are the blocks.
Symmetry == Permutations({v1, v2, v3}) \cup Permutations({b1, b2})

=============================================================================
