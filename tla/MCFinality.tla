----------------------------- MODULE MCFinality -----------------------------
(***************************************************************************)
(* Finality with three equal stakes, one of the validators faulty.         *)
(***************************************************************************)
EXTENDS Finality, TLC

CONSTANTS v1, v2, v3, b0, b1

\* assign_voting_power gives three equal stakes 3334, 3333 and 3333 units:
\* v1 with either of the others is a quorum, v2 and v3 are not.
MCOwner ==
    [u \in 1 .. 10000 |-> IF u <= 3334 THEN v1 ELSE IF u <= 6667 THEN v2 ELSE v3]

MCBlockRound == b0 :> 0 @@ b1 :> 1

\* The rotation gives round 0 to v3, the faulty one, and round 1 to v2.
MCBlockProposer == b0 :> v3 @@ b1 :> v2

=============================================================================
