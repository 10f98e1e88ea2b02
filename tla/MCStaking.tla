----------------------------- MODULE MCStaking -----------------------------
(* The stake ledger (Staking), the loop that turns stakes into voting power *)
(* (VotingPower) and the rows of the registries (Registry).  Staking calls  *)
(* the loop as one function, on the stakes its boundary block finds, and    *)
(* keeps an operator as one row; here the loop also runs by itself, on      *)
(* every distribution of stakes, and the registries with all their rows, so *)
(* a behaviour is of one of the three.                                      *)
(*                                                                         *)
(* Three addresses, two of them validators at genesis, and room for two in *)
(* the set: a newcomer has to overtake somebody.  The rates are chosen so  *)
(* that small amounts divide.  The power loop runs on up to five addresses *)
(* with stakes that clamp one, two, three or none of them; the registries  *)
(* have two validators, operators, keys and holders, and one asset.        *)
EXTENDS Staking, VotingPower, Registry, TLC

CONSTANTS p, q

VARIABLE part      \* what this behaviour is of

partVars == <<vars, loopVars, registryVars, part>>

NoRegistry == rows = <<>> /\ view = <<>> /\ updates = NoUpdates /\ blocks = 0

PartInit ==
    \/ part = "ledger" /\ Init /\ stakes = <<>> /\ s = Start(<<>>) /\ NoRegistry
    \/ part = "power" /\ LoopInit /\ Init /\ NoRegistry
    \/ part = "registry" /\ RegistryInit /\ Init /\ stakes = <<>> /\ s = Start(<<>>)

PartNext ==
    \/ part = "ledger" /\ Next /\ UNCHANGED <<loopVars, registryVars, part>>
    \/ part = "power" /\ Iterate /\ UNCHANGED <<vars, registryVars, part>>
    \/ part = "registry" /\ RegistryNext /\ UNCHANGED <<vars, loopVars, part>>

PartSpec == PartInit /\ [][PartNext]_partVars

-----------------------------------------------------------------------------

MCParams ==
    [epoch_length |-> 2, unbonding_blocks |-> 3, attestation_required |-> FALSE,
     min_validator_set |-> 1, max_validator_set |-> 2, min_validator_stake |-> 2,
     reward_per_block |-> 1, action_fee |-> 2,
     equivocation_slash_bps |-> 5000, downtime_slash_bps |-> 10000,
     fee_proposer_bps |-> 5000, fee_treasury_bps |-> 0,
     challenger_reward_bps |-> 5000]

MCAddresses == 1 .. 5

MCStakes == {0, 1, 3, 10, 40}

\* No asset yet, or one older than the lists, with an owner who sold out.
MCOldBalances ==
    {[y \in Securities \X Holders |-> NoRow],
     [y \in Securities \X Holders |-> IF y[2] = p THEN 1 ELSE 0]}

\* Keys and operators are interchangeable: nothing else tells two apart.
MCSymmetry == Permutations(BlsKeys) \cup Permutations(Managers)
=============================================================================
