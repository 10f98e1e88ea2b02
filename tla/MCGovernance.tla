---- MODULE MCGovernance ----
(* Bounds for Governance: two validators, the set passing from one to the     *)
(* other at the second epoch, two attestors that want the same name, one block that may *)
(* be disputed and later faults of the same validator.                         *)
EXTENDS Governance

MCSets == [e \in 0 .. 3 |-> IF e = 0 THEN "v1" :> 10 ELSE "v2" :> 10]

MCParams ==
    [epoch_length |-> 3, voting_period_blocks |-> 1, proposal_quorum |-> 5,
     challenge_window_blocks |-> 3, unbonding_blocks |-> 9,
     attestor_removal_voting_blocks |-> 1, attestor_removal_cooldown_blocks |-> 2,
     attestor_apply_bond |-> 2, equivocation_slash_bps |-> 5000,
     challenger_reward_bps |-> 5000, canonical_builds |-> <<"old", "new">>]

MCAccounts == {"treasury", "pool", "a1", "a2", "v1", "v2"}

MCGenesis ==
    [attestors |-> [a \in {"a1", "a2"} |->
        IF a = "a1" THEN AttestorRecord("Acme", 0) ELSE None],
     names |-> [s \in {"acme"} |-> "a1"],
     bal |-> [x \in MCAccounts |-> IF x \in {"a2", "treasury"} THEN 2 ELSE 0],
     params |-> MCParams, proposals |-> <<>>, votes |-> {}, tombstoned |-> {},
     stake |-> [v \in {"v1", "v2"} |-> 8],
     disputes |-> [x \in {"h1"} |-> None], markers |-> {}]

MCProposable ==
    {[kind |-> "RemoveAttestor", attestor |-> "a1"],
     [kind |-> "UnblockAttestor", attestor |-> "a1"],
     [kind |-> "ReinstateValidator", validator |-> "v1"],
     [kind |-> "SetChainParams", params |-> [MCParams EXCEPT !.challenge_window_blocks = 4]],
     [kind |-> "ResolveDispute", header |-> "h1", forked |-> FALSE, cause |-> "Attack",
      bounty |-> 0, corrections |-> <<>>],
     [kind |-> "ResolveDispute", header |-> "h1", forked |-> FALSE, cause |-> "Bug",
      bounty |-> 1, corrections |-> <<<<"a1", 1>>>>]}

\* Keys p1 and p2 propose, b1 and b2 vote.  v1 signs two blocks at height 1 and
\* two precommits at height 2; v2 votes and proposes again in a later round, and
\* the same on another chain.
Block(h, r, p, root) == [height |-> h, round |-> r, proposer |-> p, root |-> root]
Vote(h, r, x) == PrecommitAttestation(h, r, x, x)
Dissent == DissentAttestation(1, "y", signing_bytes_for("here", Block(1, 0, "p1", "x")))
Post(x) == [pre |-> "x", post |-> x]

MCSigned ==
    [p1 |-> {signing_bytes_for("here", Block(1, 0, "p1", x)) : x \in {"x", "y"}}
            \cup {action_claim_signing_bytes("here", 1, 0, "t", Post("x"))},
     p2 |-> {signing_bytes_for("here", Block(2, r, "p2", "x")) : r \in 0 .. 1},
     b1 |-> {precommit_signing_bytes("here", Vote(2, 0, x)) : x \in {"x", "y"}},
     b2 |-> {prevote_signing_bytes("here", Vote(2, 0, "x")), prevote_signing_bytes("here", Vote(2, 1, "y")),
             prevote_signing_bytes("there", Vote(2, 0, "x")), prevote_signing_bytes("there", Vote(2, 0, "y")),
             dissent_signing_bytes("here", Dissent),
             action_claim_signing_bytes("here", 1, 0, "t", Post("y"))}]
MCKeyOwner == [p1 |-> "v1", b1 |-> "v1", p2 |-> "v2", b2 |-> "v2"]

At(kind, h, proposer, voter, genesis, items) ==
    Fault(kind, h, proposer, voter, genesis, items, 0, "t", "h1", "new", "p1")

MCFaults ==
    {At("BlockDivergence", 1, "p1", "b2", "here", <<>>),
     At("TwoBlocks", 1, "p1", "b2", "here", <<Block(1, 0, "p1", "x"), Block(1, 0, "p1", "y")>>),
     At("TwoBlocks", 2, "p2", "b2", "here", <<Block(2, 0, "p2", "x"), Block(2, 1, "p2", "x")>>),
     At("PrecommitEquivocation", 2, "p1", "b1", "here", <<Vote(2, 0, "x"), Vote(2, 0, "y")>>),
     At("PrevoteEquivocation", 2, "p1", "b2", "here", <<Vote(2, 0, "x"), Vote(2, 1, "y")>>),
     At("PrevoteEquivocation", 2, "p1", "b2", "here", <<Vote(2, 0, "x"), Vote(2, 0, "x")>>),
     At("PrevoteEquivocation", 2, "p1", "b2", "there", <<Vote(2, 0, "x"), Vote(2, 0, "y")>>),
     At("Equivocation", 1, "p1", "b2", "here", <<Block(1, 0, "p1", "x"), Block(1, 0, "p1", "y")>>),
     At("ExecutionDisagreement", 1, "p1", "b2", "here", <<Block(1, 0, "p1", "x"), Dissent>>),
     At("ActionDivergence", 1, "p1", "b2", "here", <<Post("x"), Post("y")>>)}

MCSkeleton == [n \in {"Acme", "ACME"} |-> "acme"]
MCApplications == {<<"a2", "ACME">>}
====
