----------------------------- MODULE Governance -----------------------------
(***************************************************************************)
(* Proposals, votes and their execution (circuits/governance), the attestor *)
(* registry they govern (Identity), and the evidence path that opens the   *)
(* disputes they resolve (arxd/runtime/src/consensus.rs).                  *)
(*                                                                         *)
(* Handlers read the view of the block being built, which holds every      *)
(* write of the block's earlier actions in order.  The block is committed  *)
(* kind by kind: registrations, then deregistrations, then governance rows *)
(* (core/executor).  An evidence marker and the dispute it opens reach the *)
(* ledger with the commit and are not in the view before it.  So a block b *)
(* is a record of the view and the writes whose order the commit changes.  *)
(*                                                                         *)
(* Evidence is checked as Artifact says; the replay behind a block's       *)
(* divergence is Adjudication's subject, its outcome given.  Fees and      *)
(* nonces are AccountPolicy's.                                             *)
(***************************************************************************)
EXTENDS Identity, Artifact, FiniteSets, Sequences, FiniteSetsExt, SequencesExt, TLC

CONSTANTS
    Validators,     \* addresses that stake
    Accounts,       \* addresses with a balance, "treasury" and "pool" included
    SetInForce,     \* SetInForce[e]: validator -> power, in epoch e
    GenesisLedger,  \* the first ledger
    Proposable,     \* governance actions someone may propose
    Applications,   \* <<applicant, name>> of attestor applications
    Faults,         \* evidence someone may submit
    Challengers,    \* accounts that submit evidence
    Genesis,        \* this chain's genesis hash
    KeyOwner,       \* signing key -> the validator that registered it, or None
    MaxHeight,      \* bound: blocks
    MaxProposals,   \* bound: proposals ever opened
    MaxActions      \* bound: actions that take effect, over all blocks

\* The parameters this circuit and the evidence path read.
ChainParams ==
    [epoch_length : Nat, unbonding_blocks : Nat, voting_period_blocks : Nat,
     proposal_quorum : Nat, equivocation_slash_bps : 0 .. 10000,
     challenge_window_blocks : Nat, challenger_reward_bps : 0 .. 10000,
     attestor_apply_bond : Nat, attestor_removal_voting_blocks : Nat,
     attestor_removal_cooldown_blocks : Nat, canonical_builds : Seq(STRING)]

\* A correction sets an account's balance.
GovernanceAction ==
    [kind : {"SetChainParams"}, params : ChainParams]
    \cup [kind : {"TreasurySpend"}, to : Accounts, amount : Nat]
    \cup [kind : {"ResolveDispute"}, header : DOMAIN GenesisLedger.disputes,
          forked : BOOLEAN, cause : {"Bug", "Attack"}, bounty : Nat,
          corrections : Seq(Accounts \X Nat)]
    \cup [kind : {"ReinstateValidator"}, validator : Validators]
    \cup [kind : {"AddAttestor"}, attestor : Accounts, name : Names]
    \cup [kind : {"RemoveAttestor", "UnblockAttestor"}, attestor : Accounts]

ASSUME GovernanceAssumption ==
    /\ GenesisLedger.params \in ChainParams
    /\ Proposable \subseteq GovernanceAction

VARIABLES
    tip,        \* height of the last committed block
    watermark,  \* final watermark: every height up to it is certified
    chain,      \* the committed ledger
    block,      \* the block being built on it
    count,      \* actions that took effect so far
    resolved,   \* history: headers whose dispute was resolved
    mixed       \* history: attestors whose record one block wrote both as a
                \* (de)registration and as a governance row

vars == <<tip, watermark, chain, block, count, resolved, mixed>>

Open(k, id) == k.proposals[id].status = "Open"

voting_power(k, who, h) ==
    LET set == SetInForce[h \div k.params.epoch_length]
    IN  IF who \in DOMAIN set THEN set[who] ELSE None

changes_epoch_length(k, p) == p.epoch_length # k.params.epoch_length

ValidParams(p) ==
    /\ p.epoch_length > 0
    /\ p.voting_period_blocks > 0
    /\ p.proposal_quorum <= 10
    /\ p.challenge_window_blocks > 0
    /\ p.challenge_window_blocks < p.unbonding_blocks

validate_action(a) ==
    CASE a.kind = "SetChainParams" -> ValidParams(a.params)
      [] a.kind = "AddAttestor"    -> /\ validate_attestor_name(a.name)
                                      /\ validate_attestor_multisig(a.attestor)
      [] a.kind = "TreasurySpend"  -> a.amount > 0 /\ a.to # "treasury"
      [] a.kind = "ResolveDispute" ->
            /\ a.forked => a.corrections = <<>>
            /\ a.cause = "Attack" => a.corrections = <<>> /\ a.bounty = 0
      [] OTHER -> TRUE

\* A record written as a governance row.
GovernanceRow(b, k, a) ==
    IF k = None THEN None
    ELSE [b EXCEPT !.view = k, !.gov = (a :> k.attestors[a]) @@ @]

\* What each attestor action needs before it is worth a vote; the block that a
\* removal raises starts with the proposal.
Prepare(b, a, h) ==
    CASE a.kind = "AddAttestor" ->
            IF apply_register_attestor(b.view, a.attestor, a.name, h) = None THEN None ELSE b
      [] a.kind = "RemoveAttestor" ->
            GovernanceRow(b, apply_open_removal(b.view, a.attestor, h), a.attestor)
      [] a.kind = "UnblockAttestor" -> IF require_attestor(b.view, a.attestor) THEN b ELSE None
      [] OTHER -> b

Proposal(proposer, a, ends, bond) ==
    [proposer |-> proposer, action |-> a, voting_ends_at |-> ends,
     yes |-> 0, no |-> 0, status |-> "Open", bond |-> bond]

open_proposal(b, proposer, a, h, bond) ==
    LET ready == Prepare(b, a, h)
        blocks == IF a.kind = "RemoveAttestor"
                  THEN b.view.params.attestor_removal_voting_blocks
                  ELSE b.view.params.voting_period_blocks
    IN  IF ready = None THEN None
        ELSE [ready EXCEPT !.view.proposals = Append(@, Proposal(proposer, a, h + blocks, bond))]

apply_submit(b, proposer, a, h) ==
    IF \/ voting_power(b.view, proposer, h) = None
       \/ ~ validate_action(a)
       \/ a.kind = "SetChainParams" /\ changes_epoch_length(b.view, a.params)
    THEN None
    ELSE open_proposal(b, proposer, a, h, 0)

Move(bal, from, to, amount) == [bal EXCEPT ![from] = @ - amount, ![to] = @ + amount]

apply_attestor_application(b, applicant, name, h) ==
    LET a == [kind |-> "AddAttestor", attestor |-> applicant, name |-> name]
        bond == b.view.params.attestor_apply_bond
    IN  IF \/ ~ validate_action(a)
           \/ apply_register_attestor(b.view, applicant, name, h) = None
           \/ b.view.bal[applicant] < bond
        THEN None
        ELSE open_proposal([b EXCEPT !.view.bal = Move(@, applicant, "treasury", bond)],
                           applicant, a, h, bond)

\* The treasury is shared: what is left of it, if less than the bond.
refund_bond(k, p) ==
    [k EXCEPT !.bal = Move(@, "treasury", p.proposer, Min({p.bond, @["treasury"]}))]

apply_vote(b, voter, id, approve, h) ==
    LET k == b.view
        power == voting_power(k, voter, h)
    IN  IF \/ power = None
           \/ ~ Open(k, id)
           \/ h >= k.proposals[id].voting_ends_at
           \/ <<id, voter>> \in k.votes
        THEN None
        ELSE [b EXCEPT
                !.view.votes = @ \cup {<<id, voter>>},
                !.view.proposals[id].yes = IF approve THEN @ + power ELSE @,
                !.view.proposals[id].no  = IF approve THEN @ ELSE @ + power]

slash_amount(total, bps) == (total * bps) \div 10000

\* The one slash of a tombstoning fault, a share of it to the challenger; None
\* when there is no allocation to take it from.
fault_slash(k, culprit, challenger) ==
    IF culprit \in k.tombstoned THEN k
    ELSE IF k.stake[culprit] = None THEN None
    ELSE LET taken == slash_amount(k.stake[culprit], k.params.equivocation_slash_bps)
             reward == slash_amount(taken, k.params.challenger_reward_bps)
         IN  [k EXCEPT !.stake[culprit] = IF @ = taken THEN None ELSE @ - taken,
                       !.bal = Move([@ EXCEPT !["pool"] = @ + taken], "pool", challenger, reward),
                       !.tombstoned = @ \cup {culprit}]

\* An Attack verdict slashes; one that finds no stake executes all the same.
SlashVerdict(k, open) ==
    LET slashed == fault_slash(k, open.culprit, open.challenger)
    IN  IF slashed = None THEN k ELSE slashed

Corrected(bal, corrections) ==
    FoldLeft(LAMBDA rows, c : [rows EXCEPT ![c[1]] = c[2]], bal, corrections)

\* The dispute's row is deleted, the challenger paid, the corrections written
\* over whatever balance the row has.
ResolveDispute(b, a) ==
    LET k == b.view
        open == k.disputes[a.header]
        paid == IF a.bounty = 0 THEN k.bal ELSE Move(k.bal, "treasury", open.challenger, a.bounty)
        settled == [k EXCEPT !.disputes[a.header] = None, !.bal = Corrected(paid, a.corrections)]
    IN  IF open = None THEN None
        ELSE IF \/ open.cause = "Bug" /\ a.cause = "Attack"
                \/ a.bounty > 0 /\ (k.bal["treasury"] < a.bounty \/ open.challenger = "treasury")
        THEN None
        ELSE [b EXCEPT !.view = IF a.cause = "Attack" THEN SlashVerdict(settled, open) ELSE settled]

\* The action of a proposal that passed; None where state has moved on and it
\* is rejected instead.
Enact(b, p, h) ==
    LET k == b.view
        a == p.action
        registered == apply_register_attestor(k, a.attestor, a.name, h)
        removed == apply_deregister_attestor(k, a.attestor)
    IN  CASE a.kind = "SetChainParams" ->
                IF changes_epoch_length(k, a.params) THEN None
                ELSE [b EXCEPT !.view.params = a.params]
          [] a.kind = "AddAttestor" ->
                IF registered = None THEN None
                ELSE [b EXCEPT !.view = refund_bond(registered, p),
                               !.reg = (a.attestor :> registered.attestors[a.attestor]) @@ @]
          [] a.kind = "RemoveAttestor" ->
                IF removed = None THEN None
                ELSE [b EXCEPT !.view = removed, !.dereg = @ \cup {a.attestor}]
          [] a.kind = "UnblockAttestor" ->
                GovernanceRow(b, apply_set_self_blocked(k, a.attestor, FALSE), a.attestor)
          [] a.kind = "TreasurySpend" ->
                IF k.bal["treasury"] < a.amount \/ a.to = "treasury" THEN None
                ELSE [b EXCEPT !.view.bal = Move(@, "treasury", a.to, a.amount)]
          [] a.kind = "ResolveDispute" -> ResolveDispute(b, a)
          [] a.kind = "ReinstateValidator" ->
                IF a.validator \notin k.tombstoned THEN None
                ELSE [b EXCEPT !.view.tombstoned = @ \ {a.validator},
                               !.reinstated = @ \cup {a.validator}]

\* A removal that did not remove lifts the block it raised.
CloseRemoval(b, a, h) ==
    LET k == apply_close_failed_removal(b.view, a.attestor, h,
                                        b.view.params.attestor_removal_cooldown_blocks)
    IN  IF b.view.attestors[a.attestor] = None THEN b ELSE GovernanceRow(b, k, a.attestor)

\* Mutant of Reject: the block stays when the proposal fails.
RejectMutant(b, id, h) == [b EXCEPT !.view.proposals[id].status = "Rejected"]

Reject(b, id, h) ==
    LET a == b.view.proposals[id].action
        closed == IF a.kind = "RemoveAttestor" THEN CloseRemoval(b, a, h) ELSE b
    IN  [closed EXCEPT !.view.proposals[id].status = "Rejected"]

apply_execute(b, id, h) ==
    LET p == b.view.proposals[id]
        passed == p.yes > p.no /\ p.yes >= b.view.params.proposal_quorum
        enacted == IF passed THEN Enact(b, p, h) ELSE None
    IN  IF ~ Open(b.view, id) \/ h < p.voting_ends_at THEN None
        ELSE IF enacted = None THEN Reject(b, id, h)
        ELSE [enacted EXCEPT !.view.proposals[id].status = "Executed"]

block_attestor(b, a) == GovernanceRow(b, apply_set_self_blocked(b.view, a, TRUE), a)

classify_build(params, build) ==
    LET known == params.canonical_builds
    IN  IF /\ known # <<>>
           /\ \/ build = known[Len(known)]
              \/ \A i \in DOMAIN known : known[i] # build
        THEN "Attack" ELSE "Bug"

Mark(b, height, culprit) == [b EXCEPT !.markers = @ \cup {<<height, culprit>>}]

Processed(k, height, culprit) == <<height, culprit>> \in k.markers

\* The slash a proven double signature brings, once per height and culprit.
Punish(b, height, culprit, challenger) ==
    LET slashed == fault_slash(b.view, culprit, challenger)
    IN  IF culprit = None \/ Processed(b.view, height, culprit) \/ slashed = None THEN None
        ELSE Mark([b EXCEPT !.view = slashed], height, culprit)

\* Two blocks, full records and not an artifact.
submit_equivocation_evidence(b, f, challenger) ==
    LET key == verify_equivocation(Genesis, f.items[1], f.items[2])
    IN  IF f.items[1].round # f.items[2].round \/ key = NoVerdict THEN None
        ELSE Punish(b, f.items[1].height, KeyOwner[key], challenger)

\* The dispute over a block of a culpable proposer.
OpenDispute(b, f, challenger) ==
    [b EXCEPT !.opened = (f.header :> [culprit |-> KeyOwner[f.proposer], challenger |-> challenger,
                                       cause |-> classify_build(b.view.params, f.build)]) @@ @]

\* Mutant of Expired: the challenge window is one block too long.
ExpiredMutant(b, f, h) ==
    f.kind = "BlockDivergence" /\ h > f.height + b.view.params.challenge_window_blocks + 1

Expired(b, f, h) ==
    f.kind = "BlockDivergence" /\ h > f.height + b.view.params.challenge_window_blocks

\* A culpable proposer is not slashed yet: its block is marked and a dispute
\* opened.
Upheld(b, f, challenger) ==
    IF Processed(b.view, f.height, KeyOwner[f.proposer]) THEN None
    ELSE Mark(OpenDispute(b, f, challenger), f.height, KeyOwner[f.proposer])

\* An artifact of this chain.  A voter's false dissent, and two votes in one
\* slot, are slashed; the other kinds have no path on the chain.
submit_execution_fault(b, f, challenger, h) ==
    LET key == verify(f)
    IN  CASE f.genesis # Genesis -> None
          [] f.kind \in {"Equivocation", "ExecutionDisagreement", "ActionDivergence"} -> None
          [] key = NoVerdict \/ Expired(b, f, h) -> None
          [] f.kind = "BlockDivergence" /\ key = f.proposer -> Upheld(b, f, challenger)
          [] OTHER -> Punish(b, f.height, KeyOwner[key], challenger)

\* One atomic write, kind by kind.
CommitBlock(b) ==
    [b.view EXCEPT
        !.attestors = [a \in DOMAIN @ |->
            IF a \in DOMAIN b.gov THEN b.gov[a]
            ELSE IF a \in b.dereg THEN None
            ELSE IF a \in DOMAIN b.reg THEN b.reg[a]
            ELSE chain.attestors[a]],
        !.tombstoned = @ \ b.reinstated,
        !.markers = @ \cup b.markers,
        !.disputes = [x \in DOMAIN @ |->
            IF chain.disputes[x] # @[x] \/ x \notin DOMAIN b.opened THEN @[x] ELSE b.opened[x]]]

FreshBlock(k) ==
    [view |-> k, reg |-> <<>>, dereg |-> {}, gov |-> <<>>, reinstated |-> {},
     markers |-> {}, opened |-> <<>>]

--------------------------------------------------------------------------------
Init ==
    /\ tip = 0
    /\ watermark = 0
    /\ chain = GenesisLedger
    /\ block = FreshBlock(GenesisLedger)
    /\ count = 0
    /\ resolved = {}
    /\ mixed = {}

\* An action that errors is dropped and leaves no trace.
Apply(b) ==
    /\ count < MaxActions
    /\ tip < MaxHeight
    /\ b # None
    /\ block' = b
    /\ count' = count + 1
    /\ UNCHANGED <<tip, watermark, chain, resolved, mixed>>

submit(proposer, a) ==
    /\ Len(block.view.proposals) < MaxProposals
    /\ Apply(apply_submit(block, proposer, a, tip + 1))

apply_attestor(applicant, name) ==
    /\ Len(block.view.proposals) < MaxProposals
    /\ Apply(apply_attestor_application(block, applicant, name, tip + 1))

vote(voter, id, approve) == Apply(apply_vote(block, voter, id, approve, tip + 1))

execute(id) == Apply(apply_execute(block, id, tip + 1))

SelfBlock(a) == Apply(block_attestor(block, a))

\* Evidence is about a height the chain has reached.
SubmitFault(f, challenger) ==
    /\ f.height <= tip
    /\ Apply(IF f.kind = "TwoBlocks"
             THEN submit_equivocation_evidence(block, f, challenger)
             ELSE submit_execution_fault(block, f, challenger, tip + 1))

\* The producer waits for the tip's certificate (produce_loop), so at most the
\* tip lacks its own.
accept_block ==
    /\ tip < MaxHeight
    /\ watermark = tip
    /\ tip' = tip + 1
    /\ chain' = CommitBlock(block)
    /\ block' = FreshBlock(CommitBlock(block))
    /\ resolved' = resolved \cup {f \in DOMAIN chain.disputes :
                        chain.disputes[f] # None /\ chain'.disputes[f] = None}
    /\ mixed' = mixed \cup ((DOMAIN block.gov \cap block.dereg)
                            \cup (block.dereg \cap DOMAIN block.reg))
    /\ UNCHANGED <<watermark, count>>

\* The watermark follows the certificate of the tip.  No action reads it, so it
\* moves before the next block's actions.
Certify ==
    /\ watermark < tip
    /\ block = FreshBlock(chain)
    /\ watermark' = tip
    /\ UNCHANGED <<tip, chain, block, count, resolved, mixed>>

ProposalStep ==
    \/ \E p \in Validators, a \in Proposable : submit(p, a)
    \/ \E v \in Validators, id \in 1 .. Len(block.view.proposals), approve \in BOOLEAN :
            vote(v, id, approve)
    \/ \E id \in 1 .. Len(block.view.proposals) : execute(id)

AttestorStep ==
    \/ \E x \in Applications : apply_attestor(x[1], x[2])
    \/ \E a \in DOMAIN chain.attestors : SelfBlock(a)

Next ==
    \/ ProposalStep
    \/ AttestorStep
    \/ \E f \in Faults, c \in Challengers : SubmitFault(f, c)
    \/ accept_block
    \/ Certify

Spec == Init /\ [][Next]_vars

--------------------------------------------------------------------------------
HeightOf(header) ==
    (CHOOSE f \in Faults : f.kind = "BlockDivergence" /\ f.header = header).height

lowest_open_dispute(k) == {HeightOf(x) : x \in {y \in DOMAIN k.disputes : k.disputes[y] # None}}

get_settled_height(k, w) ==
    Min({Max({0, w - k.params.challenge_window_blocks})}
        \cup {Max({0, h - 1}) : h \in lowest_open_dispute(k)})

--------------------------------------------------------------------------------
\* What is settled stays settled: the settled height never goes down, however
\* blocks, certificates, disputes, verdicts and changes of the parameters
\* interleave.  A dispute has to land within the challenge window of its block,
\* so none can open at or below a height already reported as settled.  The one
\* exception is a vote that lengthens the window itself, which reopens blocks
\* whose window had closed (get_settled_height reads today's parameter).
\* And a dispute that governance resolved is never open again, so no verdict is
\* passed twice on one block: the evidence marker outlives the dispute's row, and
\* ResolveDispute deletes only the row.
SettledIsForever ==
    [][/\ \/ get_settled_height(chain', watermark') >= get_settled_height(chain, watermark)
          \/ chain'.params.challenge_window_blocks > chain.params.challenge_window_blocks
       /\ \A x \in resolved : chain'.disputes[x] = None]_vars

\* An attestor that cannot grant because its removal is being voted on has a
\* removal vote running: whichever way a vote ends (executed, voted down, too
\* few votes, overtaken by another proposal) the block it raised is gone with
\* it.  Attestors whose record one block wrote in two kinds of rows are left
\* out: there the order of the commit is not the order of the actions.
RemovalBlockLifts ==
    \A a \in DOMAIN chain.attestors \ mixed :
        chain.attestors[a] # None /\ chain.attestors[a].removal_pending =>
            \E id \in DOMAIN chain.proposals :
                /\ Open(chain, id)
                /\ chain.proposals[id].action.kind = "RemoveAttestor"
                /\ chain.proposals[id].action.attestor = a


=============================================================================
