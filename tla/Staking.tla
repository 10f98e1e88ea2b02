------------------------------ MODULE Staking ------------------------------
(***************************************************************************)
(* Stake, validator status and the epoch boundary, as a block executes     *)
(* them: circuits/staking, arxd/runtime (staking.rs, consensus.rs,         *)
(* epoch.rs, seal and dispatch in lib.rs) and the way                      *)
(* core/executor/src/lib.rs puts a block together.                         *)
(*                                                                         *)
(* l is the state an action of the block being executed reads: the parent  *)
(* state with the writes of the block's earlier actions over it            *)
(* (BlockView).  BeginBlock is the seed of execute_actions, every action   *)
(* is one call of dispatch, and SealBlock is on_block_sealed and the       *)
(* commit.  A dispatch that fails changes nothing, so it is no step.       *)
(*                                                                         *)
(* What execute_actions returns is not l but one overlay for each kind of  *)
(* row, and the commit writes the overlays kind by kind, governance last.  *)
(* A validator's status row is the one row of this module that two kinds   *)
(* write: validator_statuses and, for a reinstatement, governance.  The    *)
(* variables written and removed say which kind wrote which row.           *)
(*                                                                         *)
(* Addresses are numbers, for the orders the code sorts by.  Left out:     *)
(* nonces, BLS keys and the reverse index of operators, which no property  *)
(* here is about.                                                          *)
(***************************************************************************)
EXTENDS StakePower

CONSTANTS
    Users,        \* the accounts that send actions
    Validators,   \* the users that may validate
    Genesis,      \* the validators of the genesis set
    Balance,      \* the genesis balance of a user
    GenesisStake, \* the genesis stake of a genesis validator
    Pool,         \* the genesis balance of the reward pool
    Amounts,      \* the amounts staked and unstaked
    Operators,    \* the users that are made operators
    Reporters,    \* the users that report faults and execute reinstatements
    Attested,     \* the validators that carry an attestation
    Params,       \* ChainParams
    MAX_DELEGATION_PER_VALIDATOR,
    EvidenceHeights, \* the heights faults are reported at
    MaxRound,     \* the rounds a height goes through, at most
    MaxActions,   \* the actions of the chain, at most
    MaxHeight,    \* the blocks of the chain, at most
    None          \* an absent row

VARIABLES
    height,       \* the height of the block being executed, or the tip's
    phase,        \* "open": executing actions; "sealed": committed
    l,            \* the ledger rows
    fees,         \* fees_collected
    acts,         \* how many actions were applied, up to MaxActions
    written,      \* status rows the block wrote through validator_statuses
    removed       \* status rows the block deleted through governance

vars == <<height, phase, l, fees, acts, written, removed>>

Pairs == Users \X Validators

Allocations ==
    [active : Nat, unbonding : {None} \cup [amount : Nat \ {0}, unlock : Nat]]

\* The heights a batch can unlock at.
UnlockHeights == 0 .. MaxHeight + Params.unbonding_blocks

ASSUME StakingAssumption ==
    /\ Users \subseteq Nat /\ IsFiniteSet(Users) /\ Validators \subseteq Users
    /\ Genesis \subseteq Validators /\ Genesis # {}
    /\ Operators \subseteq Users /\ Reporters \subseteq Users
    /\ Balance \in Nat /\ GenesisStake \in Nat \ {0} /\ Pool \in Nat
    /\ Amounts \subseteq Nat /\ MaxHeight \in Nat /\ MaxRound \in Nat
    /\ None \notin Allocations /\ None \notin {"Jailed"} \X Nat
    /\ None \notin [amount : Nat \ {0}, unlock : Nat]

\* ChainParams: what the validation of a parameter proposal asks for, and less of
\* the challenger's share (it asks for a tenth).
ASSUME ParamsAssumption ==
    /\ Params \in [epoch_length : Nat \ {0}, unbonding_blocks : Nat,
                   attestation_required : BOOLEAN,
                   min_validator_set : Nat \ {0}, max_validator_set : Nat \ {0},
                   min_validator_stake : Nat \ {0},
                   reward_per_block : Nat, action_fee : Nat,
                   equivocation_slash_bps : Nat, downtime_slash_bps : Nat,
                   fee_proposer_bps : Nat, fee_treasury_bps : Nat,
                   challenger_reward_bps : Nat]
    /\ Params.challenger_reward_bps <= 10000
    /\ Params.fee_proposer_bps + Params.fee_treasury_bps <= 10000

Bps(amount, bps) == (amount * bps) \div 10000

epoch_of(h) == h \div Params.epoch_length

is_boundary(h) == (h + 1) % Params.epoch_length = 0

\* The validator at a height and round: round robin in address order.
eligible_proposer(set, h, round) ==
    CHOOSE v \in set : Rank(v, set) = (h + round) % Cardinality(set)

-----------------------------------------------------------------------------
(* ValidatorStatus.                                                        *)

Active == <<"Active">>
Pending == <<"Pending">>
Tombstoned == <<"Tombstoned">>
Jailed(until) == <<"Jailed", until>>
Leaving(from) == <<"Leaving", from>>

IsJailed(st) == st # None /\ st[1] = "Jailed"
IsLeaving(st) == st # None /\ st[1] = "Leaving"

eligible_for(st, epoch) ==
    CASE IsJailed(st) -> epoch >= st[2]
      [] IsLeaving(st) -> epoch < st[2]
      [] OTHER -> st # Tombstoned

-----------------------------------------------------------------------------
(* circuits/staking.  An allocation is its active amount and its unbonding *)
(* batch; alloc[<<m, v>>] = None when there is no row.                     *)

Allocated(k, m, v) == k.alloc[<<m, v>>] # None

Unbonding(a) == IF a.unbonding = None THEN 0 ELSE a.unbonding.amount

Total(a) == a.active + Unbonding(a)

ActiveStake(k, m, v) ==
    IF Allocated(k, m, v) THEN k.alloc[<<m, v>>].active ELSE 0

Master(k, v) == CHOOSE m \in k.masters[v] : TRUE

StakeOk(k, m, v, amount) ==
    /\ amount > 0
    /\ k.bal[m] >= amount
    /\ k.masters[v] \subseteq {m}
    /\ Allocated(k, m, v) => k.alloc[<<m, v>>].unbonding = None
    /\ ActiveStake(k, m, v) + amount <= MAX_DELEGATION_PER_VALIDATOR

\* StakeOk holds: an allocation that is there has no batch unbonding.
apply_stake(k, m, v, amount) ==
    [k EXCEPT
        !.bal[m] = @ - amount,
        !.sub[v] = @ + amount,
        !.alloc[<<m, v>>] = [active |-> ActiveStake(k, m, v) + amount,
                             unbonding |-> None],
        !.masters[v] = {m}]

UnstakeOk(k, m, v, amount) ==
    /\ amount > 0
    /\ Allocated(k, m, v)
    /\ k.alloc[<<m, v>>].unbonding = None
    /\ amount <= k.alloc[<<m, v>>].active

apply_unstake(k, m, v, amount, h) ==
    [k EXCEPT
        !.alloc[<<m, v>>] =
            [active |-> @.active - amount,
             unbonding |-> [amount |-> amount,
                            unlock |-> h + Params.unbonding_blocks]]]

\* Records when the batch unlocks, so that resolve_due_unbonding finds it.
index_unbonding(k, m, v, unlock) ==
    [k EXCEPT !.due[unlock] = @ \cup {<<m, v>>}]

DropAllocation(k, m, v) ==
    [k EXCEPT !.alloc[<<m, v>>] = None, !.masters[v] = {}]

\* Mutant of apply_slash: the batch that is unbonding is not reduced, and an
\* allocation left empty is not dropped.
apply_slashMutant(k, v, amount) ==
    LET m == Master(k, v)
        a == k.alloc[<<m, v>>]
        slash == Smaller(amount, a.active)
    IN  [k EXCEPT !.sub[v] = @ - Smaller(k.sub[v], amount),
                  !.pool = @ + Smaller(k.sub[v], amount),
                  !.alloc[<<m, v>>].active = @ - slash]

\* Takes the amount, at most all of the stake, from the active part first and
\* then from the batch that is unbonding, and moves it to the reward pool.
apply_slash(k, v, amount) ==
    LET m == Master(k, v)
        a == k.alloc[<<m, v>>]
        slash == Smaller(amount, Total(a))
        fromActive == Smaller(slash, a.active)
        rest == Unbonding(a) - (slash - fromActive)
        b == [active |-> a.active - fromActive,
              unbonding |-> IF a.unbonding = None \/ rest = 0 THEN None
                            ELSE [a.unbonding EXCEPT !.amount = rest]]
        debited == Smaller(k.sub[v], slash)
        moved == [k EXCEPT !.sub[v] = @ - debited,
                           !.pool = @ + debited,
                           !.alloc[<<m, v>>] = b]
    IN  IF Total(b) = 0 THEN DropAllocation(moved, m, v) ELSE moved

\* The batches that unlock at a height.  A pair of the index whose allocation is
\* gone, or unlocks at another height, is skipped.
DueUnbonding(k, h) ==
    {p \in k.due[h] : /\ k.alloc[p] # None
                      /\ k.alloc[p].unbonding # None
                      /\ k.alloc[p].unbonding.unlock = h}

\* Returns every batch that is due to its master, whose batches add up, and drops
\* the allocations that leaves empty.
Release(k, due, h) ==
    LET batch == [p \in due |-> k.alloc[p].unbonding.amount]
        emptied == {p \in due : k.alloc[p].active = 0}
    IN  [k EXCEPT
            !.due[h] = {},
            !.bal = [m \in Users |-> @[m] + SumOf(batch, {p \in due : p[1] = m})],
            !.sub = [v \in Validators |->
                        @[v] - SumOf(batch, {p \in due : p[2] = v})],
            !.alloc = [p \in Pairs |->
                          IF p \in emptied THEN None
                          ELSE IF p \in due
                          THEN [active |-> k.alloc[p].active, unbonding |-> None]
                          ELSE @[p]],
            !.masters = [v \in Validators |->
                            IF \E p \in emptied : p[2] = v THEN {} ELSE @[v]]]

resolve_due_unbonding(k, h) == Release(k, DueUnbonding(k, h), h)

-----------------------------------------------------------------------------
(* arxd/runtime: who may do what, and what each action does.  Every action *)
(* ends with dispatch charging its sender the fee.                         *)

is_authorized(k, sender, v) == sender = v \/ k.operator[v] = sender

MayValidate(v) == Params.attestation_required => v \in Attested

\* One master's stake; None when nobody has staked.
total_stake(k, v) == SumOf([m \in Users |-> ActiveStake(k, m, v)], k.masters[v])

\* The end of dispatch: the fee comes out of what the action left its sender.
Dispatch(sender, k, statuses, deletes) ==
    /\ phase = "open" /\ acts < MaxActions
    /\ k.bal[sender] >= Params.action_fee
    /\ l' = [k EXCEPT !.bal[sender] = @ - Params.action_fee]
    /\ fees' = fees + Params.action_fee
    /\ acts' = acts + 1
    /\ written' = written \cup statuses
    /\ removed' = removed \cup deletes
    /\ UNCHANGED <<height, phase>>

status_after_join(k, v) ==
    IF k.status[v] = Active \/ IsJailed(k.status[v]) THEN k.status[v] ELSE Pending

join_validator(a, v, amount) ==
    /\ is_authorized(l, a, v)
    /\ l.status[v] # Tombstoned /\ MayValidate(v)
    /\ ActiveStake(l, a, v) + amount >= Params.min_validator_stake
    /\ StakeOk(l, a, v, amount)
    /\ Dispatch(a, [apply_stake(l, a, v, amount)
                       EXCEPT !.status[v] = status_after_join(l, v)], {v}, {})

leave_validator(a, v) ==
    LET m == IF l.masters[v] = {} THEN a ELSE Master(l, v)
        amount == ActiveStake(l, m, v)
    IN  /\ is_authorized(l, a, v)
        /\ v \in DOMAIN l.set /\ Cardinality(DOMAIN l.set) > 1
        /\ UnstakeOk(l, m, v, amount)
        /\ Dispatch(a, [apply_unstake(l, m, v, amount, height)
                           EXCEPT !.status[v] = Leaving(epoch_of(height) + 1)],
                    {v}, {})

\* Only the validator or its operator may become its first master.
stake(a, v, amount) ==
    /\ l.masters[v] = {} => is_authorized(l, a, v)
    /\ StakeOk(l, a, v, amount)
    /\ Dispatch(a, apply_stake(l, a, v, amount), {}, {})

unstake(a, v, amount) ==
    /\ UnstakeOk(l, a, v, amount)
    /\ Dispatch(a, index_unbonding(apply_unstake(l, a, v, amount, height),
                                   a, v, height + Params.unbonding_blocks),
                {}, {})

\* The one slash for a tombstoning fault, with the challenger's share of what
\* reached the pool.
fault_slash(k, v, challenger) ==
    LET a == k.alloc[<<Master(k, v), v>>]
        slashed == apply_slash(k, v, Bps(Total(a), Params.equivocation_slash_bps))
        reward == Bps(slashed.pool - k.pool, Params.challenger_reward_bps)
    IN  [slashed EXCEPT !.pool = @ - reward,
                        !.bal[challenger] = @ + reward,
                        !.status[v] = Tombstoned]

\* Evidence that v signed two blocks at height e.  The marker is written with
\* the block: it is not among the rows the block's later actions read.
submit_equivocation_evidence(a, v, e) ==
    LET marked == [l EXCEPT !.markers = @ \cup {<<e, v>>}]
    IN  /\ <<e, v>> \notin l.evidence
        /\ IF l.status[v] = Tombstoned
           THEN Dispatch(a, marked, {}, {})
           ELSE /\ l.masters[v] # {}
                /\ Dispatch(a, fault_slash(marked, v, a), {v}, {})

authorize_operator(v, o) ==
    Dispatch(v, [l EXCEPT !.operator[v] = o], {}, {})

revoke_operator(v) ==
    /\ l.operator[v] # None
    /\ Dispatch(v, [l EXCEPT !.operator[v] = None], {}, {})

\* A passed ReinstateValidator proposal, executed by anybody: the status row
\* goes, through the governance rows.
reinstate_validator(a, v) ==
    /\ l.status[v] = Tombstoned
    /\ Dispatch(a, [l EXCEPT !.status[v] = None], {}, {v})

-----------------------------------------------------------------------------
(* The seal: block reward, downtime slash and jail, epoch boundary, and    *)
(* the list of candidates.  Each step reads what the steps before it wrote *)
(* (SealOverlay).                                                          *)

apply_block_reward(k, proposer, collected) ==
    LET reward == Smaller(Params.reward_per_block, k.pool)
    IN  [k EXCEPT
            !.pool = @ - reward,
            !.bal[proposer] =
                @ + reward + Bps(collected, Params.fee_proposer_bps),
            !.treasury = @ + Bps(collected, Params.fee_treasury_bps)]

\* What missing its slot costs the primary.
DowntimeSlash(k, primary) ==
    IF k.masters[primary] = {} THEN 0
    ELSE Bps(Total(k.alloc[<<Master(k, primary), primary>>]),
             Params.downtime_slash_bps)

apply_downtime_slash(k, primary, h) ==
    LET amount == DowntimeSlash(k, primary)
        st == k.status[primary]
    IN  IF amount = 0 THEN k
        ELSE [apply_slash(k, primary, amount) EXCEPT
                 !.status[primary] = IF st = Tombstoned \/ IsJailed(st) THEN st
                                     ELSE Jailed(epoch_of(h) + 2)]

\* The validators that may be in the set of an epoch, and the best staked of
\* them.
Eligible(k, rows, epoch) ==
    {v \in rows : /\ eligible_for(k.status[v], epoch)
                  /\ k.masters[v] # {}
                  /\ total_stake(k, v) >= Params.min_validator_stake
                  /\ MayValidate(v)}

TopByStake(k, S) ==
    LET Ahead(u, v) == \/ total_stake(k, u) > total_stake(k, v)
                       \/ total_stake(k, u) = total_stake(k, v) /\ u < v
    IN  {v \in S : Cardinality({u \in S : Ahead(u, v)})
                      < Larger(Params.max_validator_set, 1)}

NextStatus(k, v, top, epoch) ==
    LET st == k.status[v]
    IN  CASE v \in top -> Active
          [] v \notin top /\ IsLeaving(st) /\ st[2] <= epoch -> None
          [] v \notin top /\ st = Active -> Pending
          [] OTHER -> st

boundary_hook(k, wrote, h) ==
    LET epoch == epoch_of(h) + 1
        rows == {v \in k.candidates \cup wrote : k.status[v] # None}
        top == TopByStake(k, Eligible(k, rows, epoch))
    IN  IF ~is_boundary(h) \/ Cardinality(top) < Params.min_validator_set
        THEN k
        ELSE [k EXCEPT
                 !.set = assign_voting_power([v \in top |-> total_stake(k, v)]),
                 !.status = [v \in Validators |->
                                IF v \in rows THEN NextStatus(k, v, top, epoch)
                                ELSE @[v]]]

\* Mutant of Candidates: only the rows the seal itself wrote are looked at.
CandidatesMutant(k, before, wrote) ==
    LET touched == {v \in Validators : k.status[v] # before[v]}
    IN  (k.candidates \ touched) \cup {v \in touched : k.status[v] # None}

\* Every address whose row the block wrote is a candidate if it has a row.
Candidates(k, before, wrote) ==
    LET touched == wrote \cup {v \in Validators : k.status[v] # before[v]}
    IN  (k.candidates \ touched) \cup {v \in touched : k.status[v] # None}

\* Mutant of seal: the downtime slash reads the rows from before the reward, and the
\* reward's rows win.
sealMutant(k, wrote, proposer, collected, h) ==
    LET primary == eligible_proposer(DOMAIN k.set, h, 0)
        rewarded == apply_block_reward(k, proposer, collected)
        slashed == IF primary = proposer THEN rewarded
                   ELSE [apply_downtime_slash(k, primary, h)
                            EXCEPT !.pool = rewarded.pool, !.bal = rewarded.bal,
                                   !.treasury = rewarded.treasury]
        bounded == boundary_hook(slashed, wrote, h)
    IN  [bounded EXCEPT !.candidates = Candidates(bounded, k.status, wrote)]

seal(k, wrote, proposer, collected, h) ==
    LET primary == eligible_proposer(DOMAIN k.set, h, 0)
        rewarded == apply_block_reward(k, proposer, collected)
        slashed == IF primary = proposer THEN rewarded
                   ELSE apply_downtime_slash(rewarded, primary, h)
        bounded == boundary_hook(slashed, wrote, h)
    IN  [bounded EXCEPT !.candidates = Candidates(bounded, k.status, wrote)]

-----------------------------------------------------------------------------
(* A block.                                                                *)

\* resolve_matured_unbonding seeds the block before its first action.
BeginBlock ==
    /\ phase = "sealed" /\ height < MaxHeight
    /\ height' = height + 1 /\ phase' = "open"
    /\ l' = resolve_due_unbonding(l, height + 1)
    /\ fees' = 0 /\ written' = {} /\ removed' = {}
    /\ UNCHANGED acts

\* A status row the block deleted through governance is gone for whoever
\* applies the block's rows kind by kind, whatever else the block wrote to it.
GovernanceLast(k) ==
    [k EXCEPT !.status = [v \in Validators |-> IF v \in removed THEN None ELSE @[v]]]

seal_view == GovernanceLast(l)

\* What accept_block and the producer commit: the seal's status rows join the
\* actions', and governance's deletions are written after them.
Committed(proposer) ==
    GovernanceLast(seal(seal_view, written \cup removed, proposer, fees, height))

SealBlock(round) ==
    LET proposer == eligible_proposer(DOMAIN l.set, height, round)
        k == Committed(proposer)
    IN  /\ phase = "open"
        /\ phase' = "sealed"
        /\ l' = [k EXCEPT !.evidence = @ \cup k.markers, !.markers = {}]
        /\ UNCHANGED <<height, fees, acts, written, removed>>

Init ==
    /\ height = 0 /\ phase = "sealed"
    /\ fees = 0 /\ acts = 0 /\ written = {} /\ removed = {}
    /\ l = [bal |-> [u \in Users |-> Balance],
            sub |-> [v \in Validators |-> IF v \in Genesis THEN GenesisStake ELSE 0],
            pool |-> Pool, treasury |-> 0,
            alloc |-> [p \in Pairs |->
                          IF p[1] = p[2] /\ p[2] \in Genesis
                          THEN [active |-> GenesisStake, unbonding |-> None]
                          ELSE None],
            masters |-> [v \in Validators |-> IF v \in Genesis THEN {v} ELSE {}],
            due |-> [h \in UnlockHeights |-> {}],
            status |-> [v \in Validators |-> IF v \in Genesis THEN Active ELSE None],
            candidates |-> Genesis,
            set |-> assign_voting_power([v \in Genesis |-> GenesisStake]),
            operator |-> [v \in Validators |-> None],
            evidence |-> {}, markers |-> {}]

\* What a staker or its operator may send for a validator.
StakerStep(a, v) ==
    \/ \E n \in Amounts :
          \/ join_validator(a, v, n)
          \/ stake(a, v, n)
          \/ unstake(a, v, n)
    \/ leave_validator(a, v)

\* What anybody may report, or a passed proposal does.
ReporterStep(a, v) ==
    \/ reinstate_validator(a, v)
    \/ \E e \in EvidenceHeights : submit_equivocation_evidence(a, v, e)

OperatorStep(v) ==
    \/ \E o \in Operators : authorize_operator(v, o)
    \/ revoke_operator(v)

Next ==
    \/ BeginBlock
    \/ \E round \in 0 .. MaxRound : SealBlock(round)
    \/ \E v \in Validators :
          \/ \E a \in Users : StakerStep(a, v)
          \/ \E a \in Reporters : ReporterStep(a, v)
          \/ OperatorStep(v)

Spec == Init /\ [][Next]_vars

-----------------------------------------------------------------------------
(* Properties.                                                             *)

Statuses == {None, Active, Pending, Tombstoned} \cup ({"Jailed", "Leaving"} \X Nat)

Ledger(k) ==
    /\ k \in [bal : [Users -> Nat], sub : [Validators -> Nat],
              pool : Nat, treasury : Nat,
              alloc : [Pairs -> {None} \cup Allocations],
              masters : [Validators -> SUBSET Users],
              due : [UnlockHeights -> SUBSET Pairs],
              status : [Validators -> Statuses], candidates : SUBSET Validators,
              set : {k.set}, operator : [Validators -> Users \cup {None}],
              evidence : SUBSET (EvidenceHeights \X Validators),
              markers : SUBSET (EvidenceHeights \X Validators)]
    /\ DOMAIN k.set \in (SUBSET Validators) \ {{}}

\* The rows keep their types: no balance goes below zero (they are u128, and
\* resolve_due_unbonding and apply_unstake subtract unchecked), and the set in
\* force is never empty.
TypeOK ==
    /\ height \in 0 .. MaxHeight /\ phase \in {"open", "sealed"}
    /\ Ledger(l)
    /\ fees \in Nat /\ acts \in Nat
    /\ written \in SUBSET Validators /\ removed \in SUBSET Validators

\* What the one allocation of a validator holds, active or unbonding.
Held(k, v) ==
    IF k.masters[v] = {} THEN 0 ELSE Total(k.alloc[<<Master(k, v), v>>])

Backed(k) ==
    \A v \in Validators :
        /\ k.masters[v] = {m \in Users : Allocated(k, m, v)}
        /\ \A m, n \in k.masters[v] : m = n
        /\ k.sub[v] = Held(k, v)
        /\ k.masters[v] # {} => k.sub[v] > 0

\* A validator has one master at most, its index row names exactly the master
\* that has an allocation, and its sub-account holds what the allocation says,
\* which is never nothing: everything a later slash or release will take is
\* there, whatever order stakes, partial slashes, releases and re-stakes came in.
StakeIsBacked == Backed(l)

\* Everybody with a status row is on the list of candidates, or will be when the
\* block that wrote the row is sealed.
Listed ==
    \A v \in Validators :
        l.status[v] # None /\ (phase = "open" => v \notin written \cup removed) =>
            v \in l.candidates

\* The inductive invariant.
StakingInv == TypeOK /\ StakeIsBacked /\ Listed

Money(k) == SumOf(k.bal, Users) + SumOf(k.sub, Validators) + k.pool + k.treasury

\* Nothing is minted: an action only moves coins and sets its fee aside, the
\* release of matured batches moves coins, and the seal brings back of the
\* fees collected just the proposer's and the treasury's shares, although it
\* rewrites the pool's row twice (reward, then slash).  And a batch that is
\* unbonding stays slashable until its own unlock height: it is released by the
\* block of that height and by no other, also when the due index still lists the
\* pair for an earlier batch that was slashed away (resolve_due_unbonding).
SupplyIsKept ==
    [][/\ CASE phase = "sealed" -> Money(l') = Money(l)
            [] phase = "open" /\ phase' = "open" ->
                   Money(l') + fees' = Money(l) + fees
            [] OTHER -> Money(l') = Money(l) + Bps(fees, Params.fee_proposer_bps)
                                             + Bps(fees, Params.fee_treasury_bps)
       /\ phase = "sealed" =>
             \A p \in Pairs :
                 l.alloc[p] # None /\ l.alloc[p].unbonding # None =>
                     \/ l'.alloc[p] = l.alloc[p]
                     \/ l.alloc[p].unbonding.unlock = height']_vars

\* The set changes only at an epoch boundary, and then every member has the
\* minimum stake after this block's slashes, is Active, and came to the boundary
\* neither tombstoned nor with a jail term that lasts beyond it; and after every
\* block the list of candidates has everybody with a status row, since whoever
\* the list forgot would be in no later set: the boundary looks at nobody else
\* (boundary_hook, seal).
SetIsEarned ==
    [][/\ l'.set # l.set =>
             /\ is_boundary(height)
             /\ \A v \in DOMAIN l'.set :
                   /\ total_stake(l', v) >= Params.min_validator_stake
                   /\ l'.status[v] = Active
                   /\ l.status[v] # Tombstoned
                   /\ IsJailed(l.status[v]) => l.status[v][2] <= epoch_of(height) + 1
       /\ phase' = "sealed" =>
             \A v \in Validators : l'.status[v] # None => v \in l'.candidates]_vars

\* Unstaked coins return to their master when the unbonding period is over: no
\* batch outlives its unlock height.
UnbondingReturns ==
    \A p \in Pairs :
        l.alloc[p] # None /\ l.alloc[p].unbonding # None =>
            l.alloc[p].unbonding.unlock > height

=============================================================================
