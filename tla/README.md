# TLA+ verification of the Arxium node

Arxium is a proof-of-stake chain: validators take turns proposing blocks, a
Tendermint-style vote finalizes each height, stake decides the voting power, and
misbehaviour is slashed. This directory models the parts whose correctness is a
matter of order, crashes and interleavings, checks them with TLC on small
instances, and proves the safety of the vote for every instance with TLAPS.
`PROJECT.json` lists the runs, the mutants that show each property can fail,
the source lines behind each definition, the findings and the hazards.

## The system and where it is modelled

| Part | Source | Module |
| --- | --- | --- |
| Vote file (slashing protection) | `arxd/finality/src/signed_votes.rs` | `SignedVotes`, proofs in `SignedVotesProof` |
| Power and quorums | `core/primitives/src/validator_set.rs` | `QuorumPower`, lemmas in `SetFacts` |
| Voting rules of one height | `arxd/finality/src/lib.rs` | `Consensus`, proofs in `ConsensusProof` |
| Finality thread, block gates, certificate recovery, producer | `arxd/finality`, `core/executor`, `arxd/network`, `arxd/node` | `Finality`, which implements `Consensus` |
| Chain database | `core/storage` | `ChainStore` |
| Stake to power | `assign_voting_power` | `StakePower` (operators), `VotingPower` (its loop) |
| Staking, status rows, epochs, the seal of a block, its replay | `circuits/staking`, `arxd/runtime` | `Staking` |

How they interact: `Staking` produces the validator set and its powers, which
`QuorumPower` takes as any assignment of 10000 units to owners. `SignedVotes` is
the file of one validator; `Consensus` assumes of each honest validator what the
file guarantees, and `Finality` repeats the file's rules in its `Cast` step.
`ChainStore` is the database under `Finality`: there a block write, a revert and
a certificate write are single steps.

Each module opens with a comment on its state. Actions keep the names of the
functions they model; operators ending in `Mutant`, or marked "Mutant of", are
the deliberate mistakes the mutants use.

### SignedVotes
State: `floor` and `entries` in memory, `disk` the file, `released` the history
of allowed votes. Every claim may be asked for in every state, since the chain
database may be restored to an older copy. A write may fail before or after the
rename; `Restart` loads the file.

### Consensus and Finality
`Consensus` has only the votes ever recorded. `Finality` has, for each honest
node, the held block, the highest lock, the certified rounds, the finality
record, whether the watermark covers the height, what was refused since the
start, and what the finality thread is in the middle of. A tally is a quorum
among the votes signed, so loss, duplication and reordering of messages are
choices of when, if ever, a tally happens. Faulty validators count as having
cast every vote.

### ChainStore
A database is a function from rows to values; `wal` is the sequence of images a
crash may come back with. A block is its chain of payloads, so a hash identifies
its history; a state root is the state itself. `Replay` is the reference: the
state that executing a chain from genesis leaves.

### Staking
`l` is the ledger as a block's actions see it. `BeginBlock` releases matured
batches, an action is one `dispatch` including its fee, `SealBlock` is the seal
and the commit. A refused action changes nothing and is no step. `written` and
`removed` record through which kind of row a status was written, because a block
is committed kind by kind with governance rows last (`GovernanceLast`).

## Runs

| Run | Shows |
| --- | --- |
| `signed_votes` | no equivocation, no unlock without a quorum, no vote in a left round, released votes are on disk |
| `consensus` | agreement and its inductive invariant with one of four validators faulty |
| `finality` | the threads implement `Consensus`; final blocks stay, locked blocks stay held, a certified block that is available is eventually held |
| `chain_store` | the watermark names decided blocks only; the undo log reproduces every earlier state it reaches; a node off the decided chain can always revert onto it; round rows bind held parents |
| `voting_power` | the loop ends, hands out 10000, keeps everybody under the cap, respects stake order |
| `staking` | allocations are backed, the supply is kept, batches are released at their height only, only qualified validators enter the set, no status row is forgotten |
| `finality_stall`, `finality_held`, `chain_store_snapshot`, `staking_leave`, `staking_replay`, `staking_tombstone` | what a comment or document promises and the code does not do; see the findings in `PROJECT.json` |

### Bounds
- `SignedVotes`: one height, three rounds, two blocks. Heights interact only
  through `floor`, and an unlock needs a lock, a later quorum and a still later
  vote: three rounds.
- `Consensus`: four validators of 2500 units, one faulty, two blocks, two
  rounds, symmetric; the proof lifts the bounds.
- `Finality`: three validators of 3334, 3333 and 3333 units, one of them faulty,
  so one honest pair decides alone and every missed vote matters; two rounds
  with one block each.
- `ChainStore`: three heights, two payloads of which one deletes what the other
  writes; retention of one; two unsynced writes beyond the last flush.
- `VotingPower`: up to five validators with stakes 0, 1, 3, 10, 40: none, some
  or all of them reach the cap.
- `Staking`: three addresses, two in the genesis set, five blocks in epochs of
  two, three actions in all, one missed slot per block, unbonding of three
  blocks. Slash rates are 50% for equivocation and 100% for downtime, so that
  both partial slashes and emptied allocations occur in two actions.

### Fairness
`LiveSpec` of `Finality` assumes weak fairness of the steps each thread takes by
itself (the finality thread's tick and pending steps, the producer's slot, the
certificates peers answer with) and of the tally of votes that peers
rebroadcast, and strong fairness of accepting a certifiable block: peers that
hold it offer it again and again, between other changes of the tip. A vote is
rebroadcast only while its sender has not finalized the height (`Resent`), so a
tally is fair only under that condition: this is what `finality_stall` turns
on. `VotingPower` is sequential code and always takes its next iteration.
Deadlock checking is off where a model ends by its bound (`Finality` after the
last round, `Staking` after the last block) or by design (`VotingPower`).

## Proofs

`ConsensusProof` proves, for every validator set, assignment of the units, faulty
set of at most 3333 units, number of rounds and set of blocks, that at most one
block is decided (`AgreementHolds`). The argument: two quorums of 6667 units
share at least 3334, more than the faulty hold, so they share an honest validator
(`QuorumIntersection`, from counting lemmas in `SetFacts`). Agreement is not
inductive: what carries it is `PolIsSafe`, that a quorum of prevotes for `b` in
round `r` excludes that any other block was or will be decided in an earlier
round. `SafetyInv` adds that an honest validator prevotes once per round,
precommits only on a quorum, and prevotes against its precommit only on a newer
quorum. The assumption on the faulty power is `PowerAssumption`.

`SignedVotesProof` proves that the rules `Consensus` asks of an honest validator
hold of the file over any number of crashes and failed writes. The invariant
`SignedVotesInv` relates three copies of the votes (memory, disk, history): each
is consistent, and what was released above the floor is in both others.

Only model-checked: liveness, that `Finality` implements `Consensus`, and
everything in `ChainStore`, `VotingPower` and `Staking`.

## Not modelled, and plan

Cryptography, hashing, encoding, metrics, RPC and command-line parsing are left
out. Observations that no run covers yet are in the hazards of `PROJECT.json`.

Next, in this order:
1. `Production`: mempool, drain and requeue, the signed-height file and the
   second read of the round, nonces.
2. `Governance`: proposals, votes across epochs, execution, disputes with their
   window and verdict.
3. `Sync`: requests, pages, backfill, divergence, halt, snapshot transfer.
4. A ledger module for assets, tokens, attestations and identity.
5. Proofs: `StakeIsBacked` and `SupplyIsKept` of `Staking`, the watermark
   invariant of `ChainStore`, and that `Finality`'s steps map to `Consensus`.
