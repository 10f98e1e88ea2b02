----------------------------- MODULE Consensus -----------------------------
(***************************************************************************)
(* The voting protocol of one height, reduced to who may sign what: the    *)
(* rules arxd/finality enforces before it signs a prevote, a precommit or  *)
(* a round timeout (the Engine's prevote, precommit and timeout on top of  *)
(* SignedVotes).  It is the specification module Finality implements.      *)
(*                                                                         *)
(* The state is the set of votes ever recorded; a message, once signed, may *)
(* be delivered at any time, any number of times or never, so what a node  *)
(* has tallied is some part of it.  Faulty validators are counted as having *)
(* cast every vote.                                                        *)
(***************************************************************************)
EXTENDS QuorumPower

CONSTANTS
    MaxRound,   \* rounds are 0 .. MaxRound
    Blocks      \* the blocks proposed at this height

ASSUME MaxRoundAssumption == MaxRound \in Nat

Rounds == 0 .. MaxRound

VARIABLES
    prevotes,    \* set of [voter, round, block]
    precommits,  \* set of [voter, round, block]
    timeouts     \* set of [voter, round]

votes == <<prevotes, precommits, timeouts>>

BlockVote == [voter : Honest, round : Rounds, block : Blocks]

Ballot(v, r, b) == [voter |-> v, round |-> r, block |-> b]

-----------------------------------------------------------------------------
Prevoted(v, r, b) == Ballot(v, r, b) \in prevotes

Precommitted(v, r, b) == Ballot(v, r, b) \in precommits

TimedOut(v, r) == [voter |-> v, round |-> r] \in timeouts

PrevotersOf(r, b) == Faulty \cup {v \in Honest : Prevoted(v, r, b)}

PrecommittersOf(r, b) == Faulty \cup {v \in Honest : Precommitted(v, r, b)}

\* The bucket of `prevote_tallies` for b at round r reaches quorum in
\* tally_prevote, which then stores a PolRecord.
Pol(r, b) == quorum_reached(PrevotersOf(r, b))

\* The same for tally_vote, which stores a FinalityRecord.
Final(r, b) == quorum_reached(PrecommittersOf(r, b))

Decided(b) == \E r \in Rounds : Final(r, b)

\* V2: the validator timed the round out, or voted in a later one.
Left(v, r) ==
    \/ TimedOut(v, r)
    \/ \E q \in Rounds :
          /\ q > r
          /\ \/ TimedOut(v, q)
             \/ \E b \in Blocks : Prevoted(v, q, b) \/ Precommitted(v, q, b)

\* V3: r is the round of v's latest precommit, and b its block.
LockedOn(v, r, b) ==
    /\ Precommitted(v, r, b)
    /\ \A q \in Rounds, c \in Blocks : Precommitted(v, q, c) => q <= r

-----------------------------------------------------------------------------
VoteInit ==
    /\ prevotes = {}
    /\ precommits = {}
    /\ timeouts = {}

\* Mutant of Prevote: the lock is not looked at.
PrevoteUnlocked(v, r, b) ==
    /\ ~Left(v, r)
    /\ \A c \in Blocks : ~Prevoted(v, r, c)
    /\ prevotes' = prevotes \cup {Ballot(v, r, b)}
    /\ UNCHANGED <<precommits, timeouts>>

\* Engine::prevote with SignedVotes::claim_prevote: one prevote per round, in
\* a round not left, for the locked block or for one a quorum of prevotes
\* names at the round of the lock or later.
Prevote(v, r, b) ==
    /\ ~Left(v, r)
    /\ \A c \in Blocks : ~Prevoted(v, r, c)
    /\ \A lr \in Rounds, lb \in Blocks :
          LockedOn(v, lr, lb) =>
              \/ lb = b
              \/ \E p \in Rounds : lr <= p /\ p <= r /\ Pol(p, b)
    /\ prevotes' = prevotes \cup {Ballot(v, r, b)}
    /\ UNCHANGED <<precommits, timeouts>>

\* Engine::precommit with SignedVotes::claim_precommit: at the round of a
\* PolRecord for the block, one per round, in a round not left.
Precommit(v, r, b) ==
    /\ Pol(r, b)
    /\ ~Left(v, r)
    /\ \A c \in Blocks : ~Precommitted(v, r, c)
    /\ precommits' = precommits \cup {Ballot(v, r, b)}
    /\ UNCHANGED <<prevotes, timeouts>>

\* Engine::timeout with SignedVotes::claim_timeout: allowed whatever was
\* signed before.
Timeout(v, r) ==
    /\ ~TimedOut(v, r)
    /\ timeouts' = timeouts \cup {[voter |-> v, round |-> r]}
    /\ UNCHANGED <<prevotes, precommits>>

VoteNext ==
    \E v \in Honest, r \in Rounds :
        \/ \E b \in Blocks : Prevote(v, r, b) \/ Precommit(v, r, b)
        \/ Timeout(v, r)

VoteSpec == VoteInit /\ [][VoteNext]_votes

-----------------------------------------------------------------------------
\* Types of the three sets of votes.
VotesTypeOK ==
    /\ prevotes \in SUBSET BlockVote
    /\ precommits \in SUBSET BlockVote
    /\ timeouts \in SUBSET [voter : Honest, round : Rounds]

\* Two different blocks never both gather a quorum of precommits at a height,
\* in whatever rounds: no two nodes ever store different FinalityRecords.
Agreement == \A b, c \in Blocks : Decided(b) /\ Decided(c) => b = c

\* Two different blocks never both gather a quorum of prevotes in one round:
\* write_pol never meets a second PolRecord for a (height, round).
OnePolPerRound ==
    \A r \in Rounds : \A b, c \in Blocks : Pol(r, b) /\ Pol(r, c) => b = c

\* Once a block is decided at a round, no later round can produce a quorum of
\* prevotes for another one: the lock a node follows (V5, N2, N3) never leads
\* it away from a decided block.
DecidedIsTheOnlyPol ==
    \A r, q \in Rounds : \A b, c \in Blocks :
        Final(r, b) /\ q >= r /\ Pol(q, c) => b = c

-----------------------------------------------------------------------------
(***************************************************************************)
(* The inductive invariant behind Agreement.                               *)
(***************************************************************************)

\* Nothing but c was, or still can be, decided before round q: in every quorum
\* some honest validator left the earlier round without precommitting there.
SafeAt(q, c) ==
    \A r \in Rounds, b \in Blocks :
        r < q /\ b # c =>
            \A Q \in Quorums :
                \E v \in Q \cap Honest : Left(v, r) /\ ~Precommitted(v, r, b)

OnePrevotePerRound ==
    \A v \in Honest, r \in Rounds : \A b, c \in Blocks :
        Prevoted(v, r, b) /\ Prevoted(v, r, c) => b = c

PrecommitHasPol ==
    \A v \in Honest, r \in Rounds, b \in Blocks :
        Precommitted(v, r, b) => Pol(r, b)

\* A prevote against an earlier precommit came with a quorum of prevotes that
\* released the lock.
UnlockHasPol ==
    \A v \in Honest : \A r, q \in Rounds : \A b, c \in Blocks :
        /\ Precommitted(v, r, b)
        /\ Prevoted(v, q, c)
        /\ r < q
        /\ b # c
        => \E p \in Rounds : r <= p /\ p <= q /\ Pol(p, c)

PolIsSafe == \A q \in Rounds, c \in Blocks : Pol(q, c) => SafeAt(q, c)

\* What every step of the protocol preserves: one prevote per round, a lock
\* behind every precommit, a quorum behind every released lock, and every
\* quorum of prevotes safe with respect to the earlier rounds.
SafetyInv ==
    /\ VotesTypeOK
    /\ OnePrevotePerRound
    /\ PrecommitHasPol
    /\ UnlockHasPol
    /\ PolIsSafe

=============================================================================
