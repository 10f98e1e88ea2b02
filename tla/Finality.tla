------------------------------ MODULE Finality ------------------------------
(***************************************************************************)
(* One height of the chain, as the honest nodes live it: the finality      *)
(* thread (arxd/finality Engine), the gossip/sync thread that accepts      *)
(* blocks and recovers from divergence (core/executor, arxd/network) and   *)
(* the producer thread (arxd/node produce_loop), on each node, sharing the *)
(* chain database.  The parent is finalized everywhere; the height is one  *)
(* more than the watermark until the watermark covers it.                  *)
(*                                                                         *)
(* Only the finality thread writes PolRecords and round certificates, and  *)
(* the chain lock makes every block write and every revert atomic, so what *)
(* another thread can change under a running try_step is the block at the  *)
(* tip and the finality record.  A vote, once signed, may be delivered at  *)
(* any time, any number of times or never; a tally is therefore any part   *)
(* of the votes signed, and a handler that does not complete a quorum      *)
(* changes nothing here.                                                   *)
(***************************************************************************)
EXTENDS Consensus, Sequences

CONSTANTS
    NoBlock,        \* no block
    BlockRound,     \* the round each block was proposed in (Block::round)
    BlockProposer   \* the eligible proposer of that round

ASSUME FinalityAssumption ==
    /\ NoBlock \notin Blocks
    /\ BlockRound \in [Blocks -> Rounds]
    /\ BlockProposer \in [Blocks -> Validators]
    /\ \A b, c \in Blocks :
          BlockRound[b] = BlockRound[c] => BlockProposer[b] = BlockProposer[c]

VARIABLES
    tip,        \* node -> the block held at this height, or NoBlock
    pol,        \* node -> its highest PolRecord (get_highest_pol)
    certs,      \* node -> the rounds it stores a RoundCertificate for
    record,     \* node -> the block its FinalityRecord names, or NoBlock
    watermark,  \* node -> whether its final watermark covers this height
    refused,    \* node -> Engine::refused, in memory
    thread,     \* node -> what its finality thread is in the middle of
    proposed    \* the blocks signed by their proposer

vars == <<tip, pol, certs, record, watermark, votes, refused, thread, proposed>>

Maybe == Blocks \cup {NoBlock}

NoPol == [round |-> -1, block |-> NoBlock]

\* at: what the finality thread is doing; round: of the certificate it acts
\* on; todo: the votes try_step has left to cast.
Doing(stage, r, todo) == [at |-> stage, round |-> r, todo |-> todo]

Idle == Doing("idle", 0, <<>>)

Vote(k, r, b) == [kind |-> k, round |-> r, block |-> b]

Init ==
    /\ tip = [n \in Honest |-> NoBlock]
    /\ pol = [n \in Honest |-> NoPol]
    /\ certs = [n \in Honest |-> {}]
    /\ record = [n \in Honest |-> NoBlock]
    /\ watermark = [n \in Honest |-> FALSE]
    /\ VoteInit
    /\ refused = [n \in Honest |-> {}]
    /\ thread = [n \in Honest |-> Idle]
    /\ proposed = {}

-----------------------------------------------------------------------------
(***************************************************************************)
(* Quorums of signed votes are Pol and Final of module Consensus: votes of  *)
(* the nodes' signed-votes files, and any vote of a faulty validator.       *)
(***************************************************************************)
TimeoutQuorum(r) ==
    quorum_reached(Faulty \cup {n \in Honest : [voter |-> n, round |-> r] \in timeouts})

\* ArxiumDb::current_round: one above the highest certified round.
current_round(n) ==
    IF certs[n] = {} THEN 0
    ELSE 1 + CHOOSE r \in certs[n] : \A q \in certs[n] : q <= r

Locked(n) == pol[n] # NoPol

HoldsLocked(n) == tip[n] # NoBlock /\ tip[n] = pol[n].block

-----------------------------------------------------------------------------
(***************************************************************************)
(* Blocks: production and acceptance, both under the chain lock.           *)
(***************************************************************************)

\* produce_loop with SignedHeight::claim: on a finalized parent, at an empty
\* height no quorum of prevotes has locked, in the round whose proposer this
\* validator is, once per round and never in an older round.  The block is
\* written to the producer's own chain without passing accept_block.
Produce(n, b) ==
    /\ BlockProposer[b] = n
    /\ tip[n] = NoBlock
    /\ ~Locked(n)
    /\ BlockRound[b] = current_round(n)
    /\ \A c \in proposed : BlockProposer[c] = n => BlockRound[c] < BlockRound[b]
    /\ tip' = [tip EXCEPT ![n] = b]
    /\ proposed' = proposed \cup {b}
    /\ UNCHANGED <<pol, certs, record, watermark, votes, refused, thread>>

\* accept_block's checks of a block's round: it carries the certificate of the
\* round before, and that round's eligible proposer signed it.
RoundIsProven(b) == BlockRound[b] = 0 \/ TimeoutQuorum(BlockRound[b] - 1)

\* A faulty proposer signs what it likes; accept_block still asks a block of
\* a later round for the certificate of the round before.
FaultyPropose(b) ==
    /\ BlockProposer[b] \in Faulty
    /\ b \notin proposed
    /\ RoundIsProven(b)
    /\ proposed' = proposed \cup {b}
    /\ UNCHANGED <<tip, pol, certs, record, watermark, votes, refused, thread>>

\* supersede_dead_tip: b, of a later round, unwinds an unfinalized tip that
\* the highest lock does not name.
supersede_dead_tip(n, b) ==
    /\ tip[n] # NoBlock
    /\ record[n] = NoBlock
    /\ BlockRound[b] > BlockRound[tip[n]]
    /\ ~HoldsLocked(n)

\* Mutant of Gate: the stored certificate is not consulted.
GateMutant(n, b) ==
    IF Locked(n) THEN pol[n].block = b ELSE BlockRound[b] >= current_round(n)

\* accept_block's gates: the stored certificate, else the highest lock, else
\* the round the height is in.
Gate(n, b) ==
    IF record[n] # NoBlock THEN record[n] = b
    ELSE IF Locked(n) THEN pol[n].block = b
    ELSE BlockRound[b] >= current_round(n)

\* accept_block of a gossiped or synced block.  A tip that was superseded
\* stays unwound when the gates, or the clock-drift bound after them, refuse
\* the block.  Writing the block does not move the watermark past it:
\* stage_watermark_advance reads the hash index before the batch lands.
accept_block(n, b) ==
    /\ b \in proposed
    /\ \/ tip[n] = NoBlock /\ Gate(n, b) /\ tip' = [tip EXCEPT ![n] = b]
       \/ /\ supersede_dead_tip(n, b)
          /\ \/ Gate(n, b) /\ tip' = [tip EXCEPT ![n] = b]
             \/ tip' = [tip EXCEPT ![n] = NoBlock]
    /\ UNCHANGED <<pol, certs, record, watermark, votes, refused, thread, proposed>>

-----------------------------------------------------------------------------
(***************************************************************************)
(* The finality thread: a vote that completes a quorum.                    *)
(***************************************************************************)

\* tally_prevote: only the highest round's lock is kept, and none once the
\* height has a finality record.
tally_prevote(n, r, b) ==
    /\ thread[n] = Idle
    /\ record[n] = NoBlock
    /\ Pol(r, b)
    /\ r > pol[n].round
    /\ pol' = [pol EXCEPT ![n] = [round |-> r, block |-> b]]
    /\ UNCHANGED <<tip, certs, record, watermark, votes, refused, thread, proposed>>

\* Mutant of tally_vote: the watermark moves on the certificate alone, without
\* asking whether the node holds the block.
tally_voteMutant(n, r, b) ==
    /\ thread[n] = Idle
    /\ record[n] = NoBlock
    /\ Final(r, b)
    /\ record' = [record EXCEPT ![n] = b]
    /\ watermark' = [watermark EXCEPT ![n] = TRUE]
    /\ thread' = [thread EXCEPT ![n] = Doing("enforce", 0, <<>>)]
    /\ UNCHANGED <<tip, pol, certs, votes, refused, proposed>>

\* tally_vote: the record is written -- with the watermark, when the node
\* holds that very block -- and enforce_certificate comes next.
tally_vote(n, r, b) ==
    /\ thread[n] = Idle
    /\ record[n] = NoBlock
    /\ Final(r, b)
    /\ record' = [record EXCEPT ![n] = b]
    /\ watermark' = [watermark EXCEPT ![n] = tip[n] = b]
    /\ thread' = [thread EXCEPT ![n] = Doing("enforce", 0, <<>>)]
    /\ UNCHANGED <<tip, pol, certs, votes, refused, proposed>>

\* enforce_certificate: unwind a block the certificate does not name.
enforce_certificate(n) ==
    /\ thread[n].at = "enforce"
    /\ tip' = IF tip[n] = record[n] THEN tip ELSE [tip EXCEPT ![n] = NoBlock]
    /\ thread' = [thread EXCEPT ![n] = Idle]
    /\ UNCHANGED <<pol, certs, record, watermark, votes, refused, proposed>>

\* tally_round_timeout: the certificate is written, unwind_dead_tip follows.
tally_round_timeout(n, r) ==
    /\ thread[n] = Idle
    /\ r \notin certs[n]
    /\ TimeoutQuorum(r)
    /\ certs' = [certs EXCEPT ![n] = @ \cup {r}]
    /\ thread' = [thread EXCEPT ![n] = Doing("deadtip", r, <<>>)]
    /\ UNCHANGED <<tip, pol, record, watermark, votes, refused, proposed>>

\* Mutant of DeadTip: the lock is not looked at.
DeadTipMutant(n, r) ==
    record[n] = NoBlock /\ tip[n] # NoBlock /\ BlockRound[tip[n]] = r

\* The tip unwind_dead_tip gives up: of the certified round, with no finality
\* record at the height and not the block the highest lock names.
DeadTip(n, r) ==
    /\ record[n] = NoBlock
    /\ tip[n] # NoBlock
    /\ BlockRound[tip[n]] = r
    /\ ~HoldsLocked(n)

unwind_dead_tip(n) ==
    /\ thread[n].at = "deadtip"
    /\ tip' = IF DeadTip(n, thread[n].round)
              THEN [tip EXCEPT ![n] = NoBlock] ELSE tip
    /\ thread' = [thread EXCEPT ![n] = Idle]
    /\ UNCHANGED <<pol, certs, record, watermark, votes, refused, proposed>>

-----------------------------------------------------------------------------
(***************************************************************************)
(* The finality thread: try_step, from the reads to the last vote.         *)
(***************************************************************************)

Of(n, S) == {v \in S : v.voter = n}

Signed(n, k, r) ==
    \/ k = "Prevote"   /\ \E v \in Of(n, prevotes) : v.round = r
    \/ k = "Precommit" /\ \E v \in Of(n, precommits) : v.round = r
    \/ k = "Timeout"   /\ \E v \in Of(n, timeouts) : v.round = r

\* Engine::prevote, precommit and timeout do nothing for a slot this node has
\* signed, or was refused since it started.
Open(n, v) == ~Signed(n, v.kind, v.round) /\ <<v.kind, v.round>> \notin refused[n]

Unless(blank, v) == IF blank THEN <<>> ELSE <<v>>

\* V4: precommit the locked block, at the round of the lock.
precommit(n, b, lock) ==
    LET v == Vote("Precommit", lock.round, b)
    IN  Unless(b = NoBlock \/ lock.block # b \/ ~Open(n, v), v)

\* V5: prevote in the current round the locked block, else the round's own.
prevote(n, r, b, lock) ==
    LET v == Vote("Prevote", r, b)
    IN  Unless(\/ b = NoBlock
               \/ lock.block # b /\ (lock # NoPol \/ BlockRound[b] # r)
               \/ ~Open(n, v), v)

\* V6: time the round out, when it has run timeout_for(round) uncertified.
\* (Bound: the last round of the model is never timed out.)
timeout(n, r, elapsed, certified) ==
    LET v == Vote("Timeout", r, NoBlock)
    IN  Unless(~elapsed \/ r = MaxRound \/ r \in certified \/ ~Open(n, v), v)

\* The votes of one pass, in the order they are cast.
Due(n, r, elapsed, certified) ==
    precommit(n, tip[n], pol[n]) \o prevote(n, r, tip[n], pol[n])
        \o timeout(n, r, elapsed, certified)

\* The held block is of a later round than the certificates stored.
Ahead(n) == tip[n] # NoBlock /\ BlockRound[tip[n]] > current_round(n)

\* The reads, and the votes that follow from them.  A held block of a later
\* round brings its certificate with it; a held block other than the locked
\* one is unwound first and not voted on.
try_step(n) ==
    LET b == tip[n]
        r == IF Ahead(n) THEN BlockRound[b] ELSE current_round(n)
        unlocked == b # NoBlock /\ Locked(n) /\ pol[n].block # b
    IN  /\ thread[n] = Idle
        /\ ~watermark[n]
        /\ record[n] = NoBlock
        /\ certs' = IF Ahead(n) THEN [certs EXCEPT ![n] = @ \cup {r - 1}] ELSE certs
        /\ \E elapsed \in BOOLEAN :
              LET todo == Due(n, r, elapsed, certs'[n])
              IN  thread' = [thread EXCEPT ![n] =
                      Doing(IF unlocked THEN "unwind"
                            ELSE IF todo = <<>> THEN "idle" ELSE "vote", 0, todo)]
        /\ UNCHANGED <<tip, pol, record, watermark, votes, refused, proposed>>

\* What the thread does next when the votes in todo are left.
Continue(n, todo) ==
    [thread EXCEPT ![n] = IF todo = <<>> THEN Idle ELSE Doing("vote", 0, todo)]

\* Mutant of UnwindUnlocked: the finality record is not re-checked under the
\* lock.
UnwindUnlockedMutant(n) ==
    /\ thread[n].at = "unwind"
    /\ tip' = IF tip[n] # pol[n].block THEN [tip EXCEPT ![n] = NoBlock] ELSE tip
    /\ thread' = Continue(n, thread[n].todo)
    /\ UNCHANGED <<pol, certs, record, watermark, votes, refused, proposed>>

\* The swap for the locked block, re-checked under the chain lock.
UnwindUnlocked(n) ==
    /\ thread[n].at = "unwind"
    /\ tip' = IF record[n] = NoBlock /\ tip[n] # pol[n].block
              THEN [tip EXCEPT ![n] = NoBlock] ELSE tip
    /\ thread' = Continue(n, thread[n].todo)
    /\ UNCHANGED <<pol, certs, record, watermark, votes, refused, proposed>>

\* Mutant of RoundLeft: a timeout does not end the round.
RoundLeftMutant(n, r) ==
    \E v \in Of(n, prevotes) \cup Of(n, precommits) : v.round > r

\* SignedVotes::claim: the round-left rule (module SignedVotes).
RoundLeft(n, r) ==
    \/ \E v \in Of(n, prevotes) \cup Of(n, precommits) : v.round > r
    \/ \E v \in Of(n, timeouts) : v.round >= r

\* SignedVotes::claim_prevote: the lock rule.  The engine shows the round of
\* its highest PolRecord, which is for the block it prevotes.
LockAllows(n, r, b) ==
    \A v \in Of(n, precommits) :
        (\A w \in Of(n, precommits) : w.round <= v.round) =>
            \/ v.block = b
            \/ v.round <= pol[n].round /\ pol[n].round <= r

Claimable(n, v) ==
    /\ v.kind # "Timeout" => ~RoundLeft(n, v.round)
    /\ v.kind = "Prevote" => LockAllows(n, v.round, v.block)

Sign(n, v) ==
    LET ballot == Ballot(n, v.round, v.block)
    IN  /\ prevotes' = prevotes \cup {x \in {ballot} : v.kind = "Prevote"}
        /\ precommits' = precommits \cup {x \in {ballot} : v.kind = "Precommit"}
        /\ timeouts' = timeouts \cup
              {x \in {[voter |-> n, round |-> v.round]} : v.kind = "Timeout"}

\* The next vote: the claim records it and it is sent, or the claim refuses it
\* and the slot is given up until a restart.
Cast(n) ==
    LET v == Head(thread[n].todo)
    IN  /\ thread[n].at = "vote"
        /\ \/ /\ Claimable(n, v)
              /\ Sign(n, v)
              /\ UNCHANGED refused
           \/ /\ ~Claimable(n, v)
              /\ refused' = [refused EXCEPT ![n] = @ \cup {<<v.kind, v.round>>}]
              /\ UNCHANGED votes
        /\ thread' = Continue(n, Tail(thread[n].todo))
        /\ UNCHANGED <<tip, pol, certs, record, watermark, proposed>>

-----------------------------------------------------------------------------
(***************************************************************************)
(* The network thread's certificates, and crashes.                         *)
(***************************************************************************)

\* A Certificates page naming the block this node holds: the record is
\* written (again, when it was there) and the watermark moves with it.
Backfill(n, b) ==
    /\ Decided(b)
    /\ tip[n] = b
    /\ ~watermark[n]
    /\ record[n] \in {NoBlock, b}
    /\ record' = [record EXCEPT ![n] = b]
    /\ watermark' = [watermark EXCEPT ![n] = TRUE]
    /\ UNCHANGED <<tip, pol, certs, votes, refused, thread, proposed>>

\* A certificate naming another block than the one held, above the watermark:
\* the held block is unwound, the certificate itself is not stored.
RevertTo(n, b) ==
    /\ Decided(b)
    /\ tip[n] \notin {NoBlock, b}
    /\ ~watermark[n]
    /\ tip' = [tip EXCEPT ![n] = NoBlock]
    /\ UNCHANGED <<pol, certs, record, watermark, votes, refused, thread, proposed>>

\* The process stops at any point; the database and the vote file stay.
Restart(n) ==
    /\ thread' = [thread EXCEPT ![n] = Idle]
    /\ refused' = [refused EXCEPT ![n] = {}]
    /\ UNCHANGED <<tip, pol, certs, record, watermark, votes, proposed>>

-----------------------------------------------------------------------------
NodeStep(n) ==
    \/ try_step(n)
    \/ UnwindUnlocked(n)
    \/ Cast(n)
    \/ enforce_certificate(n)
    \/ unwind_dead_tip(n)
    \/ Restart(n)
    \/ \E r \in Rounds : tally_round_timeout(n, r)
    \/ \E r \in Rounds, b \in Blocks : tally_prevote(n, r, b) \/ tally_vote(n, r, b)
    \/ \E b \in Blocks : \/ Produce(n, b)
                         \/ accept_block(n, b)
                         \/ Backfill(n, b)
                         \/ RevertTo(n, b)

Next ==
    \/ \E n \in Honest : NodeStep(n)
    \/ \E b \in Blocks : FaultyPropose(b)

Spec == Init /\ [][Next]_vars

\* A vote is re-sent every few seconds until its signer's watermark covers the
\* height (Engine::rebroadcast, prune), so one all of whose honest signers are
\* still short of it is eventually tallied.
Resent(ballots) == \A v \in ballots : ~watermark[v.voter]

At(S, r, b) == {v \in S : v.round = r /\ v.block = b}

\* What the scheduling guarantees: the finality thread goes on with what it
\* began, votes still being re-sent arrive, the status tick and sync keep
\* offering the certificate and the block a quorum certified, and a proposer
\* whose turn it is proposes.
Fairness ==
    \A n \in Honest :
        /\ WF_vars(UnwindUnlocked(n) \/ Cast(n) \/ enforce_certificate(n)
                      \/ unwind_dead_tip(n))
        /\ WF_vars(try_step(n))
        /\ \A b \in Blocks :
              /\ SF_vars(Decided(b) /\ accept_block(n, b))
              /\ WF_vars(Backfill(n, b))
              /\ WF_vars(RevertTo(n, b))
              /\ WF_vars(Produce(n, b))
              /\ \A r \in Rounds :
                    /\ WF_vars(Resent(At(prevotes, r, b)) /\ tally_prevote(n, r, b))
                    /\ WF_vars(Resent(At(precommits, r, b)) /\ tally_vote(n, r, b))

LiveSpec == Spec /\ Fairness

-----------------------------------------------------------------------------
VoteKind == {"Prevote", "Precommit", "Timeout"}

PendingVote == [kind : VoteKind, round : Rounds, block : Maybe]

Stage == {"idle", "enforce", "deadtip", "unwind", "vote"}

Thread == [at : Stage, round : Rounds, todo : Seq(PendingVote)]

\* Types of the nodes' databases, vote files and threads.
TypeOK ==
    /\ VotesTypeOK
    /\ tip \in [Honest -> Maybe]
    /\ pol \in [Honest -> {NoPol} \cup [round : Rounds, block : Blocks]]
    /\ certs \in [Honest -> SUBSET Rounds]
    /\ record \in [Honest -> Maybe]
    /\ watermark \in [Honest -> BOOLEAN]
    /\ refused \in [Honest -> SUBSET (VoteKind \X Rounds)]
    /\ thread \in [Honest -> Thread]
    /\ proposed \in SUBSET Blocks

\* The nodes' signed votes implement the voting rules of module Consensus:
\* whatever the threads of a node do to its tip in the middle of try_step, and
\* whatever it forgets in a restart, each vote it signs is one V1-V6 allow.
ImplementsConsensus == VoteSpec

\* No two nodes ever store FinalityRecords naming different blocks, and a
\* watermark covers the height only on the very block the record names: what
\* one node calls final, no other node's final block contradicts.
FinalityAgrees ==
    \A n, m \in Honest :
        /\ record[n] # NoBlock /\ record[m] # NoBlock => record[n] = record[m]
        /\ watermark[n] => tip[n] # NoBlock /\ tip[n] = record[n]

\* The blocks under the nodes' watermarks implement module Decision: they agree,
\* and such a block is never unwound or replaced, by any of the four places that
\* revert (try_step, enforce_certificate, unwind_dead_tip, supersede_dead_tip) or
\* by divergence recovery: the watermark floor in revert_to, which this module
\* leaves out, is a backstop none of them needs.
Promise == INSTANCE Decision WITH
    Nodes  <- Honest,
    Values <- Blocks,
    None   <- NoBlock,
    final  <- [n \in Honest |-> IF watermark[n] THEN tip[n] ELSE NoBlock]

ImplementsDecision == Promise!Spec

\* A node gives up the block it is locked on only when another block has the
\* certificate of the height: neither the round's timeout nor a later round's
\* proposal takes it away (N2, N4).
LockedBlockIsKept ==
    [][\A n \in Honest :
          HoldsLocked(n) /\ tip'[n] # tip[n] =>
              \E b \in Blocks \ {tip[n]} : Decided(b)]_vars

\* A node that stores a certificate ends with the certified block under its
\* watermark, although a crash can fall between the record and its enforcement
\* and the producer can fill the height meanwhile.
CertifiedIsHeld == \A n \in Honest : record[n] # NoBlock ~> watermark[n]

-----------------------------------------------------------------------------
(***************************************************************************)
(* The inductive invariant behind the two refinements.                     *)
(***************************************************************************)

\* A vote try_step decided on is not signed yet, and follows the lock the thread
\* read, which only it replaces.
Allowed(n, v) ==
    /\ ~Signed(n, v.kind, v.round)
    /\ v.kind = "Precommit" => pol[n] = [round |-> v.round, block |-> v.block]
    /\ v.kind = "Prevote" => v.block \in Blocks /\ (Locked(n) => pol[n].block = v.block)
    /\ v.kind = "Timeout" => v.round # MaxRound

TodoIsAllowed(n) ==
    LET todo == thread[n].todo
    IN  /\ \A i \in DOMAIN todo : Allowed(n, todo[i])
        /\ \A i, j \in DOMAIN todo : i # j => todo[i].kind # todo[j].kind
        /\ thread[n].at = "vote" => todo # <<>>

\* What a node's database says was voted: its lock is a quorum of prevotes, its
\* finality record a quorum of precommits, and the watermark is on that block.
DatabaseIsBacked(n) ==
    /\ pol[n] # NoPol => Pol(pol[n].round, pol[n].block)
    /\ record[n] # NoBlock => Decided(record[n])
    /\ watermark[n] => tip[n] # NoBlock /\ tip[n] = record[n]
    /\ thread[n].at = "enforce" => record[n] # NoBlock

\* The bound on the rounds is never reached by a timeout, so every current round
\* is one of the model's.
RoundsAreBounded ==
    /\ \A v \in timeouts : v.round # MaxRound
    /\ \A n \in Honest : MaxRound \notin certs[n]

\* What every step of a node preserves.
FinalityInv ==
    /\ TypeOK
    /\ RoundsAreBounded
    /\ SafetyInv
    /\ \A n \in Honest : TodoIsAllowed(n) /\ DatabaseIsBacked(n)

=============================================================================
