---------------------------- MODULE SignedVotes ----------------------------
(***************************************************************************)
(* The slashing-protection file of one validator's finality votes          *)
(* (arxd/finality/src/signed_votes.rs).                                    *)
(*                                                                         *)
(* The finality engine asks for permission before it signs: claim_prevote, *)
(* claim_precommit and claim_timeout record the vote durably and return    *)
(* Ok, or return Err and the vote is not signed.  The chain database may   *)
(* be wiped, restored or rolled back at any time, so nothing is assumed of *)
(* the order in which the engine asks: every claim is possible in every    *)
(* state.  What the engine passes as `pol_round`, and the precommits it    *)
(* asks for, are backed by a quorum of prevotes (a PolRecord); Pols is the *)
(* set of those that exist.                                                *)
(***************************************************************************)
EXTENDS Integers, FiniteSets

CONSTANTS
    MaxHeight,  \* heights are 1 .. MaxHeight
    MaxRound,   \* rounds are 0 .. MaxRound
    Hashes,     \* block hashes, what a prevote or a precommit names
    Parents,    \* parent hashes, what a timeout names
    Pols        \* the quorums of prevotes that exist: [height, round, hash]

Heights == 1 .. MaxHeight
Rounds == 0 .. MaxRound
Kinds == {"Prevote", "Precommit", "Timeout"}
Entry == [kind : Kinds, height : Heights, round : Rounds, hash : Hashes \cup Parents]

\* A quorum of prevotes names one block per (height, round): two different
\* ones would need two quorums of one round to share only faulty validators
\* (module QuorumPower shows they do not).
ASSUME ConstantsAssumption ==
    /\ MaxHeight \in Nat
    /\ MaxRound \in Nat
    /\ Pols \subseteq [height : Heights, round : Rounds, hash : Hashes]
    /\ \A p, q \in Pols :
          p.height = q.height /\ p.round = q.round => p.hash = q.hash

VARIABLES
    floor,      \* SignedVotes::floor, in memory
    entries,    \* SignedVotes::entries, in memory
    disk,       \* the file: what load() would find after a crash
    released    \* every vote a claim has ever returned Ok for (history)

vars == <<floor, entries, disk, released>>

NoPol == -1

Vote(k, h, r, b) == [kind |-> k, height |-> h, round |-> r, hash |-> b]

File(f, es) == [floor |-> f, entries |-> es]

-----------------------------------------------------------------------------
\* The file does not exist yet: load() starts empty.
Init ==
    /\ floor = 0
    /\ entries = {}
    /\ disk = File(0, {})
    /\ released = {}

PrecommitsAt(h) == {e \in entries : e.kind = "Precommit" /\ e.height = h}

\* `lock(height)`: the latest precommit recorded at h (none when the set is
\* empty; at most one otherwise, see NoEquivocation).
lock(h) ==
    {e \in PrecommitsAt(h) : \A d \in PrecommitsAt(h) : d.round <= e.round}

\* Mutant of LockAllows: a POL older than the lock releases it.
LockAllowsMutant(h, r, b, pol) ==
    \A e \in lock(h) : e.hash = b \/ (pol # NoPol /\ pol <= r)

\* The check `claim_prevote` makes before it falls through to `claim`.
LockAllows(h, r, b, pol) ==
    \A e \in lock(h) :
        \/ e.hash = b
        \/ pol # NoPol /\ e.round <= pol /\ pol <= r

\* `claim`, the part that decides.  An identical vote is allowed again before
\* the round-left rule is looked at.
AlreadyClaimed(v) == v \in entries

\* Mutant of Conflicts: only the last precommit is compared.
ConflictsMutant(v) ==
    \E e \in lock(v.height) :
        e.kind = v.kind /\ e.round = v.round /\ e.hash # v.hash

Conflicts(v) ==
    \E e \in entries : /\ e.kind = v.kind
                       /\ e.height = v.height
                       /\ e.round = v.round
                       /\ e.hash # v.hash

\* Mutant of RoundLeft: a timeout does not end the round.
RoundLeftMutant(v) ==
    /\ v.kind # "Timeout"
    /\ \E e \in entries : e.height = v.height /\ e.round > v.round

RoundLeft(v) ==
    /\ v.kind # "Timeout"
    /\ \E e \in entries :
          /\ e.height = v.height
          /\ \/ e.round > v.round
             \/ e.round = v.round /\ e.kind = "Timeout"

Claimable(v) ==
    /\ v.height > floor
    /\ ~Conflicts(v)
    /\ AlreadyClaimed(v) \/ ~RoundLeft(v)

\* Mutant of ClaimOk: the file is left for later.
ClaimOkMutant(v) ==
    /\ Claimable(v)
    /\ entries' = entries \cup {v}
    /\ released' = released \cup {v}
    /\ UNCHANGED <<floor, disk>>

\* `claim` when it returns Ok: the identical entry is already there, or the
\* new entry is pushed and the file replaced durably before the caller signs.
ClaimOk(v) ==
    /\ Claimable(v)
    /\ entries' = entries \cup {v}
    /\ disk' = IF AlreadyClaimed(v) THEN disk ELSE File(floor, entries')
    /\ released' = released \cup {v}
    /\ UNCHANGED floor

\* `claim` when persist() fails: the entry is popped and Err returned.  The
\* failure can come after the rename (the fsync of the directory), so the
\* file may hold the entry or not.
ClaimWriteFailed(v) ==
    /\ Claimable(v)
    /\ ~AlreadyClaimed(v)
    /\ disk' \in {disk, File(floor, entries \cup {v})}
    /\ UNCHANGED <<floor, entries, released>>

claim(v) == ClaimOk(v) \/ ClaimWriteFailed(v)

claim_prevote(h, r, b, pol) ==
    /\ LockAllows(h, r, b, pol)
    /\ claim(Vote("Prevote", h, r, b))

claim_precommit(h, r, b) == claim(Vote("Precommit", h, r, b))

claim_timeout(h, r, p) == claim(Vote("Timeout", h, r, p))

\* `prune_below(cutoff)`: floor and entries change in memory whether or not
\* the file could be replaced.
prune_below(cutoff) ==
    LET f == cutoff - 1
        kept == {e \in entries : e.height > f}
    IN  /\ f > floor
        /\ floor' = f
        /\ entries' = kept
        /\ disk' \in {disk, File(f, kept)}
        /\ UNCHANGED released

\* The process stops at any point and starts again: memory is what load()
\* reads from the file.
Restart ==
    /\ floor' = disk.floor
    /\ entries' = disk.entries
    /\ UNCHANGED <<disk, released>>

\* The caller passes the round of a PolRecord it holds for the very block it
\* prevotes, or none.
PolRoundsFor(h, b) ==
    {NoPol} \cup {p.round : p \in {q \in Pols : q.height = h /\ q.hash = b}}

Next ==
    \/ \E h \in Heights, r \in Rounds, b \in Hashes :
          \E pol \in PolRoundsFor(h, b) : claim_prevote(h, r, b, pol)
    \/ \E p \in Pols : claim_precommit(p.height, p.round, p.hash)
    \/ \E h \in Heights, r \in Rounds, p \in Parents : claim_timeout(h, r, p)
    \/ \E cutoff \in 2 .. MaxHeight + 1 : prune_below(cutoff)
    \/ Restart

Spec == Init /\ [][Next]_vars

-----------------------------------------------------------------------------
\* Types of the in-memory record, the file and the history.
TypeOK ==
    /\ floor \in 0 .. MaxHeight
    /\ entries \in SUBSET Entry
    /\ disk \in [floor : 0 .. MaxHeight, entries : SUBSET Entry]
    /\ released \in SUBSET Entry

\* Of a set of votes: one block per (kind, height, round).
OneVotePerSlot(V) ==
    \A v, w \in V :
        /\ v.kind = w.kind
        /\ v.height = w.height
        /\ v.round = w.round
        => v.hash = w.hash

\* Of a set of votes: whenever it holds a precommit and, in a later round of
\* the height, a prevote for another block, a quorum of prevotes for that other
\* block exists in a round from the precommit's to the prevote's.
UnlockedByPol(V) ==
    \A p, v \in V :
        /\ p.kind = "Precommit"
        /\ v.kind = "Prevote"
        /\ p.height = v.height
        /\ p.round < v.round
        /\ p.hash # v.hash
        => \E q \in Pols : /\ q.height = v.height
                           /\ q.hash = v.hash
                           /\ p.round <= q.round
                           /\ q.round <= v.round

\* V1: over the whole life of the validator -- write failures, restarts and
\* pruning included -- claim() never lets two votes of one kind at one
\* (height, round) name different blocks.
NoEquivocation == OneVotePerSlot(released)

\* The record comes before the signature: a vote whose claim returned Ok is in
\* the file, or at a height the file's floor refuses, whatever failed since.
ReleasedIsDurable ==
    \A v \in released : v \in disk.entries \/ v.height <= disk.floor

\* V3 seen from outside: a prevote for another block than one precommitted in
\* an earlier round of the height is backed by a quorum of prevotes for that
\* other block, in a round no older than the precommit's and no newer than the
\* prevote's.
UnlockedOnlyByPol == UnlockedByPol(released)

NoNewVoteInALeftRound ==
    \A v \in released' \ (released \cup entries) :
        v.kind # "Timeout" =>
            \A w \in released :
                w.height = v.height =>
                    /\ w.round <= v.round
                    /\ w.round = v.round => w.kind # "Timeout"

\* V2: a claim never records a new prevote or precommit in a round the
\* validator has left -- one it timed out, or one older than any vote it ever
\* released at the height.  (A vote that reached the file and was not signed
\* before a crash may still be released later: its record has bound the
\* validator since it was written.)
NeverVotesInALeftRound == [][NoNewVoteInALeftRound]_vars

-----------------------------------------------------------------------------
(***************************************************************************)
(* The inductive invariant: memory and file each hold, or refuse by their  *)
(* floor, every released vote, and each is consistent by itself.           *)
(***************************************************************************)
Consistent(V) ==
    /\ OneVotePerSlot(V)
    /\ UnlockedByPol(V)
    /\ \A v \in V : v.kind = "Precommit" =>
          [height |-> v.height, round |-> v.round, hash |-> v.hash] \in Pols

ReleasedIsRemembered ==
    \A v \in released : v \in entries \/ v.height <= floor

\* What every claim, write failure, pruning and restart preserves.
SignedVotesInv ==
    /\ TypeOK
    /\ Consistent(entries)
    /\ Consistent(disk.entries)
    /\ Consistent(released)
    /\ entries \subseteq disk.entries
    /\ ReleasedIsRemembered
    /\ ReleasedIsDurable

=============================================================================
