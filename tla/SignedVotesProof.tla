-------------------------- MODULE SignedVotesProof --------------------------
(***************************************************************************)
(* The slashing-protection file keeps V1, V2 and V3 for any number of      *)
(* heights, rounds and blocks, through write failures, crashes between any *)
(* two steps, and pruning.                                                 *)
(***************************************************************************)
EXTENDS SignedVotes, SetFacts, TLAPS

\* The rounds precommitted at a height have a latest one: lock() is not empty
\* when a precommit is recorded, and it is at least as late as any of them.
LEMMA LockIsLatest ==
    ASSUME TypeOK, NEW h \in Heights, NEW e \in PrecommitsAt(h)
    PROVE  \E l \in lock(h) : e.round <= l.round
  <1> DEFINE S == {d.round : d \in PrecommitsAt(h)}
  <1>1. \A d \in PrecommitsAt(h) : d.round \in Rounds
    BY DEF TypeOK, PrecommitsAt, Entry
  <1>2. S \in SUBSET Nat /\ S # {} /\ \A s \in S : s <= MaxRound
    BY <1>1, ConstantsAssumption DEF Rounds
  <1>3. PICK m \in S : \A s \in S : s <= m
    <2> HIDE DEF S
    <2> QED  BY <1>2, LargestElement, ConstantsAssumption, Zenon
  <1>4. PICK l \in PrecommitsAt(h) : l.round = m
    OBVIOUS
  <1> QED  BY <1>3, <1>4 DEF lock

\* A new prevote that passes claim_prevote's lock check fits the record.
LEMMA FreshPrevote ==
    ASSUME SignedVotesInv,
           NEW h \in Heights, NEW r \in Rounds, NEW b \in Hashes,
           NEW pol \in PolRoundsFor(h, b),
           LockAllows(h, r, b, pol),
           Claimable(Vote("Prevote", h, r, b)),
           ~AlreadyClaimed(Vote("Prevote", h, r, b))
    PROVE  Consistent(entries \cup {Vote("Prevote", h, r, b)})
  <1> DEFINE v == Vote("Prevote", h, r, b)
  <1>0. TypeOK /\ Consistent(entries)
    BY DEF SignedVotesInv
  <1>1. v.kind = "Prevote" /\ v.height = h /\ v.round = r /\ v.hash = b
    BY DEF Vote
  <1>2. \A e \in entries : e.kind = "Prevote" /\ e.height = h /\ e.round = r
                             => e.hash = b
    BY <1>1 DEF Claimable, Conflicts
  <1>3. \A e \in entries : e.height = h => ~(e.round > r)
    BY <1>1 DEF Claimable, RoundLeft
  <1>4. ASSUME NEW p \in entries,
               p.kind = "Precommit", p.height = h, p.round < r, p.hash # b
        PROVE  \E q \in Pols : /\ q.height = h
                               /\ q.hash = b
                               /\ p.round <= q.round
                               /\ q.round <= r
    <2>1. p \in PrecommitsAt(h)
      BY <1>4 DEF PrecommitsAt
    <2>2. PICK l \in lock(h) : p.round <= l.round
      BY <1>0, <2>1, LockIsLatest
    <2>3. l \in entries /\ l.kind = "Precommit" /\ l.height = h
      BY <2>2 DEF lock, PrecommitsAt
    <2>4. p.round \in Int /\ l.round \in Int /\ r \in Int
      BY <1>0, <1>4, <2>3 DEF TypeOK, Entry, Rounds
    <2>5. l.round <= r
      BY <1>3, <2>3, <2>4
    <2>6. CASE l.hash = b
      <3> DEFINE q == [height |-> l.height, round |-> l.round, hash |-> l.hash]
      <3>1. q \in Pols
        BY <1>0, <2>3 DEF Consistent
      <3>2. q.height = h /\ q.hash = b /\ q.round = l.round
        BY <2>3, <2>6
      <3> HIDE DEF q
      <3> QED  BY <2>2, <2>5, <3>1, <3>2
    <2>7. CASE l.hash # b
      <3>1. pol # NoPol /\ l.round <= pol /\ pol <= r
        BY <2>2, <2>7 DEF LockAllows
      <3>2. PICK q \in Pols : q.height = h /\ q.hash = b /\ pol = q.round
        BY <3>1 DEF PolRoundsFor
      <3>3. q.round \in Int
        BY ConstantsAssumption DEF Rounds
      <3> QED  BY <2>2, <2>4, <3>1, <3>2, <3>3
    <2> QED  BY <2>6, <2>7
  <1> HIDE DEF v
  <1>5. OneVotePerSlot(entries \cup {v})
    BY <1>0, <1>1, <1>2 DEF Consistent, OneVotePerSlot
  <1>6. UnlockedByPol(entries \cup {v})
    BY <1>0, <1>1, <1>4 DEF Consistent, UnlockedByPol
  <1>7. \A e \in entries \cup {v} : e.kind = "Precommit" =>
          [height |-> e.height, round |-> e.round, hash |-> e.hash] \in Pols
    BY <1>0, <1>1 DEF Consistent
  <1> QED  BY <1>5, <1>6, <1>7 DEF Consistent, v

\* A new precommit backed by a quorum of prevotes fits the record: no prevote
\* of a later round is in it.
LEMMA FreshPrecommit ==
    ASSUME SignedVotesInv, NEW p \in Pols,
           Claimable(Vote("Precommit", p.height, p.round, p.hash)),
           ~AlreadyClaimed(Vote("Precommit", p.height, p.round, p.hash))
    PROVE  Consistent(entries \cup {Vote("Precommit", p.height, p.round, p.hash)})
  <1> DEFINE v == Vote("Precommit", p.height, p.round, p.hash)
  <1>0. TypeOK /\ Consistent(entries)
    BY DEF SignedVotesInv
  <1>1. /\ v.kind = "Precommit" /\ v.height = p.height
        /\ v.round = p.round /\ v.hash = p.hash
    BY DEF Vote
  <1>2. \A e \in entries :
          e.kind = "Precommit" /\ e.height = p.height /\ e.round = p.round
            => e.hash = p.hash
    BY <1>1 DEF Claimable, Conflicts
  <1>3. \A e \in entries : e.height = p.height => ~(e.round > p.round)
    BY <1>1 DEF Claimable, RoundLeft
  <1>4. p = [height |-> v.height, round |-> v.round, hash |-> v.hash]
    BY <1>1, ConstantsAssumption
  <1>5. \A e \in entries : e.round \in Int
    BY <1>0 DEF TypeOK, Entry, Rounds
  <1>6. p.round \in Int
    BY ConstantsAssumption DEF Rounds
  <1> HIDE DEF v
  <1>7. OneVotePerSlot(entries \cup {v})
    BY <1>0, <1>1, <1>2 DEF Consistent, OneVotePerSlot
  <1>8. UnlockedByPol(entries \cup {v})
    BY <1>0, <1>1, <1>3, <1>5, <1>6 DEF Consistent, UnlockedByPol
  <1>9. \A e \in entries \cup {v} : e.kind = "Precommit" =>
          [height |-> e.height, round |-> e.round, hash |-> e.hash] \in Pols
    BY <1>0, <1>4 DEF Consistent
  <1> QED  BY <1>7, <1>8, <1>9 DEF Consistent, v

\* A new timeout vote fits the record.
LEMMA FreshTimeout ==
    ASSUME SignedVotesInv,
           NEW h \in Heights, NEW r \in Rounds, NEW p \in Parents,
           Claimable(Vote("Timeout", h, r, p))
    PROVE  Consistent(entries \cup {Vote("Timeout", h, r, p)})
  <1> DEFINE v == Vote("Timeout", h, r, p)
  <1>0. Consistent(entries)
    BY DEF SignedVotesInv
  <1>1. v.kind = "Timeout" /\ v.height = h /\ v.round = r /\ v.hash = p
    BY DEF Vote
  <1>2. \A e \in entries : e.kind = "Timeout" /\ e.height = h /\ e.round = r
                             => e.hash = p
    BY <1>1 DEF Claimable, Conflicts
  <1> HIDE DEF v
  <1>3. OneVotePerSlot(entries \cup {v})
    BY <1>0, <1>1, <1>2 DEF Consistent, OneVotePerSlot
  <1>4. UnlockedByPol(entries \cup {v})
    BY <1>0, <1>1 DEF Consistent, UnlockedByPol
  <1>5. \A e \in entries \cup {v} : e.kind = "Precommit" =>
          [height |-> e.height, round |-> e.round, hash |-> e.hash] \in Pols
    BY <1>0, <1>1 DEF Consistent
  <1> QED  BY <1>3, <1>4, <1>5 DEF Consistent, v

\* A vote above the floor that fits the record also fits everything released
\* so far: what was released at its height is still in the record.
LEMMA ReleaseConsistent ==
    ASSUME SignedVotesInv, NEW v \in Entry, v.height > floor,
           Consistent(entries \cup {v})
    PROVE  Consistent(released \cup {v})
  <1>1. \A w \in released : w.height = v.height => w \in entries
    BY DEF SignedVotesInv, ReleasedIsRemembered, TypeOK, Entry, Heights
  <1>2. Consistent(released)
    BY DEF SignedVotesInv
  <1>3. OneVotePerSlot(released \cup {v})
    BY <1>1, <1>2 DEF Consistent, OneVotePerSlot
  <1>4. UnlockedByPol(released \cup {v})
    BY <1>1, <1>2 DEF Consistent, UnlockedByPol
  <1>5. \A e \in released \cup {v} : e.kind = "Precommit" =>
          [height |-> e.height, round |-> e.round, hash |-> e.hash] \in Pols
    BY <1>2 DEF Consistent
  <1> QED  BY <1>3, <1>4, <1>5 DEF Consistent

\* claim() preserves the invariant, whether or not the file could be written.
LEMMA ClaimPreserves ==
    ASSUME SignedVotesInv, NEW v \in Entry, claim(v),
           ~AlreadyClaimed(v) => Consistent(entries \cup {v})
    PROVE  SignedVotesInv'
  <1>0. /\ TypeOK /\ Consistent(entries) /\ Consistent(disk.entries)
        /\ Consistent(released) /\ ReleasedIsRemembered /\ ReleasedIsDurable
        /\ entries \subseteq disk.entries
    BY DEF SignedVotesInv
  <1>1. Consistent(entries \cup {v})
    <2>1. CASE AlreadyClaimed(v)
      <3>1. entries \cup {v} = entries
        BY <2>1 DEF AlreadyClaimed
      <3> QED  BY <1>0, <3>1
    <2> QED  BY <2>1
  <1>2. CASE ClaimOk(v)
    <2>1. /\ v.height > floor
          /\ entries' = entries \cup {v}
          /\ released' = released \cup {v}
          /\ floor' = floor
      BY <1>2 DEF ClaimOk, Claimable
    <2>2. (disk' = disk /\ v \in entries) \/ disk' = File(floor, entries \cup {v})
      BY <1>2, <2>1 DEF ClaimOk, AlreadyClaimed
    <2>3. Consistent(entries')
      BY <1>1, <2>1
    <2>4. Consistent(released')
      BY <1>1, <2>1, ReleaseConsistent
    <2>5. ReleasedIsRemembered'
      BY <1>0, <2>1 DEF ReleasedIsRemembered
    <2>6. CASE disk' = File(floor, entries \cup {v})
      <3>1. disk'.entries = entries \cup {v} /\ disk'.floor = floor
        BY <2>6 DEF File
      <3>2. TypeOK'
        BY <1>0, <2>1, <2>6 DEF TypeOK, File
      <3>3. ReleasedIsDurable'
        BY <1>0, <2>1, <3>1 DEF ReleasedIsRemembered, ReleasedIsDurable
      <3> QED
        BY <1>1, <2>1, <2>3, <2>4, <2>5, <3>1, <3>2, <3>3 DEF SignedVotesInv
    <2>7. CASE disk' = disk /\ v \in entries
      <3>1. TypeOK'
        BY <1>0, <2>1, <2>7 DEF TypeOK
      <3>2. ReleasedIsDurable'
        BY <1>0, <2>1, <2>7 DEF ReleasedIsDurable
      <3>3. entries' \subseteq disk'.entries
        BY <1>0, <2>1, <2>7
      <3> QED
        BY <1>0, <2>3, <2>4, <2>5, <2>7, <3>1, <3>2, <3>3 DEF SignedVotesInv
    <2> QED  BY <2>2, <2>6, <2>7
  <1>3. CASE ClaimWriteFailed(v)
    <2>1. UNCHANGED <<floor, entries, released>>
      BY <1>3 DEF ClaimWriteFailed
    <2>2. CASE disk' = disk
      BY <1>0, <2>1, <2>2
      DEF SignedVotesInv, TypeOK, ReleasedIsRemembered, ReleasedIsDurable
    <2>3. CASE disk' = File(floor, entries \cup {v})
      <3>1. disk'.entries = entries \cup {v} /\ disk'.floor = floor
        BY <2>3 DEF File
      <3>2. TypeOK'
        BY <1>0, <2>1, <2>3 DEF TypeOK, File
      <3>3. ReleasedIsDurable' /\ ReleasedIsRemembered'
        BY <1>0, <2>1, <3>1 DEF ReleasedIsRemembered, ReleasedIsDurable
      <3> QED
        BY <1>0, <1>1, <2>1, <3>1, <3>2, <3>3 DEF SignedVotesInv
    <2> QED  BY <1>3, <2>2, <2>3 DEF ClaimWriteFailed
  <1> QED  BY <1>2, <1>3 DEF claim

\* Part of a consistent record is consistent.
LEMMA SubsetConsistent ==
    ASSUME NEW V, NEW W, W \subseteq V, Consistent(V)
    PROVE  Consistent(W)
  <1>1. OneVotePerSlot(W)
    BY DEF Consistent, OneVotePerSlot
  <1>2. UnlockedByPol(W)
    BY DEF Consistent, UnlockedByPol
  <1> QED  BY <1>1, <1>2 DEF Consistent

\* prune_below() preserves the invariant, whether or not the file could be
\* written.
LEMMA PrunePreserves ==
    ASSUME SignedVotesInv, NEW cutoff \in 2 .. MaxHeight + 1,
           prune_below(cutoff)
    PROVE  SignedVotesInv'
  <1> DEFINE f == cutoff - 1
             kept == {e \in entries : e.height > f}
  <1>0. /\ TypeOK /\ Consistent(entries) /\ Consistent(disk.entries)
        /\ Consistent(released) /\ ReleasedIsRemembered /\ ReleasedIsDurable
        /\ entries \subseteq disk.entries
    BY DEF SignedVotesInv
  <1>1. /\ f > floor /\ floor' = f /\ entries' = kept /\ released' = released
        /\ disk' = disk \/ disk' = File(f, kept)
    BY DEF prune_below
  <1>2. f \in 0 .. MaxHeight
    BY ConstantsAssumption
  <1>3. kept \in SUBSET entries
    OBVIOUS
  <1>4. Consistent(kept)
    BY <1>0, <1>3, SubsetConsistent
  <1>5. \A v \in released : v \in kept \/ v.height <= f
    <2> SUFFICES ASSUME NEW v \in released PROVE v \in kept \/ v.height <= f
      OBVIOUS
    <2>1. v.height \in Int /\ floor \in Int /\ f \in Int
      BY <1>0, <1>2 DEF TypeOK, Entry, Heights
    <2> QED  BY <1>0, <1>1, <2>1 DEF ReleasedIsRemembered
  <1> HIDE DEF kept, f
  <1>6. ReleasedIsRemembered'
    BY <1>1, <1>5 DEF ReleasedIsRemembered
  <1>7. CASE disk' = disk
    <2>1. TypeOK'
      BY <1>0, <1>1, <1>2, <1>3, <1>7 DEF TypeOK
    <2>2. ReleasedIsDurable'
      BY <1>0, <1>1, <1>7 DEF ReleasedIsDurable
    <2> QED
      BY <1>0, <1>1, <1>3, <1>4, <1>6, <1>7, <2>1, <2>2 DEF SignedVotesInv
  <1>8. CASE disk' = File(f, kept)
    <2>1. disk'.entries = kept /\ disk'.floor = f
      BY <1>8 DEF File
    <2>2. TypeOK'
      BY <1>0, <1>1, <1>2, <1>3, <1>8 DEF TypeOK, File
    <2>3. ReleasedIsDurable'
      BY <1>1, <1>5, <2>1 DEF ReleasedIsDurable
    <2> QED
      BY <1>0, <1>1, <1>4, <1>6, <2>1, <2>2, <2>3 DEF SignedVotesInv
  <1> QED  BY <1>1, <1>7, <1>8

\* A restart from the file preserves the invariant.
LEMMA RestartPreserves ==
    ASSUME SignedVotesInv, Restart
    PROVE  SignedVotesInv'
  <1>1. TypeOK'
    BY DEF SignedVotesInv, TypeOK, Restart
  <1>2. ReleasedIsRemembered' /\ ReleasedIsDurable'
    BY DEF SignedVotesInv, ReleasedIsRemembered, ReleasedIsDurable, Restart
  <1> QED
    BY <1>1, <1>2 DEF SignedVotesInv, Restart

-----------------------------------------------------------------------------
\* The record starts empty.
LEMMA InitSigned == Init => SignedVotesInv
  BY ConstantsAssumption
  DEF Init, SignedVotesInv, TypeOK, File, Consistent, OneVotePerSlot,
      UnlockedByPol, ReleasedIsRemembered, ReleasedIsDurable

\* Every step preserves the invariant.
LEMMA StepSigned == SignedVotesInv /\ [Next]_vars => SignedVotesInv'
  <1> SUFFICES ASSUME SignedVotesInv, [Next]_vars PROVE SignedVotesInv'
    OBVIOUS
  <1>1. ASSUME NEW h \in Heights, NEW r \in Rounds, NEW b \in Hashes,
               NEW pol \in PolRoundsFor(h, b), claim_prevote(h, r, b, pol)
        PROVE  SignedVotesInv'
    <2>1. Vote("Prevote", h, r, b) \in Entry
      BY DEF Vote, Entry, Kinds
    <2>2. Claimable(Vote("Prevote", h, r, b))
      BY <1>1 DEF claim_prevote, claim, ClaimOk, ClaimWriteFailed
    <2> QED
      BY <1>1, <2>1, <2>2, FreshPrevote, ClaimPreserves, Zenon DEF claim_prevote
  <1>2. ASSUME NEW p \in Pols, claim_precommit(p.height, p.round, p.hash)
        PROVE  SignedVotesInv'
    <2>1. Vote("Precommit", p.height, p.round, p.hash) \in Entry
      BY ConstantsAssumption DEF Vote, Entry, Kinds
    <2>2. Claimable(Vote("Precommit", p.height, p.round, p.hash))
      BY <1>2 DEF claim_precommit, claim, ClaimOk, ClaimWriteFailed
    <2> QED
      BY <1>2, <2>1, <2>2, FreshPrecommit, ClaimPreserves, Zenon DEF claim_precommit
  <1>3. ASSUME NEW h \in Heights, NEW r \in Rounds, NEW p \in Parents,
               claim_timeout(h, r, p)
        PROVE  SignedVotesInv'
    <2>1. Vote("Timeout", h, r, p) \in Entry
      BY DEF Vote, Entry, Kinds
    <2>2. Claimable(Vote("Timeout", h, r, p))
      BY <1>3 DEF claim_timeout, claim, ClaimOk, ClaimWriteFailed
    <2> QED
      BY <1>3, <2>1, <2>2, FreshTimeout, ClaimPreserves, Zenon DEF claim_timeout
  <1>4. CASE UNCHANGED vars
    BY <1>4 DEF SignedVotesInv, vars, TypeOK, ReleasedIsRemembered, ReleasedIsDurable
  <1> QED
    BY <1>1, <1>2, <1>3, <1>4, PrunePreserves, RestartPreserves DEF Next

\* The record keeps its inductive invariant in every behaviour.
THEOREM SignedVotesSafe == Spec => []SignedVotesInv
  BY InitSigned, StepSigned, PTL DEF Spec

\* Floor, entries, file and history keep their types.
THEOREM SignedVotesType == Spec => []TypeOK
  <1>1. SignedVotesInv => TypeOK
    BY DEF SignedVotesInv
  <1> QED  BY <1>1, SignedVotesSafe, PTL

\* V1 for ever: no two different votes of a kind at one (height, round).
THEOREM NoEquivocationHolds == Spec => []NoEquivocation
  <1>1. SignedVotesInv => NoEquivocation
    BY DEF SignedVotesInv, Consistent, NoEquivocation
  <1> QED  BY <1>1, SignedVotesSafe, PTL

\* V3 for ever: a lock is left only for a quorum of prevotes.
THEOREM UnlockedOnlyByPolHolds == Spec => []UnlockedOnlyByPol
  <1>1. SignedVotesInv => UnlockedOnlyByPol
    BY DEF SignedVotesInv, Consistent, UnlockedOnlyByPol
  <1> QED  BY <1>1, SignedVotesSafe, PTL

\* Nothing is released that a crash could forget.
THEOREM ReleasedIsDurableHolds == Spec => []ReleasedIsDurable
  <1>1. SignedVotesInv => ReleasedIsDurable
    BY DEF SignedVotesInv
  <1> QED  BY <1>1, SignedVotesSafe, PTL

\* A newly released vote was claimed in this very step, and what was released
\* before at its height is in the record the claim looked at.
LEMMA StepRespectsLeftRounds ==
    SignedVotesInv /\ [Next]_vars => NoNewVoteInALeftRound
  <1> SUFFICES ASSUME SignedVotesInv, [Next]_vars,
                      NEW v \in released' \ (released \cup entries),
                      v.kind # "Timeout",
                      NEW w \in released, w.height = v.height
               PROVE  /\ w.round <= v.round
                      /\ w.round = v.round => w.kind # "Timeout"
    BY DEF NoNewVoteInALeftRound
  <1>1. ClaimOk(v) /\ v \in Entry
    <2>1. \A u : claim(u) => released' \in {released, released \cup {u}}
      BY DEF claim, ClaimOk, ClaimWriteFailed
    <2>2. \A u : claim(u) /\ released' # released => ClaimOk(u)
      BY DEF claim, ClaimWriteFailed
    <2>3. PICK u \in Entry : claim(u)
      <3>1. \A h \in Heights, r \in Rounds, b \in Hashes :
              Vote("Prevote", h, r, b) \in Entry
        BY DEF Vote, Entry, Kinds
      <3>2. \A p \in Pols : Vote("Precommit", p.height, p.round, p.hash) \in Entry
        BY ConstantsAssumption DEF Vote, Entry, Kinds
      <3>3. \A h \in Heights, r \in Rounds, p \in Parents :
              Vote("Timeout", h, r, p) \in Entry
        BY DEF Vote, Entry, Kinds
      <3> QED
        BY <3>1, <3>2, <3>3, Zenon
        DEF Next, vars, claim_prevote, claim_precommit, claim_timeout,
            prune_below, Restart
    <2> QED  BY <2>1, <2>2, <2>3
  <1>2. w \in entries
    <2>1. v.height > floor
      BY <1>1 DEF ClaimOk, Claimable
    <2> QED
      BY <1>1, <2>1 DEF SignedVotesInv, ReleasedIsRemembered, TypeOK, Entry, Heights
  <1>3. ~RoundLeft(v)
    BY <1>1 DEF ClaimOk, Claimable, AlreadyClaimed
  <1>4. w.round \in Int /\ v.round \in Int
    BY <1>1, <1>2 DEF SignedVotesInv, TypeOK, Entry, Rounds
  <1> QED  BY <1>2, <1>3, <1>4 DEF RoundLeft

\* V2 for ever: no new prevote or precommit in a round already left.
THEOREM NeverVotesInALeftRoundHolds == Spec => NeverVotesInALeftRound
  BY SignedVotesSafe, StepRespectsLeftRounds, PTL
  DEF Spec, NeverVotesInALeftRound

=============================================================================
