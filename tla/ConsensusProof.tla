--------------------------- MODULE ConsensusProof ---------------------------
(***************************************************************************)
(* Agreement of the voting protocol for every validator set, every group   *)
(* of faulty validators below a third of the power, any number of rounds   *)
(* and blocks.                                                             *)
(***************************************************************************)
EXTENDS Consensus, SetFacts, FiniteSetTheorems, TLAPS

UnitsOf(S) == {u \in Units : owner[u] \in S}

-----------------------------------------------------------------------------
(***************************************************************************)
(* Quorum arithmetic.                                                      *)
(***************************************************************************)

\* There are as many units as TOTAL_VOTING_POWER says.
LEMMA IntervalCardinality ==
    \A n \in Nat : IsFiniteSet(1 .. n) /\ Cardinality(1 .. n) = n
  BY FS_Interval

\* The units a group owns are finitely many, and more signers own more.
LEMMA UnitsFinite ==
    ASSUME NEW S, NEW T, S \subseteq T
    PROVE  /\ IsFiniteSet(UnitsOf(S))
           /\ signed_power(S) = Cardinality(UnitsOf(S))
           /\ signed_power(S) \in Nat
           /\ signed_power(S) <= signed_power(T)
           /\ signed_power(T) <= TOTAL_VOTING_POWER
  <1>1. IsFiniteSet(Units) /\ Cardinality(Units) = TOTAL_VOTING_POWER
    <2>1. TOTAL_VOTING_POWER \in Nat
      BY DEF TOTAL_VOTING_POWER
    <2> QED  BY <2>1, IntervalCardinality DEF Units
  <1>2. UnitsOf(T) \in SUBSET Units /\ UnitsOf(S) \in SUBSET UnitsOf(T)
    BY DEF UnitsOf
  <1>3. IsFiniteSet(UnitsOf(T)) /\ Cardinality(UnitsOf(T)) <= TOTAL_VOTING_POWER
    BY <1>1, <1>2, FS_Subset
  <1>4. /\ IsFiniteSet(UnitsOf(S))
        /\ Cardinality(UnitsOf(S)) <= Cardinality(UnitsOf(T))
    BY <1>2, <1>3, FS_Subset
  <1>5. Cardinality(UnitsOf(S)) \in Nat
    BY <1>4, FS_CardinalityType
  <1> QED
    BY <1>3, <1>4, <1>5 DEF signed_power, UnitsOf

\* A group of validators with a quorum in it is a quorum (quorum_reached is
\* monotone in the signers).
LEMMA QuorumMonotone ==
    ASSUME NEW S \in Quorums, NEW T \in SUBSET Validators, S \subseteq T
    PROVE  T \in Quorums
  <1>1. signed_power(S) >= QUORUM_POWER
    BY DEF Quorums
  <1>2. /\ signed_power(S) \in Nat
        /\ signed_power(T) \in Nat
        /\ signed_power(S) <= signed_power(T)
    BY UnitsFinite
  <1> QED  BY <1>1, <1>2 DEF Quorums, QUORUM_POWER

\* Any two groups that reach QUORUM_POWER share an honest validator: together
\* they hold 13334 of 10000 units, and at most 3333 of the 3334 counted twice
\* are faulty.
THEOREM QuorumIntersection ==
    \A S, T \in Quorums : \E v \in S \cap T : v \in Honest
  <1> SUFFICES ASSUME NEW S \in Quorums, NEW T \in Quorums,
                      \A v \in S \cap T : v \notin Honest
               PROVE  FALSE
    OBVIOUS
  <1>1. /\ S \in SUBSET Validators /\ signed_power(S) >= 6667
        /\ T \in SUBSET Validators /\ signed_power(T) >= 6667
    BY DEF Quorums, QUORUM_POWER
  <1>2. /\ IsFiniteSet(UnitsOf(S)) /\ signed_power(S) = Cardinality(UnitsOf(S))
        /\ IsFiniteSet(UnitsOf(T)) /\ signed_power(T) = Cardinality(UnitsOf(T))
        /\ signed_power(S) \in Nat /\ signed_power(T) \in Nat
    BY UnitsFinite
  <1> DEFINE Both == UnitsOf(S) \cap UnitsOf(T)
             Either == UnitsOf(S) \cup UnitsOf(T)
  <1>3. Cardinality(Either) <= 10000
    <2>1. Either = UnitsOf(S \cup T)
      BY DEF UnitsOf
    <2>2. /\ signed_power(S \cup T) = Cardinality(UnitsOf(S \cup T))
          /\ signed_power(S \cup T) <= TOTAL_VOTING_POWER
      BY UnitsFinite, S \cup T \subseteq S \cup T, Zenon
    <2> HIDE DEF Either
    <2> QED  BY <2>1, <2>2 DEF TOTAL_VOTING_POWER
  <1>4. Cardinality(Both) <= 3333
    <2>1. Both = UnitsOf(S \cap T)
      BY DEF UnitsOf
    <2>2. S \cap T \subseteq Faulty
      BY <1>1 DEF Honest
    <2>3. /\ signed_power(S \cap T) <= signed_power(Faulty)
          /\ signed_power(S \cap T) \in Nat
          /\ signed_power(S \cap T) = Cardinality(UnitsOf(S \cap T))
      BY <2>2, UnitsFinite, Zenon
    <2>4. signed_power(Faulty) \in Nat
      BY UnitsFinite, Faulty \subseteq Faulty, Zenon
    <2>5. signed_power(Faulty) <= 3333
      BY <2>4, PowerAssumption DEF TOTAL_VOTING_POWER, QUORUM_POWER
    <2> HIDE DEF Both
    <2> QED  BY <2>1, <2>3, <2>4, <2>5
  <1>5. /\ Cardinality(Either) =
             Cardinality(UnitsOf(S)) + Cardinality(UnitsOf(T)) - Cardinality(Both)
        /\ Cardinality(Both) \in Nat
    BY <1>2, FS_Union, FS_Intersection, FS_CardinalityType, Zenon
  <1> HIDE DEF Both, Either
  <1> QED  BY <1>1, <1>2, <1>3, <1>4, <1>5

-----------------------------------------------------------------------------
(***************************************************************************)
(* Votes are only ever added, so what they establish stays established.    *)
(***************************************************************************)

\* Whoever prevotes or precommits a block is a validator.
LEMMA VotersAreValidators ==
    \A r, b : /\ PrevotersOf(r, b) \in SUBSET Validators
             /\ PrecommittersOf(r, b) \in SUBSET Validators
  BY PowerAssumption DEF PrevotersOf, PrecommittersOf, Honest

\* A quorum of prevotes is never taken back.
LEMMA PolMonotone ==
    ASSUME prevotes \subseteq prevotes', NEW r, NEW b, Pol(r, b)
    PROVE  Pol(r, b)'
  <1>1. PrevotersOf(r, b) \subseteq PrevotersOf(r, b)'
    BY DEF PrevotersOf, Prevoted
  <1>2. PrevotersOf(r, b)' \in SUBSET Validators
    BY PowerAssumption DEF PrevotersOf, Honest
  <1> QED
    BY <1>1, <1>2, QuorumMonotone DEF Pol, quorum_reached

\* A round that was left stays left.
LEMMA LeftMonotone ==
    ASSUME prevotes \subseteq prevotes', precommits \subseteq precommits',
           timeouts \subseteq timeouts',
           NEW v, NEW r, Left(v, r)
    PROVE  Left(v, r)'
  BY DEF Left, Prevoted, Precommitted, TimedOut

\* One prevote per validator and round makes one quorum per round.
LEMMA OnePol ==
    ASSUME OnePrevotePerRound
    PROVE  OnePolPerRound
  <1> SUFFICES ASSUME NEW r \in Rounds, NEW b \in Blocks, NEW c \in Blocks,
                      Pol(r, b), Pol(r, c)
               PROVE  b = c
    BY DEF OnePolPerRound
  <1>1. PICK v \in PrevotersOf(r, b) \cap PrevotersOf(r, c) : v \in Honest
    BY QuorumIntersection DEF Pol, quorum_reached
  <1>2. Prevoted(v, r, b) /\ Prevoted(v, r, c)
    BY <1>1 DEF PrevotersOf, Honest
  <1> QED  BY <1>1, <1>2 DEF OnePrevotePerRound

\* A validator that precommitted has a latest precommit: SignedVotes::lock
\* finds one, at that round or a later one.
LEMMA LockExists ==
    ASSUME VotesTypeOK, NEW v \in Honest, NEW r \in Rounds, NEW b \in Blocks,
           Precommitted(v, r, b)
    PROVE  \E lr \in Rounds, lb \in Blocks : LockedOn(v, lr, lb) /\ r <= lr
  <1> DEFINE S == {q \in Rounds : \E c \in Blocks : Precommitted(v, q, c)}
  <1>1. S \in SUBSET Nat /\ r \in S /\ \A q \in S : q <= MaxRound
    BY MaxRoundAssumption DEF Rounds
  <1>2. PICK m \in S : \A q \in S : q <= m
    <2> HIDE DEF S
    <2> QED  BY <1>1, LargestElement, MaxRoundAssumption, Zenon
  <1>3. PICK c \in Blocks : Precommitted(v, m, c)
    OBVIOUS
  <1>4. m \in Rounds /\ r <= m
    BY <1>1, <1>2
  <1>5. LockedOn(v, m, c)
    BY <1>2, <1>3 DEF LockedOn
  <1> QED  BY <1>4, <1>5

\* No step takes a vote back, and none precommits in a round already left.
LEMMA StepGrows ==
    ASSUME VotesTypeOK, [VoteNext]_votes
    PROVE  /\ prevotes \subseteq prevotes'
           /\ precommits \subseteq precommits'
           /\ timeouts \subseteq timeouts'
           /\ \A v \in Honest, r \in Rounds, b \in Blocks :
                  Left(v, r) /\ ~Precommitted(v, r, b) => ~Precommitted(v, r, b)'
  <1>1. ASSUME NEW w \in Honest, NEW q \in Rounds, NEW c \in Blocks,
               Precommit(w, q, c)
        PROVE  \A v \in Honest, r \in Rounds, b \in Blocks :
                  Left(v, r) /\ ~Precommitted(v, r, b) => ~Precommitted(v, r, b)'
    BY <1>1 DEF Precommit, Precommitted, Ballot
  <1> QED
    BY <1>1 DEF VoteNext, votes, Prevote, Precommit, Timeout, Precommitted

\* A block that is safe at a round stays safe there.
LEMMA SafeAtStable ==
    ASSUME VotesTypeOK, [VoteNext]_votes, NEW q \in Rounds, NEW c \in Blocks,
           SafeAt(q, c)
    PROVE  SafeAt(q, c)'
  <1> SUFFICES ASSUME NEW r \in Rounds, NEW b \in Blocks, r < q, b # c,
                      NEW Q \in Quorums
               PROVE  \E v \in Q \cap Honest :
                          Left(v, r)' /\ ~Precommitted(v, r, b)'
    BY DEF SafeAt
  <1>1. PICK v \in Q \cap Honest : Left(v, r) /\ ~Precommitted(v, r, b)
    BY DEF SafeAt
  <1> QED  BY <1>1, StepGrows, LeftMonotone

-----------------------------------------------------------------------------
(***************************************************************************)
(* SafetyInv is inductive.                                                 *)
(***************************************************************************)

\* The empty sets of votes satisfy the invariant.
LEMMA InitSafety == VoteInit => SafetyInv
  <1> SUFFICES ASSUME VoteInit PROVE SafetyInv
    OBVIOUS
  <1>1. \A r \in Rounds, b \in Blocks : ~Pol(r, b)
    <2> SUFFICES ASSUME NEW r \in Rounds, NEW b \in Blocks, Pol(r, b)
                 PROVE  FALSE
      OBVIOUS
    <2>1. PrevotersOf(r, b) = Faulty
      BY DEF VoteInit, PrevotersOf, Prevoted
    <2>2. Faulty \in Quorums
      BY <2>1 DEF Pol, quorum_reached
    <2> QED  BY <2>2, QuorumIntersection DEF Honest
  <1> QED
    BY <1>1 DEF VoteInit, SafetyInv, VotesTypeOK, OnePrevotePerRound, PrecommitHasPol,
                UnlockHasPol, PolIsSafe, Prevoted, Precommitted

\* A prevote cast against an older precommit finds its quorum already there:
\* before the step, whichever of the two votes the step adds.
LEMMA UnlockBefore ==
    ASSUME SafetyInv,
           NEW v \in Honest, NEW r \in Rounds, NEW b \in Blocks,
           Prevote(v, r, b),
           NEW w \in Honest, NEW q \in Rounds, NEW p \in Rounds,
           NEW c \in Blocks, NEW d \in Blocks,
           Precommitted(w, p, d), Prevoted(w, q, c)', p < q, d # c
    PROVE  \E k \in Rounds : p <= k /\ k <= q /\ Pol(k, c)
  <1>1. CASE Prevoted(w, q, c)
    BY <1>1 DEF SafetyInv, UnlockHasPol
  <1>2. CASE ~Prevoted(w, q, c)
    <2>1. w = v /\ q = r /\ c = b
      BY <1>2 DEF Prevote, Prevoted, Ballot
    <2>2. PICK lr \in Rounds, lb \in Blocks : LockedOn(v, lr, lb) /\ p <= lr
      BY <2>1, LockExists DEF SafetyInv
    <2>3. lr <= r
      BY <2>2 DEF Prevote, Left, LockedOn, Rounds
    <2>4. CASE lb = b
      BY <2>1, <2>2, <2>3, <2>4 DEF SafetyInv, PrecommitHasPol, LockedOn
    <2>5. CASE lb # b
      <3>1. PICK k \in Rounds : lr <= k /\ k <= r /\ Pol(k, b)
        BY <2>2, <2>5 DEF Prevote
      <3>2. p <= k
        BY <2>2, <3>1 DEF Rounds
      <3> QED  BY <2>1, <3>1, <3>2
    <2> QED  BY <2>4, <2>5
  <1> QED  BY <1>1, <1>2

\* A new quorum of prevotes is safe: every quorum of the earlier round shares
\* an honest validator with it, which either did not precommit there or was
\* released by a quorum that was itself safe.
LEMMA NewPolIsSafe ==
    ASSUME SafetyInv, [VoteNext]_votes,
           NEW v \in Honest, NEW r \in Rounds, NEW b \in Blocks,
           Prevote(v, r, b),
           NEW q \in Rounds, NEW c \in Blocks, Pol(q, c)'
    PROVE  SafeAt(q, c)'
  <1> SUFFICES ASSUME NEW p \in Rounds, NEW d \in Blocks, p < q, d # c,
                      NEW Q \in Quorums
               PROVE  \E w \in Q \cap Honest :
                          Left(w, p)' /\ ~Precommitted(w, p, d)'
    BY DEF SafeAt
  <1>1. PICK w \in PrevotersOf(q, c)' \cap Q : w \in Honest
    BY QuorumIntersection DEF Pol, quorum_reached
  <1>2. Prevoted(w, q, c)'
    BY <1>1 DEF PrevotersOf, Honest
  <1>3. Left(w, p)'
    BY <1>2 DEF Left
  <1>4. CASE ~Precommitted(w, p, d)'
    BY <1>1, <1>3, <1>4
  <1>5. CASE Precommitted(w, p, d)'
    <2>1. Precommitted(w, p, d)
      BY <1>5 DEF Prevote, Precommitted
    <2>2. PICK k \in Rounds : p <= k /\ k <= q /\ Pol(k, c)
      BY <1>1, <1>2, <2>1, UnlockBefore
    <2>3. k # p
      BY <1>1, <2>1, <2>2, OnePol DEF SafetyInv, PrecommitHasPol, OnePolPerRound
    <2>4. p < k /\ SafeAt(k, c)
      BY <2>2, <2>3 DEF SafetyInv, PolIsSafe, Rounds
    <2>5. PICK u \in Q \cap Honest : Left(u, p) /\ ~Precommitted(u, p, d)
      BY <2>4 DEF SafeAt
    <2> QED  BY <2>5, StepGrows, LeftMonotone DEF SafetyInv
  <1> QED  BY <1>4, <1>5

\* Every step preserves the invariant.
LEMMA StepSafety == SafetyInv /\ [VoteNext]_votes => SafetyInv'
  <1> SUFFICES ASSUME SafetyInv, [VoteNext]_votes PROVE SafetyInv'
    OBVIOUS
  <1>0. VotesTypeOK
    BY DEF SafetyInv
  <1>1. ASSUME NEW v \in Honest, NEW r \in Rounds, NEW b \in Blocks,
               Prevote(v, r, b)
        PROVE  SafetyInv'
    <2>1. VotesTypeOK'
      BY <1>0, <1>1 DEF Prevote, VotesTypeOK, Ballot, BlockVote
    <2>2. OnePrevotePerRound'
      BY <1>1 DEF SafetyInv, Prevote, OnePrevotePerRound, Prevoted, Ballot
    <2>3. PrecommitHasPol'
      BY <1>0, <1>1, StepGrows, PolMonotone
      DEF SafetyInv, PrecommitHasPol, Prevote, Precommitted
    <2>4. UnlockHasPol'
      <3> SUFFICES ASSUME NEW w \in Honest, NEW p \in Rounds, NEW q \in Rounds,
                          NEW d \in Blocks, NEW c \in Blocks,
                          Precommitted(w, p, d)', Prevoted(w, q, c)',
                          p < q, d # c
                   PROVE  \E k \in Rounds : p <= k /\ k <= q /\ Pol(k, c)'
        BY DEF UnlockHasPol
      <3>1. Precommitted(w, p, d)
        BY <1>1 DEF Prevote, Precommitted
      <3>2. PICK k \in Rounds : p <= k /\ k <= q /\ Pol(k, c)
        BY <1>1, <3>1, UnlockBefore
      <3> QED  BY <1>0, <3>2, StepGrows, PolMonotone
    <2>5. PolIsSafe'
      BY <1>1, NewPolIsSafe DEF PolIsSafe
    <2> QED  BY <2>1, <2>2, <2>3, <2>4, <2>5 DEF SafetyInv
  <1>2. ASSUME NEW v \in Honest, NEW r \in Rounds, NEW b \in Blocks,
               Precommit(v, r, b)
        PROVE  SafetyInv'
    <2>1. VotesTypeOK'
      BY <1>0, <1>2 DEF Precommit, VotesTypeOK, Ballot, BlockVote
    <2>2. \A q \in Rounds, c \in Blocks : Pol(q, c)' <=> Pol(q, c)
      BY <1>2 DEF Precommit, Pol, PrevotersOf, Prevoted
    <2>3. OnePrevotePerRound'
      BY <1>2 DEF SafetyInv, Precommit, OnePrevotePerRound, Prevoted
    <2>4. PrecommitHasPol'
      BY <1>2, <2>2 DEF SafetyInv, Precommit, PrecommitHasPol, Precommitted, Ballot
    <2>5. UnlockHasPol'
      BY <1>2, <2>2
      DEF SafetyInv, Precommit, UnlockHasPol, Precommitted, Prevoted, Ballot, Left
    <2>6. PolIsSafe'
      BY <1>0, <2>2, SafeAtStable DEF SafetyInv, PolIsSafe
    <2> QED  BY <2>1, <2>3, <2>4, <2>5, <2>6 DEF SafetyInv
  <1>3. ASSUME NEW v \in Honest, NEW r \in Rounds, Timeout(v, r)
        PROVE  SafetyInv'
    <2>1. VotesTypeOK'
      BY <1>0, <1>3 DEF Timeout, VotesTypeOK
    <2>2. \A q \in Rounds, c \in Blocks : Pol(q, c)' <=> Pol(q, c)
      BY <1>3 DEF Timeout, Pol, PrevotersOf, Prevoted
    <2>3. OnePrevotePerRound' /\ PrecommitHasPol' /\ UnlockHasPol'
      BY <1>3, <2>2
      DEF SafetyInv, Timeout, OnePrevotePerRound, PrecommitHasPol, UnlockHasPol,
          Precommitted, Prevoted
    <2>4. PolIsSafe'
      BY <1>0, <2>2, SafeAtStable DEF SafetyInv, PolIsSafe
    <2> QED  BY <2>1, <2>3, <2>4 DEF SafetyInv
  <1>4. CASE UNCHANGED votes
    <2>1. \A q \in Rounds, c \in Blocks : Pol(q, c)' <=> Pol(q, c)
      BY <1>4 DEF votes, Pol, PrevotersOf, Prevoted
    <2>2. PolIsSafe'
      BY <1>0, <2>1, SafeAtStable DEF SafetyInv, PolIsSafe
    <2> QED
      BY <1>4, <2>1, <2>2
      DEF SafetyInv, votes, VotesTypeOK, OnePrevotePerRound, PrecommitHasPol,
          UnlockHasPol, Precommitted, Prevoted
  <1> QED  BY <1>1, <1>2, <1>3, <1>4 DEF VoteNext

-----------------------------------------------------------------------------
(***************************************************************************)
(* What the invariant implies.                                             *)
(***************************************************************************)

\* A decided block was the lock of its round.
LEMMA FinalHasPol ==
    ASSUME SafetyInv, NEW r \in Rounds, NEW b \in Blocks, Final(r, b)
    PROVE  Pol(r, b)
  <1>1. PICK v \in PrecommittersOf(r, b) : v \in Honest
    BY QuorumIntersection DEF Final, quorum_reached
  <1>2. Precommitted(v, r, b)
    BY <1>1 DEF PrecommittersOf, Honest
  <1> QED  BY <1>1, <1>2 DEF SafetyInv, PrecommitHasPol

\* In a state satisfying the invariant, a round after a decision offers no
\* other lock.
LEMMA InvDecided == SafetyInv => DecidedIsTheOnlyPol
  <1> SUFFICES ASSUME SafetyInv,
                      NEW r \in Rounds, NEW q \in Rounds,
                      NEW b \in Blocks, NEW c \in Blocks,
                      Final(r, b), q >= r, Pol(q, c), b # c
               PROVE  FALSE
    BY DEF DecidedIsTheOnlyPol
  <1>1. q # r
    BY FinalHasPol, OnePol DEF SafetyInv, OnePolPerRound
  <1>2. r < q /\ SafeAt(q, c)
    BY <1>1 DEF SafetyInv, PolIsSafe, Rounds
  <1>3. PICK v \in PrecommittersOf(r, b) \cap Honest : ~Precommitted(v, r, b)
    BY <1>2 DEF SafeAt, Final, quorum_reached
  <1> QED  BY <1>3 DEF PrecommittersOf, Honest

\* In a state satisfying the invariant, at most one block is decided.
LEMMA InvAgreement == SafetyInv => Agreement
  <1> SUFFICES ASSUME SafetyInv,
                      NEW b \in Blocks, NEW c \in Blocks,
                      NEW r \in Rounds, NEW q \in Rounds,
                      Final(r, b), Final(q, c)
               PROVE  b = c
    BY DEF Agreement, Decided
  <1>1. Pol(r, b) /\ Pol(q, c)
    BY FinalHasPol
  <1>2. q >= r \/ r >= q
    BY DEF Rounds
  <1> QED  BY <1>1, <1>2, InvDecided DEF DecidedIsTheOnlyPol

\* The protocol keeps its inductive invariant, types included, in every
\* behaviour.
THEOREM Safety == VoteSpec => []SafetyInv
  BY InitSafety, StepSafety, PTL DEF VoteSpec

\* Prevotes, precommits and timeouts keep their types.
THEOREM TypeCorrect == VoteSpec => []VotesTypeOK
  <1>1. SafetyInv => VotesTypeOK
    BY DEF SafetyInv
  <1> QED  BY <1>1, Safety, PTL

\* No two blocks of a height ever both gather a quorum of precommits, for any
\* validator set with less than a third of its power faulty, however messages
\* are delayed, lost, repeated or reordered.
THEOREM AgreementHolds == VoteSpec => []Agreement
  BY InvAgreement, Safety, PTL

\* A round never locks two blocks.
THEOREM OnePolPerRoundHolds == VoteSpec => []OnePolPerRound
  <1>1. SafetyInv => OnePolPerRound
    BY OnePol DEF SafetyInv
  <1> QED  BY <1>1, Safety, PTL

\* After a decision every later lock is the decided block.
THEOREM DecidedIsTheOnlyPolHolds == VoteSpec => []DecidedIsTheOnlyPol
  BY InvDecided, Safety, PTL

=============================================================================
