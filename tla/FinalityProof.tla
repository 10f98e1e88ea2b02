---------------------------- MODULE FinalityProof ----------------------------
(***************************************************************************)
(* The threads of the honest nodes implement the voting rules of module    *)
(* Consensus and the promise of module Decision, for every validator set   *)
(* with less than a third of its power faulty, every schedule of proposers *)
(* and any number of rounds and blocks.                                    *)
(***************************************************************************)
EXTENDS Finality, ConsensusProof

-----------------------------------------------------------------------------
(***************************************************************************)
(* Facts about single operators.                                           *)
(***************************************************************************)

\* The faulty validators alone complete no quorum.
LEMMA FaultyIsNoQuorum == ~quorum_reached(Faulty)
  BY QuorumIntersection DEF quorum_reached, Honest

\* A round certificate of the last round cannot exist: no honest node times it
\* out.
LEMMA LastRoundHasNoCertificate ==
    ASSUME RoundsAreBounded
    PROVE  ~TimeoutQuorum(MaxRound)
  <1>1. {n \in Honest : [voter |-> n, round |-> MaxRound] \in timeouts} = {}
    BY DEF RoundsAreBounded
  <1>2. Faulty \cup {n \in Honest : [voter |-> n, round |-> MaxRound] \in timeouts} = Faulty
    BY <1>1
  <1> QED  BY <1>2, FaultyIsNoQuorum, Zenon DEF TimeoutQuorum

\* ArxiumDb::current_round is a round while the last one is not certified.
LEMMA CurrentRoundIsARound ==
    ASSUME TypeOK, NEW n \in Honest, MaxRound \notin certs[n]
    PROVE  current_round(n) \in Rounds
  <1>1. CASE certs[n] = {}
    BY <1>1, MaxRoundAssumption DEF current_round, Rounds
  <1>2. CASE certs[n] # {}
    <2>1. certs[n] \in SUBSET Nat /\ \A r \in certs[n] : r <= MaxRound
      BY MaxRoundAssumption DEF TypeOK, Rounds
    <2>2. \E r \in certs[n] : \A q \in certs[n] : q <= r
      BY <1>2, <2>1, LargestElement, MaxRoundAssumption, Zenon
    <2> DEFINE top == CHOOSE r \in certs[n] : \A q \in certs[n] : q <= r
    <2>3. top \in certs[n]
      BY <2>2
    <2>4. top \in Rounds /\ top # MaxRound
      BY <2>3, Zenon DEF TypeOK
    <2>5. current_round(n) = 1 + top
      BY <1>2 DEF current_round
    <2> HIDE DEF top
    <2> QED  BY <2>4, <2>5, MaxRoundAssumption DEF Rounds
  <1> QED  BY <1>1, <1>2

\* A quorum of precommits is never taken back.
LEMMA DecidedMonotone ==
    ASSUME precommits \subseteq precommits', NEW b, Decided(b)
    PROVE  Decided(b)'
  <1>1. PICK r \in Rounds : Final(r, b)
    BY DEF Decided
  <1>2. PrecommittersOf(r, b) \subseteq PrecommittersOf(r, b)'
    BY DEF PrecommittersOf, Precommitted
  <1>3. PrecommittersOf(r, b)' \in SUBSET Validators
    BY PowerAssumption DEF PrecommittersOf, Honest
  <1>4. Final(r, b)'
    BY <1>1, <1>2, <1>3, QuorumMonotone DEF Final, quorum_reached
  <1> QED  BY <1>4 DEF Decided

\* In every state of the invariant two decided blocks are one.
LEMMA OneDecision ==
    ASSUME SafetyInv, NEW b \in Blocks, NEW c \in Blocks, Decided(b), Decided(c)
    PROVE  b = c
  BY InvAgreement DEF Agreement

-----------------------------------------------------------------------------
(***************************************************************************)
(* What a step leaves alone.                                               *)
(***************************************************************************)

\* A node whose thread, lock and votes a step leaves alone keeps its list of
\* allowed votes.
LEMMA TodoFrame ==
    ASSUME NEW m \in Honest, TodoIsAllowed(m),
           thread'[m] = thread[m], pol'[m] = pol[m],
           Of(m, prevotes)' = Of(m, prevotes),
           Of(m, precommits)' = Of(m, precommits),
           Of(m, timeouts)' = Of(m, timeouts)
    PROVE  TodoIsAllowed(m)'
  <1>1. \A k, r : Signed(m, k, r)' = Signed(m, k, r)
    BY DEF Signed
  <1> QED  BY <1>1 DEF TodoIsAllowed, Allowed, Locked

\* A node whose database a step leaves alone keeps what backs it, as votes are
\* only added.
LEMMA DatabaseFrame ==
    ASSUME NEW m \in Honest, DatabaseIsBacked(m),
           prevotes \subseteq prevotes', precommits \subseteq precommits',
           pol'[m] = pol[m], record'[m] = record[m], watermark'[m] = watermark[m],
           tip'[m] = tip[m], thread'[m] = thread[m]
    PROVE  DatabaseIsBacked(m)'
  BY PolMonotone, DecidedMonotone DEF DatabaseIsBacked

-----------------------------------------------------------------------------
(***************************************************************************)
(* The steps of a node.                                                    *)
(***************************************************************************)

\* What a thread may be in the middle of.
LEMMA DoingIsAThread ==
    /\ \A stage \in Stage, r \in Rounds, todo \in Seq(PendingVote) : Doing(stage, r, todo) \in Thread
    /\ \A stage \in Stage, r \in Rounds : Doing(stage, r, <<>>) \in Thread
    /\ Idle \in Thread /\ 0 \in Rounds
    /\ {"idle", "enforce", "deadtip", "unwind", "vote"} \subseteq Stage
  <1>1. 0 \in Rounds
    BY MaxRoundAssumption DEF Rounds
  <1>2. <<>> \in Seq(PendingVote)
    OBVIOUS
  <1> QED  BY <1>1, <1>2 DEF Doing, Idle, Thread, Stage

\* The round try_step votes in is one of the model's, and so is the round whose
\* certificate a held block of a later round brings with it.
LEMMA StepRounds ==
    ASSUME FinalityInv, NEW n \in Honest
    PROVE  /\ current_round(n) \in Rounds
           /\ Ahead(n) => /\ BlockRound[tip[n]] \in Rounds
                          /\ BlockRound[tip[n]] - 1 \in Rounds \ {MaxRound}
  <1>1. current_round(n) \in Rounds
    BY CurrentRoundIsARound DEF FinalityInv, RoundsAreBounded
  <1>2. ASSUME Ahead(n)
        PROVE  /\ BlockRound[tip[n]] \in Rounds
               /\ BlockRound[tip[n]] - 1 \in Rounds \ {MaxRound}
    <2>1. tip[n] \in Blocks
      BY <1>2 DEF Ahead, FinalityInv, TypeOK, Maybe
    <2>2. BlockRound[tip[n]] \in Rounds
      BY <2>1, FinalityAssumption
    <2>3. BlockRound[tip[n]] > current_round(n)
      BY <1>2 DEF Ahead
    <2> QED  BY <1>1, <2>2, <2>3, MaxRoundAssumption DEF Rounds
  <1> QED  BY <1>1, <1>2

Short(s, S) == s \in Seq(S) /\ Len(s) \in {0, 1}

\* t has the elements of the short sequences s1, s2 and s3, in this order.
Placed(t, s1, s2, s3) ==
    \A i \in DOMAIN t :
        \/ Len(s1) = 1 /\ i = 1 /\ t[i] = s1[1]
        \/ Len(s2) = 1 /\ i = Len(s1) + 1 /\ t[i] = s2[1]
        \/ Len(s3) = 1 /\ i = Len(s1) + Len(s2) + 1 /\ t[i] = s3[1]

\* Where the elements of three short sequences end up in their concatenation.
LEMMA ConcatOfThree ==
    ASSUME NEW S, NEW s1, NEW s2, NEW s3, Short(s1, S), Short(s2, S), Short(s3, S)
    PROVE  s1 \o s2 \o s3 \in Seq(S) /\ Placed(s1 \o s2 \o s3, s1, s2, s3)
  <1> USE DEF Short
  <1> DEFINE u == s1 \o s2
  <1>1. /\ u \in Seq(S) /\ Len(u) = Len(s1) + Len(s2)
        /\ \A i \in 1 .. Len(u) : u[i] = IF i <= Len(s1) THEN s1[i] ELSE s2[i - Len(s1)]
    OBVIOUS
  <1> HIDE DEF u
  <1>2. /\ u \o s3 \in Seq(S) /\ Len(u \o s3) = Len(u) + Len(s3)
        /\ DOMAIN (u \o s3) = 1 .. Len(u \o s3)
        /\ \A i \in 1 .. Len(u \o s3) :
              (u \o s3)[i] = IF i <= Len(u) THEN u[i] ELSE s3[i - Len(u)]
    BY <1>1, SMTT(30)
  <1>3. ASSUME NEW i \in DOMAIN (u \o s3)
        PROVE  \/ Len(s1) = 1 /\ i = 1 /\ (u \o s3)[i] = s1[1]
               \/ Len(s2) = 1 /\ i = Len(s1) + 1 /\ (u \o s3)[i] = s2[1]
               \/ Len(s3) = 1 /\ i = Len(s1) + Len(s2) + 1 /\ (u \o s3)[i] = s3[1]
    <2>1. CASE i <= Len(s1)
      BY <1>1, <1>2, <2>1
    <2>2. CASE ~(i <= Len(s1)) /\ i <= Len(u)
      BY <1>1, <1>2, <2>2, SMTT(30)
    <2>3. CASE ~(i <= Len(u))
      <3>1. Len(s3) = 1 /\ i = Len(u) + 1 /\ i - Len(u) = 1
        BY <1>1, <1>2, <2>3, SMTT(30)
      <3> QED  BY <1>1, <1>2, <2>3, <3>1
    <2> QED  BY <2>1, <2>2, <2>3
  <1> QED  BY <1>2, <1>3 DEF u, Placed

\* A sequence with at most one element.
LEMMA AtMostOne ==
    ASSUME NEW S, NEW v, NEW s, s = <<>> \/ (s = <<v>> /\ v \in S)
    PROVE  Short(s, S) /\ (Len(s) = 1 => s = <<v>> /\ s[1] = v)
  <1>1. CASE s = <<>>
    BY <1>1 DEF Short
  <1>2. CASE s = <<v>> /\ v \in S
    BY <1>2 DEF Short
  <1> QED  BY <1>1, <1>2

\* What try_step leaves to cast: at most one vote of each kind, each allowed.
LEMMA DueIsAllowed ==
    ASSUME FinalityInv, NEW n \in Honest, NEW r \in Rounds, NEW elapsed, NEW certified,
           NEW todo, todo = Due(n, r, elapsed, certified)
    PROVE  /\ todo \in Seq(PendingVote)
           /\ \A i \in DOMAIN todo : Allowed(n, todo[i])
           /\ \A i, j \in DOMAIN todo : i # j => todo[i].kind # todo[j].kind
  <1> DEFINE b == tip[n]
             v1 == Vote("Precommit", pol[n].round, b)
             v2 == Vote("Prevote", r, b)
             v3 == Vote("Timeout", r, NoBlock)
             s1 == precommit(n, b, pol[n])
             s2 == prevote(n, r, b, pol[n])
             s3 == timeout(n, r, elapsed, certified)
             Fine(v) == v \in PendingVote /\ Allowed(n, v)
  <1>1. s1 = <<>> \/ (s1 = <<v1>> /\ Fine(v1) /\ v1.kind = "Precommit")
    <2> SUFFICES ASSUME s1 # <<>>
                 PROVE  s1 = <<v1>> /\ Fine(v1) /\ v1.kind = "Precommit"
      OBVIOUS
    <2>1. s1 = <<v1>> /\ b # NoBlock /\ pol[n].block = b /\ Open(n, v1)
      BY DEF precommit, Unless
    <2>2. b \in Blocks /\ pol[n] \in [round : Rounds, block : Blocks]
      BY <2>1 DEF FinalityInv, TypeOK, Maybe, NoPol
    <2> QED  BY <2>1, <2>2 DEF Vote, Open, Allowed, PendingVote, VoteKind, Maybe
  <1>2. s2 = <<>> \/ (s2 = <<v2>> /\ Fine(v2) /\ v2.kind = "Prevote")
    <2> SUFFICES ASSUME s2 # <<>>
                 PROVE  s2 = <<v2>> /\ Fine(v2) /\ v2.kind = "Prevote"
      OBVIOUS
    <2>1. /\ s2 = <<v2>> /\ b # NoBlock /\ Open(n, v2)
          /\ pol[n].block = b \/ pol[n] = NoPol
      BY DEF prevote, Unless
    <2>2. b \in Blocks
      BY <2>1 DEF FinalityInv, TypeOK, Maybe
    <2> QED  BY <2>1, <2>2 DEF Vote, Open, Allowed, PendingVote, VoteKind, Maybe, Locked
  <1>3. s3 = <<>> \/ (s3 = <<v3>> /\ Fine(v3) /\ v3.kind = "Timeout")
    <2> SUFFICES ASSUME s3 # <<>>
                 PROVE  s3 = <<v3>> /\ Fine(v3) /\ v3.kind = "Timeout"
      OBVIOUS
    <2>1. s3 = <<v3>> /\ r # MaxRound /\ Open(n, v3)
      BY DEF timeout, Unless
    <2> QED  BY <2>1 DEF Vote, Open, Allowed, PendingVote, VoteKind, Maybe
  <1>4. todo = s1 \o s2 \o s3
    BY DEF Due
  <1> HIDE DEF s1, s2, s3, v1, v2, v3
  <1>5. /\ Short(s1, PendingVote)
        /\ Len(s1) = 1 => s1[1] = v1 /\ Fine(v1) /\ v1.kind = "Precommit"
    BY <1>1, AtMostOne
  <1>6. /\ Short(s2, PendingVote)
        /\ Len(s2) = 1 => s2[1] = v2 /\ Fine(v2) /\ v2.kind = "Prevote"
    BY <1>2, AtMostOne
  <1>7. /\ Short(s3, PendingVote)
        /\ Len(s3) = 1 => s3[1] = v3 /\ Fine(v3) /\ v3.kind = "Timeout"
    BY <1>3, AtMostOne
  <1>8. /\ todo \in Seq(PendingVote)
        /\ \A i \in DOMAIN todo :
              \/ Len(s1) = 1 /\ i = 1 /\ todo[i] = v1
              \/ Len(s2) = 1 /\ i = Len(s1) + 1 /\ todo[i] = v2
              \/ Len(s3) = 1 /\ i = Len(s1) + Len(s2) + 1 /\ todo[i] = v3
    <2>1. todo \in Seq(PendingVote) /\ Placed(todo, s1, s2, s3)
      BY <1>4, <1>5, <1>6, <1>7, ConcatOfThree
    <2> QED  BY <1>5, <1>6, <1>7, <2>1 DEF Placed
  <1> HIDE DEF Fine
  <1>9. \A i \in DOMAIN todo : Fine(todo[i])
    BY <1>5, <1>6, <1>7, <1>8 DEF Short
  <1>10. \A i, j \in DOMAIN todo : i # j => todo[i].kind # todo[j].kind
    BY <1>5, <1>6, <1>7, <1>8 DEF Short
  <1> QED  BY <1>8, <1>9, <1>10 DEF Fine

-----------------------------------------------------------------------------
(***************************************************************************)
(* A vote the file's claim records is one the voting rules allow.          *)
(***************************************************************************)

\* The round-left rule of SignedVotes::claim is V2.
LEMMA RoundLeftIsLeft ==
    ASSUME VotesTypeOK, NEW n \in Honest, NEW r \in Rounds, ~RoundLeft(n, r)
    PROVE  ~Left(n, r)
  <1>1. ~TimedOut(n, r)
    BY DEF RoundLeft, Of, TimedOut, Rounds
  <1>2. ASSUME NEW q \in Rounds, q > r
        PROVE  /\ ~TimedOut(n, q)
               /\ \A b \in Blocks : ~Prevoted(n, q, b) /\ ~Precommitted(n, q, b)
    <2>1. ~TimedOut(n, q)
      BY <1>2 DEF RoundLeft, Of, TimedOut, Rounds
    <2>2. ASSUME NEW b \in Blocks PROVE ~Prevoted(n, q, b) /\ ~Precommitted(n, q, b)
      <3>1. Ballot(n, q, b).voter = n /\ Ballot(n, q, b).round = q
        BY DEF Ballot
      <3> QED  BY <1>2, <3>1 DEF RoundLeft, Of, Prevoted, Precommitted
    <2> QED  BY <2>1, <2>2
  <1> QED  BY <1>1, <1>2 DEF Left

\* The lock rule of SignedVotes::claim_prevote is V3: the round the engine shows
\* is the round of a quorum of prevotes for the block.
LEMMA LockAllowsIsLocked ==
    ASSUME FinalityInv, NEW n \in Honest, NEW r \in Rounds, NEW b \in Blocks,
           Locked(n) => pol[n].block = b, LockAllows(n, r, b),
           NEW lr \in Rounds, NEW lb \in Blocks, LockedOn(n, lr, lb), lb # b
    PROVE  \E p \in Rounds : lr <= p /\ p <= r /\ Pol(p, b)
  <1> DEFINE v == Ballot(n, lr, lb)
  <1>1. v \in Of(n, precommits) /\ v.round = lr /\ v.block = lb
    BY DEF LockedOn, Precommitted, Of, Ballot
  <1>2. \A w \in Of(n, precommits) : w.round <= v.round
    <2> SUFFICES ASSUME NEW w \in Of(n, precommits) PROVE w.round <= lr
      BY <1>1
    <2>1. w \in BlockVote /\ w.voter = n /\ w \in precommits
      BY DEF Of, FinalityInv, TypeOK, VotesTypeOK
    <2>2. w = Ballot(n, w.round, w.block) /\ w.round \in Rounds /\ w.block \in Blocks
      BY <2>1 DEF BlockVote, Ballot
    <2> QED  BY <2>1, <2>2 DEF LockedOn, Precommitted
  <1>3. lr <= pol[n].round /\ pol[n].round <= r
    BY <1>1, <1>2 DEF LockAllows
  <1>4. pol[n] # NoPol
    BY <1>3 DEF NoPol, Rounds
  <1>5. pol[n].round \in Rounds /\ pol[n].block = b
    BY <1>4 DEF Locked, FinalityInv, TypeOK
  <1>6. Pol(pol[n].round, b)
    BY <1>4, <1>5 DEF FinalityInv, DatabaseIsBacked
  <1> QED  BY <1>3, <1>5, <1>6

\* Casting a vote is a step of the voting protocol.
LEMMA CastImplements ==
    ASSUME FinalityInv, NEW n \in Honest, Cast(n)
    PROVE  /\ [VoteNext]_votes
           /\ \A v \in timeouts' : v.round # MaxRound
  <1> DEFINE todo == thread[n].todo
             v == Head(todo)
  <1>1. /\ todo \in Seq(PendingVote) /\ todo # <<>>
        /\ v = todo[1] /\ 1 \in DOMAIN todo /\ v \in PendingVote
    <2>1. todo \in Seq(PendingVote)
      BY DEF FinalityInv, TypeOK, Thread
    <2>2. todo # <<>>
      BY DEF Cast, FinalityInv, TodoIsAllowed
    <2> HIDE DEF todo
    <2> QED  BY <2>1, <2>2
  <1>2. Allowed(n, v)
    BY <1>1 DEF FinalityInv, TodoIsAllowed
  <1>3. \/ Claimable(n, v) /\ Sign(n, v)
        \/ UNCHANGED votes
    BY DEF Cast
  <1> HIDE DEF v
  <1>4. v.round \in Rounds /\ v.kind \in VoteKind /\ v.block \in Maybe
    BY <1>1 DEF PendingVote
  <1>5. CASE UNCHANGED votes
    BY <1>5 DEF votes, FinalityInv, RoundsAreBounded
  <1>6. CASE Claimable(n, v) /\ Sign(n, v) /\ v.kind = "Prevote"
    <2>1. v.block \in Blocks /\ (Locked(n) => pol[n].block = v.block)
      BY <1>2, <1>6 DEF Allowed
    <2>2. ~Left(n, v.round)
      BY <1>4, <1>6, RoundLeftIsLeft DEF Claimable, FinalityInv, TypeOK
    <2>3. \A c \in Blocks : ~Prevoted(n, v.round, c)
      BY <1>2, <1>6 DEF Allowed, Signed, Of, Prevoted, Ballot
    <2>4. \A lr \in Rounds, lb \in Blocks :
              LockedOn(n, lr, lb) =>
                  \/ lb = v.block
                  \/ \E p \in Rounds : lr <= p /\ p <= v.round /\ Pol(p, v.block)
      BY <1>4, <1>6, <2>1, LockAllowsIsLocked DEF Claimable
    <2>5. /\ prevotes' = prevotes \cup {Ballot(n, v.round, v.block)}
          /\ UNCHANGED <<precommits, timeouts>>
      BY <1>6 DEF Sign
    <2>6. Prevote(n, v.round, v.block)
      BY <2>2, <2>3, <2>4, <2>5, SMTT(30) DEF Prevote
    <2> QED  BY <1>4, <2>1, <2>5, <2>6 DEF VoteNext, FinalityInv, RoundsAreBounded
  <1>7. CASE Claimable(n, v) /\ Sign(n, v) /\ v.kind = "Precommit"
    <2>1. pol[n] = [round |-> v.round, block |-> v.block]
      BY <1>2, <1>7 DEF Allowed
    <2>2. pol[n] # NoPol /\ pol[n].round = v.round /\ pol[n].block = v.block
      BY <1>4, <2>1 DEF NoPol, Rounds
    <2>3. v.block \in Blocks
      BY <2>2 DEF FinalityInv, TypeOK
    <2>4. Pol(v.round, v.block)
      BY <2>2 DEF FinalityInv, DatabaseIsBacked
    <2>5. ~Left(n, v.round)
      BY <1>4, <1>7, RoundLeftIsLeft DEF Claimable, FinalityInv, TypeOK
    <2>6. \A c \in Blocks : ~Precommitted(n, v.round, c)
      BY <1>2, <1>7 DEF Allowed, Signed, Of, Precommitted, Ballot
    <2>7. /\ precommits' = precommits \cup {Ballot(n, v.round, v.block)}
          /\ UNCHANGED <<prevotes, timeouts>>
      BY <1>7 DEF Sign
    <2>8. Precommit(n, v.round, v.block)
      BY <2>4, <2>5, <2>6, <2>7, SMTT(30) DEF Precommit
    <2> QED  BY <1>4, <2>3, <2>7, <2>8, SMTT(30) DEF VoteNext, FinalityInv, RoundsAreBounded
  <1>8. CASE Claimable(n, v) /\ Sign(n, v) /\ v.kind = "Timeout"
    <2>1. ~TimedOut(n, v.round) /\ v.round # MaxRound
      BY <1>2, <1>8 DEF Allowed, Signed, Of, TimedOut
    <2>2. /\ timeouts' = timeouts \cup {[voter |-> n, round |-> v.round]}
          /\ UNCHANGED <<prevotes, precommits>>
      BY <1>8 DEF Sign
    <2>3. Timeout(n, v.round)
      BY <2>1, <2>2 DEF Timeout
    <2> QED  BY <1>4, <2>1, <2>2, <2>3 DEF VoteNext, FinalityInv, RoundsAreBounded
  <1> QED  BY <1>3, <1>4, <1>5, <1>6, <1>7, <1>8 DEF VoteKind

-----------------------------------------------------------------------------
(***************************************************************************)
(* Every step preserves the invariant.                                     *)
(***************************************************************************)

\* A node whose thread and lock a step leaves alone, in a step that signs nothing.
LEMMA QuietTodo ==
    ASSUME UNCHANGED votes, NEW m \in Honest, TodoIsAllowed(m),
           thread'[m] = thread[m], pol'[m] = pol[m]
    PROVE  TodoIsAllowed(m)'
  BY TodoFrame DEF votes, Of

\* A thread with nothing to cast.
LEMMA EmptyTodo ==
    ASSUME NEW m \in Honest, thread'[m].todo = <<>>, thread'[m].at # "vote"
    PROVE  TodoIsAllowed(m)'
  BY DEF TodoIsAllowed

\* A step that signs nothing and leaves the databases of all nodes but n alone:
\* what is left to show of it.
LEMMA QuietStep ==
    ASSUME FinalityInv, NEW n \in Honest, UNCHANGED votes,
           TypeOK', MaxRound \notin certs'[n],
           TodoIsAllowed(n)', DatabaseIsBacked(n)',
           \A m \in Honest \ {n} :
               /\ tip'[m] = tip[m] /\ pol'[m] = pol[m] /\ certs'[m] = certs[m]
               /\ record'[m] = record[m] /\ watermark'[m] = watermark[m]
               /\ thread'[m] = thread[m]
    PROVE  [VoteNext]_votes /\ FinalityInv'
  <1>1. [VoteNext]_votes
    OBVIOUS
  <1>2. SafetyInv'
    BY <1>1, StepSafety DEF FinalityInv
  <1>3. RoundsAreBounded'
    BY DEF FinalityInv, RoundsAreBounded, votes
  <1>4. \A m \in Honest : TodoIsAllowed(m)' /\ DatabaseIsBacked(m)'
    <2> SUFFICES ASSUME NEW m \in Honest \ {n}
                 PROVE  TodoIsAllowed(m)' /\ DatabaseIsBacked(m)'
      OBVIOUS
    <2>1. TodoIsAllowed(m) /\ DatabaseIsBacked(m)
      BY DEF FinalityInv
    <2>2. TodoIsAllowed(m)'
      BY <2>1, QuietTodo
    <2>3. DatabaseIsBacked(m)'
      BY <2>1, DatabaseFrame DEF votes
    <2> QED  BY <2>2, <2>3
  <1> QED  BY <1>1, <1>2, <1>3, <1>4 DEF FinalityInv

\* Quorums after a step that signs nothing.
LEMMA QuietQuorums ==
    ASSUME UNCHANGED votes
    PROVE  (\A r, b : Pol(r, b) => Pol(r, b)') /\ (\A b : Decided(b) => Decided(b)')
  BY PolMonotone, DecidedMonotone, SMTT(30) DEF votes

\* The block steps: production, acceptance, certificates from peers.
LEMMA ProduceStep ==
    ASSUME FinalityInv, NEW n \in Honest, NEW b \in Blocks, Produce(n, b)
    PROVE  [VoteNext]_votes /\ FinalityInv'
  <1>1. TypeOK'
    BY DEF Produce, FinalityInv, TypeOK, VotesTypeOK, votes, Maybe
  <1>2. TodoIsAllowed(n) /\ DatabaseIsBacked(n)
    BY SMTT(30) DEF FinalityInv
  <1>3. DatabaseIsBacked(n)'
    BY <1>2, QuietQuorums, ZenonT(60) DEF Produce, DatabaseIsBacked, FinalityInv, TypeOK
  <1>4. TodoIsAllowed(n)'
    BY <1>2, QuietTodo, SMTT(30) DEF Produce
  <1> QED
    BY <1>1, <1>3, <1>4, QuietStep, ZenonT(60)
    DEF Produce, FinalityInv, TypeOK, RoundsAreBounded

\* accept_block replaces no tip the watermark covers.
LEMMA AcceptStep ==
    ASSUME FinalityInv, NEW n \in Honest, NEW b \in Blocks, accept_block(n, b)
    PROVE  [VoteNext]_votes /\ FinalityInv'
  <1>1. TypeOK'
    BY SMTT(30) DEF accept_block, FinalityInv, TypeOK, VotesTypeOK, votes, Maybe
  <1>2. TodoIsAllowed(n) /\ DatabaseIsBacked(n)
    BY DEF FinalityInv
  <1>3. DatabaseIsBacked(n)'
    BY <1>2, QuietQuorums, SMTT(30)
       DEF accept_block, supersede_dead_tip, DatabaseIsBacked, FinalityInv, TypeOK
  <1>4. TodoIsAllowed(n)'
    BY <1>2, QuietTodo, SMTT(30) DEF accept_block
  <1> QED
    BY <1>1, <1>3, <1>4, QuietStep, Zenon
    DEF accept_block, FinalityInv, TypeOK, RoundsAreBounded

\* A certificate from a peer names a decided block.
LEMMA BackfillStep ==
    ASSUME FinalityInv, NEW n \in Honest, NEW b \in Blocks, Backfill(n, b)
    PROVE  [VoteNext]_votes /\ FinalityInv'
  <1>1. TypeOK'
    BY DEF Backfill, FinalityInv, TypeOK, VotesTypeOK, votes, Maybe
  <1>2. TodoIsAllowed(n) /\ DatabaseIsBacked(n)
    BY DEF FinalityInv
  <1>3. DatabaseIsBacked(n)'
    BY <1>2, QuietQuorums, FinalityAssumption DEF Backfill, DatabaseIsBacked, FinalityInv, TypeOK
  <1>4. TodoIsAllowed(n)'
    BY <1>2, QuietTodo, SMTT(30) DEF Backfill
  <1> QED
    BY <1>1, <1>3, <1>4, QuietStep, ZenonT(60)
    DEF Backfill, FinalityInv, TypeOK, RoundsAreBounded

\* Divergence recovery unwinds above the watermark only.
LEMMA RevertToStep ==
    ASSUME FinalityInv, NEW n \in Honest, NEW b \in Blocks, RevertTo(n, b)
    PROVE  [VoteNext]_votes /\ FinalityInv'
  <1>1. TypeOK'
    BY DEF RevertTo, FinalityInv, TypeOK, VotesTypeOK, votes, Maybe
  <1>2. TodoIsAllowed(n) /\ DatabaseIsBacked(n)
    BY DEF FinalityInv
  <1>3. DatabaseIsBacked(n)'
    BY <1>2, QuietQuorums, SMTT(30) DEF RevertTo, DatabaseIsBacked, FinalityInv, TypeOK
  <1>4. TodoIsAllowed(n)'
    BY <1>2, QuietTodo, SMTT(30) DEF RevertTo
  <1> QED
    BY <1>1, <1>3, <1>4, QuietStep, SMTT(30)
    DEF RevertTo, FinalityInv, TypeOK, RoundsAreBounded

\* A new lock is the quorum of prevotes just tallied.
LEMMA TallyPrevoteStep ==
    ASSUME FinalityInv, NEW n \in Honest, NEW r \in Rounds, NEW b \in Blocks, tally_prevote(n, r, b)
    PROVE  [VoteNext]_votes /\ FinalityInv'
  <1>1. TypeOK'
    BY DEF tally_prevote, FinalityInv, TypeOK, VotesTypeOK, votes, Maybe
  <1>2. TodoIsAllowed(n) /\ DatabaseIsBacked(n)
    BY SMTT(30) DEF FinalityInv
  <1>3. DatabaseIsBacked(n)'
    BY <1>2, QuietQuorums, SMTT(30) DEF tally_prevote, DatabaseIsBacked, FinalityInv, TypeOK
  <1>4. TodoIsAllowed(n)'
    BY EmptyTodo, SMTT(30) DEF tally_prevote, Idle, Doing
  <1> QED
    BY <1>1, <1>3, <1>4, QuietStep, ZenonT(60)
    DEF tally_prevote, FinalityInv, TypeOK, RoundsAreBounded

\* A new finality record is the quorum of precommits just tallied.
LEMMA TallyVoteStep ==
    ASSUME FinalityInv, NEW n \in Honest, NEW r \in Rounds, NEW b \in Blocks, tally_vote(n, r, b)
    PROVE  [VoteNext]_votes /\ FinalityInv'
  <1>1. TypeOK'
    BY DoingIsAThread, SMTT(30) DEF tally_vote, FinalityInv, TypeOK, VotesTypeOK, votes, Maybe
  <1>2. TodoIsAllowed(n) /\ DatabaseIsBacked(n)
    BY DEF FinalityInv
  <1>3. DatabaseIsBacked(n)'
    BY <1>2, QuietQuorums, FinalityAssumption, SMTT(30)
       DEF tally_vote, Doing, Decided, DatabaseIsBacked, FinalityInv, TypeOK
  <1>4. TodoIsAllowed(n)'
    BY EmptyTodo, SMTT(30) DEF tally_vote, Doing, FinalityInv, TypeOK
  <1> QED
    BY <1>1, <1>3, <1>4, QuietStep, SMTT(30)
    DEF tally_vote, FinalityInv, TypeOK, RoundsAreBounded

\* enforce_certificate keeps the block the record names.
LEMMA EnforceStep ==
    ASSUME FinalityInv, NEW n \in Honest, enforce_certificate(n)
    PROVE  [VoteNext]_votes /\ FinalityInv'
  <1>1. TypeOK'
    BY DoingIsAThread DEF enforce_certificate, FinalityInv, TypeOK, VotesTypeOK, votes, Maybe
  <1>2. TodoIsAllowed(n) /\ DatabaseIsBacked(n)
    BY SMTT(30) DEF FinalityInv
  <1>3. DatabaseIsBacked(n)'
    BY <1>2, QuietQuorums, SMTT(30)
       DEF enforce_certificate, Idle, Doing, DatabaseIsBacked, FinalityInv, TypeOK
  <1>4. TodoIsAllowed(n)'
    BY EmptyTodo, SMTT(30) DEF enforce_certificate, Idle, Doing, FinalityInv, TypeOK
  <1> QED
    BY <1>1, <1>3, <1>4, QuietStep, ZenonT(60)
    DEF enforce_certificate, FinalityInv, TypeOK, RoundsAreBounded

\* unwind_dead_tip stops at a finality record.
LEMMA UnwindDeadStep ==
    ASSUME FinalityInv, NEW n \in Honest, unwind_dead_tip(n)
    PROVE  [VoteNext]_votes /\ FinalityInv'
  <1>1. TypeOK'
    BY DoingIsAThread, SMTT(30) DEF unwind_dead_tip, FinalityInv, TypeOK, VotesTypeOK, votes, Maybe
  <1>2. TodoIsAllowed(n) /\ DatabaseIsBacked(n)
    BY DEF FinalityInv
  <1>3. DatabaseIsBacked(n)'
    BY <1>2, QuietQuorums, ZenonT(60)
       DEF unwind_dead_tip, DeadTip, Idle, Doing, DatabaseIsBacked, FinalityInv, TypeOK
  <1>4. TodoIsAllowed(n)'
    BY EmptyTodo, SMTT(30) DEF unwind_dead_tip, Idle, Doing, FinalityInv, TypeOK
  <1> QED
    BY <1>1, <1>3, <1>4, QuietStep, ZenonT(60)
    DEF unwind_dead_tip, FinalityInv, TypeOK, RoundsAreBounded

\* A restart forgets the thread and the refusals.
LEMMA RestartStep ==
    ASSUME FinalityInv, NEW n \in Honest, Restart(n)
    PROVE  [VoteNext]_votes /\ FinalityInv'
  <1>1. TypeOK'
    BY DoingIsAThread, SMTT(30) DEF Restart, FinalityInv, TypeOK, VotesTypeOK, votes, Maybe
  <1>2. TodoIsAllowed(n) /\ DatabaseIsBacked(n)
    BY DEF FinalityInv
  <1>3. DatabaseIsBacked(n)'
    BY <1>2, QuietQuorums, SMTT(30) DEF Restart, Idle, Doing, DatabaseIsBacked, FinalityInv, TypeOK
  <1>4. TodoIsAllowed(n)'
    BY EmptyTodo, SMTT(30) DEF Restart, Idle, Doing, FinalityInv, TypeOK
  <1> QED
    BY <1>1, <1>3, <1>4, QuietStep, ZenonT(60)
    DEF Restart, FinalityInv, TypeOK, RoundsAreBounded

\* A round certificate is never one of the last round.
LEMMA TallyRoundTimeoutStep ==
    ASSUME FinalityInv, NEW n \in Honest, NEW r \in Rounds, tally_round_timeout(n, r)
    PROVE  [VoteNext]_votes /\ FinalityInv'
  <1>1. TypeOK'
    BY DoingIsAThread DEF tally_round_timeout, FinalityInv, TypeOK, VotesTypeOK, votes, Maybe
  <1>2. TodoIsAllowed(n) /\ DatabaseIsBacked(n)
    BY SMTT(30) DEF FinalityInv
  <1>3. DatabaseIsBacked(n)'
    BY <1>2, QuietQuorums, SMTT(30)
    DEF tally_round_timeout, Doing, DatabaseIsBacked, FinalityInv, TypeOK
  <1>4. TodoIsAllowed(n)'
    BY EmptyTodo DEF tally_round_timeout, Doing, FinalityInv, TypeOK
  <1>5. r # MaxRound
    BY LastRoundHasNoCertificate DEF tally_round_timeout, FinalityInv
  <1>6. MaxRound \notin certs'[n]
    BY <1>5, SMTT(30) DEF tally_round_timeout, FinalityInv, TypeOK, RoundsAreBounded
  <1> QED
    BY <1>1, <1>3, <1>4, <1>6, QuietStep, SMTT(30) DEF tally_round_timeout, FinalityInv, TypeOK

\* try_step decides on allowed votes.
LEMMA TryStepStep ==
    ASSUME FinalityInv, NEW n \in Honest, try_step(n)
    PROVE  [VoteNext]_votes /\ FinalityInv'
  <1> DEFINE r == IF Ahead(n) THEN BlockRound[tip[n]] ELSE current_round(n)
             unlocked == tip[n] # NoBlock /\ Locked(n) /\ pol[n].block # tip[n]
  <1>1. /\ r \in Rounds
        /\ Ahead(n) => r - 1 \in Rounds /\ r - 1 # MaxRound
    BY StepRounds, SMTT(30)
  <1>2. PICK elapsed \in BOOLEAN :
            thread' = [thread EXCEPT ![n] =
                Doing(IF unlocked THEN "unwind"
                      ELSE IF Due(n, r, elapsed, certs'[n]) = <<>> THEN "idle" ELSE "vote",
                      0, Due(n, r, elapsed, certs'[n]))]
    BY Zenon DEF try_step
  <1>3. /\ certs' = IF Ahead(n) THEN [certs EXCEPT ![n] = @ \cup {r - 1}] ELSE certs
        /\ UNCHANGED <<tip, pol, record, watermark, votes, refused, proposed>>
    BY DEF try_step
  <1> HIDE DEF r, unlocked
  <1> DEFINE todo == Due(n, r, elapsed, certs'[n])
             stage == IF unlocked THEN "unwind" ELSE IF todo = <<>> THEN "idle" ELSE "vote"
  <1>4. /\ todo \in Seq(PendingVote)
        /\ \A i \in DOMAIN todo : Allowed(n, todo[i])
        /\ \A i, j \in DOMAIN todo : i # j => todo[i].kind # todo[j].kind
    BY <1>1, DueIsAllowed
  <1>5. thread' = [thread EXCEPT ![n] = Doing(stage, 0, todo)]
    BY <1>2
  <1>6. stage \in Stage /\ stage # "enforce" /\ (stage = "vote" => todo # <<>>)
    BY SMTT(30) DEF Stage
  <1> HIDE DEF todo, stage
  <1>7. /\ thread'[n].todo = todo /\ thread'[n].at = stage
        /\ thread' \in [Honest -> Thread]
    BY <1>4, <1>5, <1>6, DoingIsAThread, SMTT(30) DEF Doing, FinalityInv, TypeOK
  <1>8. certs' \in [Honest -> SUBSET Rounds] /\ MaxRound \notin certs'[n]
    BY <1>1, <1>3, SMTT(30) DEF FinalityInv, TypeOK, RoundsAreBounded
  <1>9. TypeOK'
    BY <1>3, <1>7, <1>8, SMTT(30) DEF FinalityInv, TypeOK, VotesTypeOK, votes
  <1>10. \A v : Allowed(n, v)' = Allowed(n, v)
    BY <1>3, SMTT(30) DEF Allowed, Signed, Of, Locked, votes
  <1>11. TodoIsAllowed(n)'
    BY <1>4, <1>6, <1>7, <1>10, SMTT(30) DEF TodoIsAllowed
  <1>12. DatabaseIsBacked(n)'
    BY <1>3, <1>6, <1>7, QuietQuorums, ZenonT(60) DEF FinalityInv, DatabaseIsBacked
  <1>13. \A m \in Honest \ {n} :
            /\ tip'[m] = tip[m] /\ pol'[m] = pol[m] /\ certs'[m] = certs[m]
            /\ record'[m] = record[m] /\ watermark'[m] = watermark[m]
            /\ thread'[m] = thread[m]
    BY <1>3, <1>5, SMTT(30) DEF FinalityInv, TypeOK
  <1> QED  BY <1>3, <1>8, <1>9, <1>11, <1>12, <1>13, QuietStep, SMTT(30)

\* The thread after a step that leaves the votes in todo.
LEMMA ContinueIsAThread ==
    ASSUME TypeOK, NEW n \in Honest, NEW todo \in Seq(PendingVote),
           thread' = Continue(n, todo)
    PROVE  /\ thread' \in [Honest -> Thread]
           /\ thread'[n].todo = todo
           /\ thread'[n].at # "enforce"
           /\ thread'[n].at = "vote" => todo # <<>>
           /\ \A m \in Honest \ {n} : thread'[m] = thread[m]
  <1>1. CASE todo = <<>>
    <2>1. thread' = [thread EXCEPT ![n] = Idle]
      BY <1>1 DEF Continue
    <2> QED  BY <1>1, <2>1, DoingIsAThread DEF TypeOK, Idle, Doing
  <1>2. CASE todo # <<>>
    <2>1. thread' = [thread EXCEPT ![n] = Doing("vote", 0, todo)]
      BY <1>2 DEF Continue
    <2>2. Doing("vote", 0, todo) \in Thread
      BY DoingIsAThread, SMTT(30)
    <2> QED  BY <1>2, <2>1, <2>2 DEF TypeOK, Doing
  <1> QED  BY <1>1, <1>2, SMTT(30)

\* The swap for the locked block stops at a finality record.
LEMMA UnwindUnlockedStep ==
    ASSUME FinalityInv, NEW n \in Honest, UnwindUnlocked(n)
    PROVE  [VoteNext]_votes /\ FinalityInv'
  <1>1. thread[n].todo \in Seq(PendingVote)
    BY SMTT(30) DEF FinalityInv, TypeOK, Thread
  <1>2. /\ thread' \in [Honest -> Thread]
        /\ thread'[n].todo = thread[n].todo
        /\ thread'[n].at # "enforce"
        /\ thread'[n].at = "vote" => thread[n].todo # <<>>
        /\ \A m \in Honest \ {n} : thread'[m] = thread[m]
    BY <1>1, ContinueIsAThread, SMTT(30) DEF UnwindUnlocked, FinalityInv
  <1>3. TypeOK'
    BY <1>2, SMTT(30) DEF UnwindUnlocked, FinalityInv, TypeOK, VotesTypeOK, votes, Maybe
  <1>4. \A v : Allowed(n, v)' = Allowed(n, v)
    BY SMTT(30) DEF UnwindUnlocked, Allowed, Signed, Of, Locked, votes
  <1>5. TodoIsAllowed(n)'
    BY <1>2, <1>4, SMTT(30) DEF FinalityInv, TodoIsAllowed
  <1>6. DatabaseIsBacked(n)'
    BY <1>2, QuietQuorums, ZenonT(60) DEF UnwindUnlocked, FinalityInv, TypeOK, DatabaseIsBacked
  <1> QED
    BY <1>2, <1>3, <1>5, <1>6, QuietStep, ZenonT(60)
    DEF UnwindUnlocked, FinalityInv, TypeOK, RoundsAreBounded

\* A vote of one kind changes neither the other kinds of its signer nor the votes
\* of another node.
LEMMA CastSigns ==
    ASSUME NEW n \in Honest, NEW v, Sign(n, v) \/ UNCHANGED votes
    PROVE  /\ \A k, r : k # v.kind => Signed(n, k, r)' = Signed(n, k, r)
           /\ \A m \in Honest \ {n} : /\ Of(m, prevotes)' = Of(m, prevotes)
                                      /\ Of(m, precommits)' = Of(m, precommits)
                                      /\ Of(m, timeouts)' = Of(m, timeouts)
  <1>1. CASE UNCHANGED votes
    BY <1>1 DEF votes, Signed, Of
  <1>2. CASE Sign(n, v)
    <2>1. /\ v.kind # "Prevote" => prevotes' = prevotes
          /\ v.kind # "Precommit" => precommits' = precommits
          /\ v.kind # "Timeout" => timeouts' = timeouts
      BY <1>2, SMTT(30) DEF Sign
    <2>2. /\ \A x \in prevotes' : x \in prevotes \/ x.voter = n
          /\ \A x \in precommits' : x \in precommits \/ x.voter = n
          /\ \A x \in timeouts' : x \in timeouts \/ x.voter = n
          /\ prevotes \subseteq prevotes' /\ precommits \subseteq precommits'
          /\ timeouts \subseteq timeouts'
      BY <1>2, SMTT(30) DEF Sign, Ballot
    <2>3. \A k, r : k # v.kind => Signed(n, k, r)' = Signed(n, k, r)
      BY <2>1 DEF Signed, Of
    <2>4. \A m \in Honest \ {n} : /\ Of(m, prevotes)' = Of(m, prevotes)
                                  /\ Of(m, precommits)' = Of(m, precommits)
                                  /\ Of(m, timeouts)' = Of(m, timeouts)
      BY <2>2 DEF Of
    <2> QED  BY <2>3, <2>4
  <1> QED  BY <1>1, <1>2

\* Casting a vote leaves the others allowed.
LEMMA CastStep ==
    ASSUME FinalityInv, NEW n \in Honest, Cast(n)
    PROVE  [VoteNext]_votes /\ FinalityInv'
  <1> DEFINE todo == thread[n].todo
             v == Head(todo)
  <1>1. [VoteNext]_votes /\ \A x \in timeouts' : x.round # MaxRound
    BY CastImplements
  <1>2. SafetyInv' /\ prevotes \subseteq prevotes' /\ precommits \subseteq precommits'
    BY <1>1, StepSafety, StepGrows, SMTT(30) DEF FinalityInv, SafetyInv
  <1>3. todo \in Seq(PendingVote) /\ todo # <<>>
    BY SMTT(30) DEF Cast, FinalityInv, TypeOK, Thread, TodoIsAllowed
  <1>4. /\ Sign(n, v) \/ UNCHANGED votes
        /\ refused' = refused \/ refused' = [refused EXCEPT ![n] = @ \cup {<<v.kind, v.round>>}]
        /\ thread' = Continue(n, Tail(todo))
        /\ UNCHANGED <<tip, pol, certs, record, watermark, proposed>>
    BY ZenonT(60) DEF Cast
  <1>5. /\ \A i \in DOMAIN todo : Allowed(n, todo[i])
        /\ \A i, j \in DOMAIN todo : i # j => todo[i].kind # todo[j].kind
    BY DEF FinalityInv, TodoIsAllowed
  <1> HIDE DEF todo
  <1>6. /\ v = todo[1] /\ v \in PendingVote /\ 1 \in DOMAIN todo
        /\ Tail(todo) \in Seq(PendingVote)
        /\ \A i \in DOMAIN Tail(todo) :
              i + 1 \in DOMAIN todo /\ i + 1 # 1 /\ Tail(todo)[i] = todo[i + 1]
        /\ \A i, j \in DOMAIN Tail(todo) : i # j => i + 1 # j + 1
    BY <1>3, SMTT(30)
  <1> HIDE DEF v
  <1>7. /\ thread' \in [Honest -> Thread]
        /\ thread'[n].todo = Tail(todo)
        /\ thread'[n].at # "enforce"
        /\ thread'[n].at = "vote" => Tail(todo) # <<>>
        /\ \A m \in Honest \ {n} : thread'[m] = thread[m]
    BY <1>4, <1>6, ContinueIsAThread, ZenonT(60) DEF FinalityInv
  <1>8. TypeOK'
    <2>1. refused' \in [Honest -> SUBSET (VoteKind \X Rounds)]
      <3>1. PICK R, x : R = VoteKind \X Rounds /\ x = <<v.kind, v.round>>
        BY Zenon
      <3>2. x \in R
        BY <1>6, <3>1 DEF PendingVote
      <3>3. refused \in [Honest -> SUBSET R]
        BY <3>1, Zenon DEF FinalityInv, TypeOK
      <3>4. refused' = refused \/ refused' = [refused EXCEPT ![n] = @ \cup {x}]
        BY <1>4, <3>1
      <3>5. refused' \in [Honest -> SUBSET R]
        BY <3>2, <3>3, <3>4
      <3> QED  BY <3>1, <3>5
    <2>2. VotesTypeOK'
      BY <1>2 DEF SafetyInv
    <2> QED  BY <1>4, <1>7, <2>1, <2>2 DEF FinalityInv, TypeOK
  <1>9. RoundsAreBounded'
    BY <1>1, <1>4, Zenon DEF FinalityInv, RoundsAreBounded
  <1>10. TodoIsAllowed(n)'
    <2>0. PICK rest : rest = Tail(todo)
      BY ZenonT(60)
    <2>1. \A i \in DOMAIN rest : Allowed(n, rest[i]) /\ rest[i].kind # v.kind
      BY <1>5, <1>6, <2>0
    <2>2. \A k, r : k # v.kind => Signed(n, k, r)' = Signed(n, k, r)
      BY <1>4, CastSigns
    <2>3. \A x : Allowed(n, x) /\ x.kind # v.kind => Allowed(n, x)'
      BY <1>4, <2>2 DEF Allowed, Locked
    <2>4. \A i \in DOMAIN rest : Allowed(n, rest[i])'
      BY <2>1, <2>3, SMTT(30)
    <2>5. \A i, j \in DOMAIN rest : i # j => rest[i].kind # rest[j].kind
      BY <1>5, <1>6, <2>0, SMTT(30)
    <2>6. thread'[n].todo = rest /\ (thread'[n].at = "vote" => rest # <<>>)
      BY <1>7, <2>0, SMTT(30)
    <2> QED  BY <2>4, <2>5, <2>6 DEF TodoIsAllowed
  <1>11. DatabaseIsBacked(n)'
    BY <1>2, <1>4, <1>7, PolMonotone, DecidedMonotone, ZenonT(60) DEF FinalityInv, DatabaseIsBacked
  <1>12. ASSUME NEW m \in Honest \ {n}
         PROVE  TodoIsAllowed(m)' /\ DatabaseIsBacked(m)'
    <2>1. TodoIsAllowed(m) /\ DatabaseIsBacked(m)
      BY SMTT(30) DEF FinalityInv
    <2>2. TodoIsAllowed(m)'
      BY <1>4, <1>7, <2>1, CastSigns, TodoFrame, ZenonT(60)
    <2>3. DatabaseIsBacked(m)'
      BY <1>2, <1>4, <1>7, <2>1, DatabaseFrame, Zenon
    <2> QED  BY <2>2, <2>3
  <1>13. \A m \in Honest : TodoIsAllowed(m)' /\ DatabaseIsBacked(m)'
    BY <1>10, <1>11, <1>12, SMTT(30)
  <1> QED  BY <1>1, <1>2, <1>8, <1>9, <1>13 DEF FinalityInv

\* A faulty proposer's block changes no honest node.
LEMMA QuietAll ==
    ASSUME FinalityInv, TypeOK', UNCHANGED <<tip, pol, certs, record, watermark, votes, thread>>
    PROVE  [VoteNext]_votes /\ FinalityInv'
  <1>1. [VoteNext]_votes /\ SafetyInv'
    BY StepSafety DEF FinalityInv
  <1>2. RoundsAreBounded'
    BY DEF FinalityInv, RoundsAreBounded, votes
  <1>3. ASSUME NEW m \in Honest PROVE TodoIsAllowed(m)' /\ DatabaseIsBacked(m)'
    <2>1. TodoIsAllowed(m) /\ DatabaseIsBacked(m)
      BY DEF FinalityInv
    <2>2. TodoIsAllowed(m)'
      BY <2>1, QuietTodo
    <2>3. DatabaseIsBacked(m)'
      BY <2>1, DatabaseFrame DEF votes
    <2> QED  BY <2>2, <2>3
  <1> QED  BY <1>1, <1>2, <1>3 DEF FinalityInv

\* The first state satisfies the invariant.
LEMMA InitFinality == Init => VoteInit /\ FinalityInv
  <1> SUFFICES ASSUME Init PROVE FinalityInv
    BY DEF Init
  <1>1. SafetyInv
    BY InitSafety, SMTT(30) DEF Init
  <1>2. TypeOK
    BY <1>1, DoingIsAThread DEF Init, TypeOK, SafetyInv, Maybe, NoPol
  <1>3. RoundsAreBounded
    BY SMTT(30) DEF Init, VoteInit, RoundsAreBounded
  <1>4. ASSUME NEW n \in Honest PROVE TodoIsAllowed(n) /\ DatabaseIsBacked(n)
    BY DEF Init, TodoIsAllowed, DatabaseIsBacked, Idle, Doing
  <1> QED  BY <1>1, <1>2, <1>3, <1>4 DEF FinalityInv

\* Every step of the nodes is a step of the voting protocol, or signs nothing,
\* and preserves the invariant.
LEMMA StepFinality == FinalityInv /\ [Next]_vars => [VoteNext]_votes /\ FinalityInv'
  <1> SUFFICES ASSUME FinalityInv, [Next]_vars PROVE [VoteNext]_votes /\ FinalityInv'
    BY SMTT(30)
  <1>1. ASSUME NEW n \in Honest, NodeStep(n) PROVE [VoteNext]_votes /\ FinalityInv'
    BY <1>1, TryStepStep, UnwindUnlockedStep, CastStep, EnforceStep, UnwindDeadStep, RestartStep,
       TallyRoundTimeoutStep, TallyPrevoteStep, TallyVoteStep, ProduceStep, AcceptStep,
       BackfillStep, RevertToStep, SMTT(30)
    DEF NodeStep
  <1>2. ASSUME NEW b \in Blocks, FaultyPropose(b) PROVE [VoteNext]_votes /\ FinalityInv'
    <2>1. TypeOK'
      BY <1>2 DEF FaultyPropose, FinalityInv, TypeOK, VotesTypeOK, votes
    <2> QED  BY <1>2, <2>1, QuietAll, SMTT(30) DEF FaultyPropose
  <1>3. CASE UNCHANGED vars
    <2>1. TypeOK'
      BY <1>3 DEF vars, FinalityInv, TypeOK, VotesTypeOK, votes
    <2> QED  BY <1>3, <2>1, QuietAll, SMTT(30) DEF vars
  <1> QED  BY <1>1, <1>2, <1>3 DEF Next

-----------------------------------------------------------------------------
(***************************************************************************)
(* What the invariant implies.                                             *)
(***************************************************************************)

\* The nodes' invariant holds in every behaviour: among other things every stored
\* lock is a quorum of prevotes and every finality record a quorum of precommits.
THEOREM FinalityInvHolds == Spec => []FinalityInv
  BY InitFinality, StepFinality, PTL DEF Spec

\* Whatever the threads of the nodes do to their tips in the middle of try_step,
\* and whatever restarts make them forget, the votes they sign are a behaviour of
\* the voting rules of module Consensus (SignedVotes::claim under the Engine).
THEOREM FinalityImplementsConsensus == Spec => ImplementsConsensus
  BY InitFinality, StepFinality, PTL DEF Spec, ImplementsConsensus, VoteSpec

\* Two stored FinalityRecords never name different blocks, and a watermark covers
\* the very block the record names.
LEMMA InvFinalityAgrees == FinalityInv => FinalityAgrees
  <1> SUFFICES ASSUME FinalityInv, NEW n \in Honest, NEW m \in Honest
               PROVE  /\ record[n] # NoBlock /\ record[m] # NoBlock => record[n] = record[m]
                      /\ watermark[n] => tip[n] # NoBlock /\ tip[n] = record[n]
    BY DEF FinalityAgrees
  <1>1. DatabaseIsBacked(n) /\ DatabaseIsBacked(m)
    BY SMTT(30) DEF FinalityInv
  <1>2. ASSUME record[n] # NoBlock, record[m] # NoBlock PROVE record[n] = record[m]
    <2>1. record[n] \in Blocks /\ record[m] \in Blocks
      BY <1>2 DEF FinalityInv, TypeOK, Maybe
    <2> QED  BY <1>1, <1>2, <2>1, OneDecision, SMTT(30) DEF DatabaseIsBacked, FinalityInv
  <1> QED  BY <1>1, <1>2 DEF DatabaseIsBacked

\* The nodes' finality records agree, in every behaviour.
THEOREM FinalityAgreesHolds == Spec => []FinalityAgrees
  BY FinalityInvHolds, InvFinalityAgrees, PTL

\* A step that moves a tip away from the locked block follows a certificate for
\* another block.
LEMMA StepKeepsLocked ==
    ASSUME FinalityInv, [Next]_vars, NEW n \in Honest, HoldsLocked(n), tip'[n] # tip[n]
    PROVE  \E b \in Blocks \ {tip[n]} : Decided(b)
  <1>1. tip \in [Honest -> Maybe] /\ tip[n] # NoBlock
    BY DEF FinalityInv, TypeOK, HoldsLocked
  <1>2. PICK m \in Honest : NodeStep(m)
    BY SMTT(30) DEF Next, vars, FaultyPropose
  <1>3. m = n
    BY <1>1, <1>2, ZenonT(60)
    DEF NodeStep, try_step, UnwindUnlocked, Cast, enforce_certificate, unwind_dead_tip, Restart,
        tally_round_timeout, tally_prevote, tally_vote, Produce, accept_block, Backfill, RevertTo
  <1>4. CASE enforce_certificate(n)
    <2>1. record[n] # tip[n] /\ record[n] # NoBlock /\ Decided(record[n])
      BY <1>4 DEF enforce_certificate, FinalityInv, DatabaseIsBacked
    <2>2. record[n] \in Blocks
      BY <2>1 DEF FinalityInv, TypeOK, Maybe
    <2> QED  BY <2>1, <2>2, SMTT(30)
  <1>5. ASSUME NEW b \in Blocks, RevertTo(n, b)
        PROVE  \E c \in Blocks \ {tip[n]} : Decided(c)
    BY <1>5, SMTT(30) DEF RevertTo
  <1>6. ~unwind_dead_tip(n) /\ ~UnwindUnlocked(n)
    BY <1>1, SMTT(30) DEF unwind_dead_tip, DeadTip, UnwindUnlocked, HoldsLocked
  <1>7. \A b \in Blocks : ~Produce(n, b) /\ ~accept_block(n, b)
    BY <1>1, SMTT(30) DEF Produce, accept_block, supersede_dead_tip
  <1>8. /\ ~try_step(n) /\ ~Cast(n) /\ ~Restart(n)
        /\ \A r \in Rounds : ~tally_round_timeout(n, r)
        /\ \A r \in Rounds, b \in Blocks : ~tally_prevote(n, r, b) /\ ~tally_vote(n, r, b)
        /\ \A b \in Blocks : ~Backfill(n, b)
    BY Zenon DEF try_step, Cast, Restart, tally_round_timeout, tally_prevote, tally_vote, Backfill
  <1> QED  BY <1>2, <1>3, <1>4, <1>5, <1>6, <1>7, <1>8, ZenonT(60) DEF NodeStep

\* A node gives up the block it is locked on only when another block of the
\* height has a quorum of precommits.
THEOREM LockedBlockIsKeptHolds == Spec => LockedBlockIsKept
  <1>1. FinalityInv /\ [Next]_vars =>
            [\A n \in Honest : HoldsLocked(n) /\ tip'[n] # tip[n] =>
                \E b \in Blocks \ {tip[n]} : Decided(b)]_vars
    BY StepKeepsLocked, ZenonT(60)
  <1> QED  BY <1>1, FinalityInvHolds, PTL DEF Spec, LockedBlockIsKept

\* A step changes the tip and the watermark of one node, and never those of a node
\* whose watermark covers the height.
LEMMA StepKeepsFinal ==
    ASSUME FinalityInv, [Next]_vars
    PROVE  /\ \A n \in Honest : watermark[n] => watermark'[n] /\ tip'[n] = tip[n]
           /\ \/ UNCHANGED <<watermark, tip>>
              \/ \E n \in Honest : \A m \in Honest \ {n} :
                     watermark'[m] = watermark[m] /\ tip'[m] = tip[m]
  <1>0. /\ tip \in [Honest -> Maybe] /\ watermark \in [Honest -> BOOLEAN]
        /\ \A n \in Honest : watermark[n] => record[n] # NoBlock /\ tip[n] = record[n]
    BY DEF FinalityInv, TypeOK, DatabaseIsBacked
  <1>1. CASE UNCHANGED vars
    BY <1>1 DEF vars
  <1>2. ASSUME NEW b \in Blocks, FaultyPropose(b)
        PROVE  UNCHANGED <<watermark, tip>>
    BY <1>2, SMTT(30) DEF FaultyPropose
  <1>3. ASSUME NEW n \in Honest, NodeStep(n)
        PROVE  /\ watermark[n] => watermark'[n] /\ tip'[n] = tip[n]
               /\ \A m \in Honest \ {n} : watermark'[m] = watermark[m] /\ tip'[m] = tip[m]
    <2> DEFINE Keeps == /\ watermark[n] => watermark'[n] /\ tip'[n] = tip[n]
                        /\ \A m \in Honest \ {n} : watermark'[m] = watermark[m] /\ tip'[m] = tip[m]
    <2>1. CASE try_step(n) \/ Cast(n) \/ Restart(n)
      BY <2>1, ZenonT(60) DEF try_step, Cast, Restart
    <2>2. CASE UnwindUnlocked(n) \/ enforce_certificate(n) \/ unwind_dead_tip(n)
      BY <1>0, <2>2, SMTT(30) DEF UnwindUnlocked, enforce_certificate, unwind_dead_tip, DeadTip
    <2>3. ASSUME NEW r \in Rounds, tally_round_timeout(n, r) PROVE Keeps
      BY <2>3, SMTT(30) DEF tally_round_timeout
    <2>4. ASSUME NEW r \in Rounds, NEW b \in Blocks, tally_prevote(n, r, b) \/ tally_vote(n, r, b)
          PROVE  Keeps
      BY <1>0, <2>4, SMTT(30) DEF tally_prevote, tally_vote
    <2>5. ASSUME NEW b \in Blocks, Produce(n, b) \/ accept_block(n, b) PROVE Keeps
      BY <1>0, <2>5, ZenonT(60) DEF Produce, accept_block, supersede_dead_tip
    <2>6. ASSUME NEW b \in Blocks, Backfill(n, b) \/ RevertTo(n, b) PROVE Keeps
      BY <1>0, <2>6, SMTT(30) DEF Backfill, RevertTo
    <2> QED  BY <1>3, <2>1, <2>2, <2>3, <2>4, <2>5, <2>6, ZenonT(60) DEF NodeStep
  <1> QED  BY <1>0, <1>1, <1>2, <1>3, SMTT(30) DEF Next

FinalBar == [n \in Honest |-> IF watermark[n] THEN tip[n] ELSE NoBlock]

\* Every step of the nodes is a step of Decision, or changes nothing final.
LEMMA StepDecides ==
    FinalityInv /\ FinalityInv' /\ [Next]_vars => [Promise!Next]_FinalBar
  <1> SUFFICES ASSUME FinalityInv, FinalityInv', [Next]_vars, FinalBar' # FinalBar
               PROVE  Promise!Next
    OBVIOUS
  <1>1. \A n \in Honest : watermark[n] => watermark'[n] /\ tip'[n] = tip[n]
    BY StepKeepsFinal
  <1>2. PICK n \in Honest : \A m \in Honest \ {n} : watermark'[m] = watermark[m] /\ tip'[m] = tip[m]
    BY StepKeepsFinal, SMTT(30) DEF FinalBar
  <1>3. ~watermark[n] /\ watermark'[n]
    <2>1. \A m \in Honest \ {n} : FinalBar'[m] = FinalBar[m]
      BY <1>2, SMTT(30) DEF FinalBar
    <2>2. FinalBar'[n] # FinalBar[n]
      BY <2>1, SMTT(30) DEF FinalBar
    <2> QED  BY <1>1, <2>2, SMTT(30) DEF FinalBar
  <1>4. PICK b \in Blocks : b = tip'[n] /\ b = record'[n] /\ record'[n] # NoBlock
    BY <1>3, InvFinalityAgrees, SMTT(30)
       DEF FinalityInv, TypeOK, Maybe, FinalityAgrees, DatabaseIsBacked
  <1>5. FinalBar' = [FinalBar EXCEPT ![n] = b]
    BY <1>2, <1>3, <1>4, ZenonT(60) DEF FinalBar
  <1>6. FinalBar[n] = NoBlock
    BY <1>3 DEF FinalBar
  <1>7. ASSUME NEW m \in Honest PROVE FinalBar[m] \in {NoBlock, b}
    <2>1. CASE ~watermark[m]
      BY <2>1, SMTT(30) DEF FinalBar
    <2>2. CASE watermark[m]
      <3>1. watermark'[m] /\ tip'[m] = tip[m]
        BY <1>1, <2>2
      <3>2. tip'[m] # NoBlock /\ tip'[m] = record'[m]
        BY <3>1 DEF FinalityInv, DatabaseIsBacked
      <3>3. FinalityAgrees'
        BY InvFinalityAgrees, PTL
      <3>4. record'[m] = record'[n]
        BY <1>4, <3>2, <3>3, SMTT(30) DEF FinalityAgrees
      <3> QED  BY <1>4, <2>2, <3>1, <3>2, <3>4, Zenon DEF FinalBar
    <2> QED  BY <2>1, <2>2
  <1>8. Promise!Decide(n, b)
    BY <1>5, <1>6, <1>7 DEF Promise!Decide, FinalBar
  <1> QED  BY <1>4, <1>8 DEF Promise!Next

\* The blocks under the nodes' watermarks are a behaviour of module Decision: one
\* block for all of them, which none of them ever gives up, although the finality,
\* network and producer threads of a node revert its chain in five places.
THEOREM FinalityImplementsDecision == Spec => ImplementsDecision
  <1>1. Init => Promise!Init
    BY DEF Init, Promise!Init
  <1>2. FinalityInv /\ FinalityInv' /\ [Next]_vars
            => [Promise!Next]_[n \in Honest |-> IF watermark[n] THEN tip[n] ELSE NoBlock]
    BY StepDecides DEF FinalBar
  <1> QED  BY <1>1, <1>2, FinalityInvHolds, PTL DEF Spec, ImplementsDecision, Promise!Spec

=============================================================================
