---------------------------- MODULE StakingProof ----------------------------
(***************************************************************************)
(* Proofs about stake and voting power: the loop that turns stakes into    *)
(* power (VotingPower) and the steps of the stake ledger (Staking).        *)
(***************************************************************************)
EXTENDS LedgerProof, VotingPower

-----------------------------------------------------------------------------
(* The loop of assign_voting_power.                                        *)

LEMMA CapIsEnough ==
    ASSUME NEW n \in Nat \ {0}
    PROVE  power_cap(n) \in Nat /\ power_cap(n) * n >= TOTAL_VOTING_POWER
  <1> DEFINE q == (TOTAL_VOTING_POWER + n - 1) \div n
  <1>1. q \in Nat /\ TOTAL_VOTING_POWER + n - 1 <= n * q + (n - 1)
    <2>1. PICK x \in Nat : x = TOTAL_VOTING_POWER + n - 1
      BY DEF TOTAL_VOTING_POWER
    <2>2. x \div n \in Nat /\ x <= n * (x \div n) + (n - 1)
      BY Division, Zenon
    <2> QED  BY <2>1, <2>2
  <1>2. power_cap(n) \in Nat /\ power_cap(n) >= q
    <2>1. (2 * TOTAL_VOTING_POWER) \div n \in Nat
      BY Division DEF TOTAL_VOTING_POWER
    <2> HIDE DEF q
    <2> QED  BY <1>1, <2>1 DEF power_cap, Larger, Smaller, TOTAL_VOTING_POWER, q
  <1> HIDE DEF q
  <1>3. PICK z \in Nat : power_cap(n) = q + z
    <2>1. power_cap(n) - q \in Nat /\ power_cap(n) = q + (power_cap(n) - q)
      BY <1>1, <1>2
    <2> QED  BY <2>1
  <1>4. power_cap(n) * n = n * q + n * z /\ n * z \in Nat /\ n * q \in Nat
    BY <1>1, <1>3
  <1> QED  BY <1>1, <1>2, <1>4 DEF TOTAL_VOTING_POWER

LEMMA CapBlocksNoQuorum ==
    ASSUME NEW n \in Nat, n >= 4
    PROVE  power_cap(n) <= TOTAL_VOTING_POWER - QUORUM_POWER
  <1> DEFINE q == (TOTAL_VOTING_POWER + n - 1) \div n
             r == (2 * TOTAL_VOTING_POWER) \div n
  <1>1. q \in Nat /\ n * q <= 9999 + n /\ r \in Nat
    <2>1. PICK x \in Nat, y \in Nat : x = TOTAL_VOTING_POWER + n - 1 /\ y = 2 * TOTAL_VOTING_POWER
      BY DEF TOTAL_VOTING_POWER
    <2>2. x \div n \in Nat /\ n * (x \div n) <= x /\ y \div n \in Nat
      BY Division
    <2> QED  BY <2>1, <2>2 DEF TOTAL_VOTING_POWER
  <1>2. n * q < n * 3334
    <2> HIDE DEF q
    <2> QED  BY <1>1
  <1>3. q < 3334
    BY <1>1, <1>2, Cancel
  <1> HIDE DEF q, r
  <1> QED  BY <1>1, <1>3 DEF power_cap, Larger, Smaller, TOTAL_VOTING_POWER, QUORUM_POWER, q, r

\* A pass gives out exactly the power it is given: what rounding leaves over is
\* less than one unit each.
LEMMA SharesAreAll ==
    ASSUME NEW st, NEW pool \in SUBSET Nat, IsFiniteSet(pool), pool # {},
           \A a \in pool : st[a] \in Nat, NEW power \in Nat
    PROVE  /\ Shares(st, pool, power) \in [pool -> Nat]
           /\ SumOf(Shares(st, pool, power), pool) = power
  <1> DEFINE total == SumOf(st, pool)
             n == Cardinality(pool)
             part == [a \in pool |-> IF total = 0 THEN power \div n ELSE (power * st[a]) \div total]
             left == power - SumOf(part, pool)
             one == [a \in pool |-> IF Rank(a, pool) < left THEN 1 ELSE 0]
  <1>1. total \in Nat /\ n \in Nat \ {0}
    BY SumType, FS_CardinalityType, FS_EmptySet, Zenon
  <1>2. \A a \in pool : part[a] \in Nat
    <2> HIDE DEF total, n
    <2>1. \A a \in pool : power * st[a] \in Nat
      OBVIOUS
    <2> QED  BY <1>1, <2>1, Division, Zenon
  <1>3. SumOf(part, pool) \in Nat /\ SumOf(part, pool) <= power /\ power <= SumOf(part, pool) + n
    <2>0. SumOf(part, pool) \in Nat
      <3> HIDE DEF part
      <3> QED  BY <1>2, SumType, Zenon
    <2>1. CASE total = 0
      <3>1. \A a \in pool : part[a] = power \div n
        BY <2>1
      <3>2. power \div n \in Nat /\ n * (power \div n) <= power /\ power <= n * (power \div n) + (n - 1)
        <4> HIDE DEF n
        <4> QED  BY <1>1, Division, Zenon
      <3> HIDE DEF part
      <3>3. SumOf(part, pool) = (power \div n) * n
        BY <3>1, <3>2, SumConstant, Zenon
      <3> HIDE DEF n
      <3>4. (power \div n) * n = n * (power \div n)
        BY <1>1, <3>2
      <3> QED  BY <1>1, <2>0, <3>2, <3>3, <3>4
    <2>2. CASE total # 0
      <3> DEFINE x == [a \in pool |-> power * st[a]]
      <3>1. \A a \in pool : x[a] \in Nat /\ x[a] = power * st[a] /\ part[a] = x[a] \div total
        BY <2>2
      <3> HIDE DEF x, part
      <3>2. SumOf(x, pool) = power * total
        BY <3>1, SumScale, Zenon
      <3> HIDE DEF total
      <3>3. /\ total * SumOf(part, pool) <= SumOf(x, pool)
            /\ SumOf(x, pool) <= total * SumOf(part, pool) + (total - 1) * n
        BY <1>1, <2>2, <3>1, SumOfQuotients, Zenon
      <3> HIDE DEF n
      <3>4. PICK S \in Nat : S = SumOf(part, pool)
        BY <2>0
      <3>5. total * S <= total * power /\ total * power <= total * S + (total - 1) * n
        <4>1. power * total = total * power
          BY <1>1
        <4> QED  BY <3>2, <3>3, <3>4, <4>1
      <3>6. total * S < total * (power + 1)
        <4>1. total * (power + 1) = total * power + total
          BY <1>1
        <4> QED  BY <1>1, <2>2, <3>5, <4>1
      <3>7. total * power < total * (S + n + 1)
        <4>1. total * (S + n + 1) = total * S + total * n + total
          BY <1>1
        <4>2. (total - 1) * n = total * n - n
          BY <1>1
        <4> QED  BY <1>1, <2>2, <3>5, <4>1, <4>2
      <3>8. S < power + 1 /\ power < S + n + 1
        BY <1>1, <2>2, <3>6, <3>7, Cancel
      <3> QED  BY <1>1, <3>4, <3>8
    <2> QED  BY <2>1, <2>2
  <1>4. left \in Nat /\ left <= n
    <2> HIDE DEF part, n
    <2> QED  BY <1>1, <1>3
  <1>5. SumOf(one, pool) = left
    <2> HIDE DEF left
    <2> QED  BY <1>4, FirstOnes
  <1>6. \A a \in pool : one[a] \in Nat
    OBVIOUS
  <1>7. PICK share : share = Shares(st, pool, power)
    OBVIOUS
  <1>8. share = [a \in pool |-> part[a] + one[a]]
    <2>1. share = [a \in pool |-> part[a] + (IF Rank(a, pool) < left THEN 1 ELSE 0)]
      BY <1>7 DEF Shares
    <2> HIDE DEF left, part
    <2> QED  BY <2>1
  <1>9. share \in [pool -> Nat] /\ \A a \in pool : share[a] = part[a] + one[a]
    <2> HIDE DEF part, one
    <2> QED  BY <1>2, <1>6, <1>8
  <1> HIDE DEF part, one
  <1>10. SumOf(share, pool) = SumOf(part, pool) + SumOf(one, pool)
    <2>1. \A a \in pool : part[a] \in Nat /\ one[a] \in Nat /\ share[a] = part[a] + one[a]
      BY <1>2, <1>6, <1>9
    <2> QED  BY <2>1, SumPlus, Zenon
  <1> QED  BY <1>3, <1>5, <1>7, <1>9, <1>10

LEMMA RestSize ==
    ASSUME NEW S, IsFiniteSet(S), NEW T \in SUBSET S
    PROVE  Cardinality(S \ T) = Cardinality(S) - Cardinality(T)
  <1>1. S \cap T = T
    OBVIOUS
  <1> QED  BY <1>1, FS_Difference, ZenonT(60)

\* While the loop runs, what is given out is the cap for everybody outside the pool.
LEMMA GivenOut ==
    ASSUME NEW D, IsFiniteSet(D), NEW pool \in SUBSET D, NEW cap \in Nat, NEW powers,
           \A a \in D : powers[a] = IF a \in pool THEN 0 ELSE cap
    PROVE  SumOf(powers, D) = cap * (Cardinality(D) - Cardinality(pool))
  <1>1. IsFiniteSet(pool) /\ IsFiniteSet(D \ pool)
    BY FS_Subset, FS_Difference
  <1>2. Cardinality(D \ pool) = Cardinality(D) - Cardinality(pool)
    BY RestSize
  <1>3. SumOf(powers, D) = SumOf(powers, pool) + SumOf(powers, D \ pool)
    BY SumParts
  <1>4. SumOf(powers, pool) = 0 * Cardinality(pool)
    BY <1>1, SumConstant
  <1>5. SumOf(powers, D \ pool) = cap * Cardinality(D \ pool)
    BY <1>1, SumConstant
  <1>6. Cardinality(pool) \in Nat /\ Cardinality(D) \in Nat
    BY <1>1, FS_CardinalityType
  <1> QED  BY <1>2, <1>3, <1>4, <1>5, <1>6

\* One iteration keeps the invariant.  The case that empties the pool does not
\* happen: everybody above the cap would need more power than there is.
LEMMA IterationKeeps ==
    ASSUME NEW st, NEW t, LoopState(st, t), t.pool # {}
    PROVE  LoopState(st, Iteration(st, t))
  <1> DEFINE D == DOMAIN st
             n == Cardinality(D)
             cap == power_cap(n)
             share == Shares(st, t.pool, t.power)
             over == {a \in t.pool : share[a] > cap}
             left == t.power - cap * Cardinality(over)
             capped == [a \in D |-> IF a \in over THEN cap ELSE t.powers[a]]
             p == Cardinality(t.pool)
             o == Cardinality(over)
  <1>1. /\ D \in SUBSET Nat /\ IsFiniteSet(D) /\ D # {} /\ st \in [D -> Nat] /\ D \in SUBSET Addresses
        /\ t \in [powers : [D -> Nat], power : Nat, pool : SUBSET D]
        /\ \A a \in D : t.powers[a] = IF a \in t.pool THEN 0 ELSE cap
        /\ t.power + cap * (n - p) = TOTAL_VOTING_POWER
    BY VotingPowerAssumption, FS_Subset DEF LoopState
  <1>2. IsFiniteSet(t.pool) /\ t.pool \in SUBSET Nat /\ over \in SUBSET t.pool /\ t.power \in Nat
    BY <1>1, FS_Subset
  <1>3. IsFiniteSet(over) /\ n \in Nat \ {0} /\ p \in Nat /\ o \in Nat /\ o <= p /\ p <= n
    <2> HIDE DEF over
    <2>1. IsFiniteSet(over) /\ o <= p
      BY <1>2, FS_Subset
    <2>2. p <= n
      BY <1>1, FS_Subset
    <2>3. n \in Nat /\ n # 0 /\ p \in Nat /\ o \in Nat
      BY <1>1, <1>2, <2>1, FS_CardinalityType, FS_EmptySet
    <2> QED  BY <2>1, <2>2, <2>3
  <1>4. cap \in Nat /\ cap * n >= TOTAL_VOTING_POWER
    <2> HIDE DEF n
    <2> QED  BY <1>3, CapIsEnough
  <1>5. share \in [t.pool -> Nat] /\ SumOf(share, t.pool) = t.power
    <2>1. \A a \in t.pool : st[a] \in Nat
      BY <1>1
    <2> QED  BY <1>2, <2>1, SharesAreAll
  <1> HIDE DEF share, cap
  <1>6. cap * o <= t.power
    <2>1. SumOf(share, t.pool) = SumOf(share, over) + SumOf(share, t.pool \ over)
      <3> HIDE DEF over
      <3> QED  BY <1>2, <1>5, SumParts
    <2>2. SumOf(share, over) >= cap * o
      <3>1. \A a \in over : share[a] \in Nat /\ share[a] >= cap
        BY <1>4, <1>5
      <3> HIDE DEF over
      <3> QED  BY <1>3, <1>4, <3>1, SumAtLeast
    <2>3. SumOf(share, over) \in Nat /\ SumOf(share, t.pool \ over) \in Nat
      <3> HIDE DEF over
      <3>1. IsFiniteSet(t.pool \ over)
        BY <1>2, FS_Difference
      <3> QED  BY <1>2, <1>3, <1>5, <3>1, SumType
    <2>4. cap * o \in Nat
      BY <1>3, <1>4
    <2> HIDE DEF o
    <2> QED  BY <1>5, <2>1, <2>2, <2>3, <2>4
  <1>7. over # t.pool
    <2> SUFFICES ASSUME over = t.pool PROVE FALSE
      OBVIOUS
    <2>1. \A a \in t.pool : share[a] \in Nat /\ share[a] >= cap + 1
      BY <1>4, <1>5
    <2>2. SumOf(share, t.pool) >= (cap + 1) * p
      BY <1>2, <1>4, <2>1, SumAtLeast
    <2>3. p # 0
      BY <1>2, FS_EmptySet
    <2> HIDE DEF p, n, over
    <2>4. (cap + 1) * p = cap * p + p /\ cap * (n - p) = cap * n - cap * p
      BY <1>3, <1>4
    <2>5. cap * p \in Nat /\ cap * n \in Nat
      BY <1>3, <1>4
    <2> QED  BY <1>1, <1>3, <1>4, <1>5, <2>2, <2>3, <2>4, <2>5, SMTT(30) DEF TOTAL_VOTING_POWER
  <1>8. PICK u : u = Iteration(st, t)
    OBVIOUS
  <1>9. CASE over = {}
    <2> DEFINE new == [a \in D |-> IF a \in t.pool THEN share[a] ELSE t.powers[a]]
    <2>1. u = [powers |-> new, power |-> 0, pool |-> {}]
      BY <1>8, <1>9 DEF Iteration, share, cap
    <2>2. \A a \in D : new[a] \in Nat /\ new[a] <= cap
      BY <1>1, <1>4, <1>5, <1>9
    <2>3. SumOf(new, D) = TOTAL_VOTING_POWER
      <3>1. IsFiniteSet(D \ t.pool)
        BY <1>1, FS_Difference, Zenon
      <3>2. SumOf(new, t.pool) = SumOf(share, t.pool)
        <4>1. \A a \in t.pool : share[a] \in Nat /\ new[a] = share[a]
          BY <1>1, <1>5
        <4> HIDE DEF new
        <4> QED  BY <1>2, <4>1, SumSame
      <3>3. SumOf(new, D \ t.pool) = SumOf(t.powers, D \ t.pool)
        <4>1. \A a \in D \ t.pool : t.powers[a] \in Nat /\ new[a] = t.powers[a]
          BY <1>1
        <4> HIDE DEF new, D
        <4> QED  BY <3>1, <4>1, SumSame
      <3>4. SumOf(t.powers, D \ t.pool) = cap * Cardinality(D \ t.pool)
        <4>1. \A a \in D \ t.pool : t.powers[a] = cap
          BY <1>1
        <4> HIDE DEF D
        <4> QED  BY <1>4, <3>1, <4>1, SumConstant
      <3>5. Cardinality(D \ t.pool) = n - p
        <4> HIDE DEF D
        <4> QED  BY <1>1, RestSize
      <3>6. SumOf(new, D) = SumOf(new, t.pool) + SumOf(new, D \ t.pool)
        <4> HIDE DEF new, D
        <4> QED  BY <1>1, <2>2, SumParts, ZenonT(60)
      <3> HIDE DEF new, D, n, p
      <3> QED  BY <1>1, <1>5, <3>2, <3>3, <3>4, <3>5, <3>6
    <2>4. new \in [D -> Nat]
      BY <2>2
    <2> HIDE DEF new
    <2>5. /\ u \in [powers : [D -> Nat], power : Nat, pool : SUBSET D]
          /\ u.pool = {} /\ u.power = 0 /\ u.powers = new
      BY <2>1, <2>4
    <2> QED  BY <1>1, <1>8, <2>2, <2>3, <2>5, SMTT(30) DEF LoopState, cap
  <1>10. CASE over # {}
    <2>1. u = [powers |-> capped, power |-> left, pool |-> t.pool \ over]
      BY <1>7, <1>8, <1>10 DEF Iteration, share, cap
    <2>2. left \in Nat
      <3>1. cap * o \in Nat
        BY <1>3, <1>4
      <3> QED  BY <1>2, <1>6, <3>1
    <2>3. \A a \in D : capped[a] = IF a \in t.pool \ over THEN 0 ELSE cap
      BY <1>1
    <2>4. capped \in [D -> Nat]
      BY <1>4, <2>3
    <2>5. Cardinality(t.pool \ over) = p - o
      <3> HIDE DEF over
      <3> QED  BY <1>2, RestSize
    <2>6. left + cap * (n - (p - o)) = TOTAL_VOTING_POWER
      <3> HIDE DEF over, p, n, o
      <3>1. cap * (n - (p - o)) = cap * (n - p) + cap * o
        BY <1>3, <1>4
      <3>2. cap * (n - p) \in Nat /\ cap * o \in Nat
        BY <1>3, <1>4
      <3> QED  BY <1>1, <1>2, <3>1, <3>2 DEF o
    <2>7. t.pool \ over # {} /\ t.pool \ over \in SUBSET D
      BY <1>1, <1>7
    <2> HIDE DEF capped, left, over, o
    <2>8. /\ u \in [powers : [D -> Nat], power : Nat, pool : SUBSET D]
          /\ u.pool = t.pool \ over /\ u.power = left /\ u.powers = capped
      BY <2>1, <2>2, <2>4, <2>7
    <2> QED  BY <1>1, <1>8, <2>3, <2>5, <2>6, <2>7, <2>8, SMTT(30) DEF LoopState, cap
  <1> QED  BY <1>9, <1>10

\* The loop's invariant gives the property.
LEMMA LoopInvShares == LoopInv => PowerIsShared
  <1> SUFFICES ASSUME LoopInv PROVE PowerIsShared
    OBVIOUS
  <1> DEFINE D == DOMAIN stakes
             n == Cardinality(D)
             cap == power_cap(n)
  <1>1. D \in SUBSET Nat /\ IsFiniteSet(D) /\ D # {} /\ n \in Nat \ {0}
    <2>1. D \in SUBSET Nat /\ IsFiniteSet(D) /\ D # {}
      BY VotingPowerAssumption, FS_Subset DEF LoopInv, LoopState
    <2> QED  BY <2>1, FS_CardinalityType, FS_EmptySet
  <1>2. cap \in Nat
    <2> HIDE DEF n
    <2> QED  BY <1>1, CapIsEnough
  <1>3. SumOf(s.powers, D) + s.power = TOTAL_VOTING_POWER
    <2>1. CASE s.pool = {}
      BY <2>1 DEF LoopInv, LoopState, TOTAL_VOTING_POWER
    <2>2. CASE s.pool # {}
      <3>1. /\ \A a \in D : s.powers[a] = IF a \in s.pool THEN 0 ELSE cap
            /\ s.power + cap * (n - Cardinality(s.pool)) = TOTAL_VOTING_POWER
            /\ s.pool \in SUBSET D /\ s.power \in Nat
        BY <2>2 DEF LoopInv, LoopState
      <3>2. SumOf(s.powers, D) = cap * (n - Cardinality(s.pool))
        <4> HIDE DEF cap
        <4> QED  BY <1>1, <1>2, <3>1, GivenOut
      <3>3. cap * (n - Cardinality(s.pool)) \in Int
        <4>1. Cardinality(s.pool) \in Nat
          BY <1>1, <3>1, FS_Subset, FS_CardinalityType
        <4> QED  BY <1>1, <1>2, <4>1
      <3> QED  BY <3>1, <3>2, <3>3
    <2> QED  BY <2>1, <2>2
  <1>4. ASSUME s.pool = {}, NEW a \in D
        PROVE  /\ s.powers[a] <= cap
               /\ n >= 4 => TOTAL_VOTING_POWER - s.powers[a] >= QUORUM_POWER
    <2>1. s.powers[a] <= cap /\ s.powers[a] \in Nat
      BY <1>4 DEF LoopInv, LoopState
    <2>2. n >= 4 => cap <= TOTAL_VOTING_POWER - QUORUM_POWER
      BY <1>1, CapBlocksNoQuorum
    <2> QED  BY <1>2, <2>1, <2>2 DEF TOTAL_VOTING_POWER, QUORUM_POWER
  <1> QED  BY <1>3, <1>4 DEF PowerIsShared

\* The powers of a set are 10000 units in all, whatever the stakes and however many
\* passes of clamping it takes, and nobody ends above the cap: with four
\* validators or more nobody alone can hold back a quorum (assign_voting_power).
THEOREM PowerIsSharedHolds == LoopSpec => []PowerIsShared
  <1>1. LoopInit => LoopInv
    <2> SUFFICES ASSUME LoopInit PROVE LoopInv
      OBVIOUS
    <2> DEFINE D == DOMAIN stakes
               z == [a \in D |-> 0]
    <2>1. PICK S \in (SUBSET Addresses) \ {{}} : stakes \in [S -> Stakes]
      BY DEF LoopInit
    <2>2. D = S /\ stakes \in [D -> Nat] /\ D \in SUBSET Addresses /\ D # {}
      BY <2>1, VotingPowerAssumption, Zenon
    <2>3. s = [powers |-> z, power |-> TOTAL_VOTING_POWER, pool |-> D]
      BY DEF LoopInit, Start
    <2>4. IsFiniteSet(D) /\ Cardinality(D) \in Nat
      BY <2>2, VotingPowerAssumption, FS_Subset, FS_CardinalityType
    <2>5. s \in [powers : [D -> Nat], power : Nat, pool : SUBSET D]
      BY <2>3 DEF TOTAL_VOTING_POWER
    <2>6. power_cap(Cardinality(D)) \in Nat
      BY <2>2, <2>4, CapIsEnough, FS_EmptySet
    <2>7. s.power + power_cap(Cardinality(D)) * (Cardinality(D) - Cardinality(s.pool))
              = TOTAL_VOTING_POWER
      BY <2>3, <2>4, <2>6 DEF TOTAL_VOTING_POWER
    <2>8. \A a \in D : s.powers[a] = 0 /\ a \in s.pool
      BY <2>3
    <2>9. s.pool # {}
      BY <2>2, <2>3
    <2> QED  BY <2>2, <2>5, <2>7, <2>8, <2>9 DEF LoopInv, LoopState
  <1>2. LoopInv /\ [Iterate]_loopVars => LoopInv'
    <2> SUFFICES ASSUME LoopInv, [Iterate]_loopVars PROVE LoopInv'
      OBVIOUS
    <2>1. CASE Iterate
      <3>1. s' = Iteration(stakes, s) /\ stakes' = stakes /\ s.pool # {}
        BY <2>1 DEF Iterate
      <3>2. LoopState(stakes, Iteration(stakes, s))
        BY <3>1, IterationKeeps DEF LoopInv
      <3> QED  BY <3>1, <3>2 DEF LoopInv
    <2>2. CASE UNCHANGED loopVars
      BY <2>2 DEF LoopInv, loopVars
    <2> QED  BY <2>1, <2>2
  <1> QED  BY <1>1, <1>2, LoopInvShares, PTL DEF LoopSpec

-----------------------------------------------------------------------------
(* The steps.                                                              *)

\* What an action leaves to Dispatch: a sound ledger with the money it found,
\* whose status rows changed only where it says so.
ActionRows(k, statuses, deletes) ==
    /\ Sound(k) /\ Money(k) = Money(l)
    /\ k.set = l.set /\ k.candidates = l.candidates
    /\ statuses \in SUBSET Validators /\ deletes \in SUBSET Validators
    /\ \A v \in Validators \ (statuses \cup deletes) : k.status[v] = l.status[v]

ActionStep ==
    /\ phase = "open" /\ phase' = "open" /\ height' = height
    /\ Money(l') + fees' = Money(l) + fees
    /\ l'.set = l.set

LEMMA DispatchKeeps ==
    ASSUME StakingInv, NEW a \in Users, NEW k, NEW statuses, NEW deletes,
           ActionRows(k, statuses, deletes), Dispatch(a, k, statuses, deletes)
    PROVE  StakingInv' /\ ActionStep
  <1>1. PICK n, j : n = k.bal[a] - Params.action_fee /\ j = l'
    OBVIOUS
  <1>2. k.bal[a] \in Nat /\ k.pool \in Nat /\ k.treasury \in Nat /\ Params.action_fee \in Nat
        /\ k.bal[a] >= Params.action_fee
    BY ParamsAssumption DEF ActionRows, Sound, Ledger, Dispatch
  <1>3. j = Paid(k, a, n, k.pool, k.treasury)
    BY <1>1, ZenonT(60) DEF Dispatch, Paid, ActionRows, Sound, Ledger
  <1>4. CoinTypes(n, k.pool, k.treasury)
    BY <1>1, <1>2 DEF CoinTypes
  <1>5. Sound(j) /\ SameSet(k, j) /\ CoinsMoved(k, j, a, n, k.pool, k.treasury)
    BY <1>3, <1>4, CoinRows DEF ActionRows
  <1>6. Money(j) + Params.action_fee = Money(l)
    <2>1. PICK x, y, b, c, d, fee : /\ x = Money(j) /\ y = Money(k) /\ b = k.bal[a]
                                    /\ c = k.pool /\ d = k.treasury /\ fee = Params.action_fee
      OBVIOUS
    <2>2. /\ x \in Nat /\ y \in Nat /\ b \in Nat /\ c \in Nat /\ d \in Nat /\ fee \in Nat
          /\ x + b + c + d = y + (b - fee) + c + d
      BY <1>1, <1>2, <1>5, <2>1, MoneyType DEF Sound, CoinsMoved, ActionRows
    <2>3. x + fee = y
      BY <2>2
    <2> QED  BY <2>1, <2>3 DEF ActionRows
  <1>7. ActionStep
    <2>1. Money(l) \in Nat /\ Money(j) \in Nat /\ fees \in Nat
      BY <1>5, MoneyType DEF StakingInv, TypeOK, Sound
    <2>2. fees' = fees + Params.action_fee /\ phase' = phase /\ phase = "open" /\ height' = height
      BY DEF Dispatch
    <2>3. Money(j) + fees' = Money(l) + fees
      BY <1>2, <1>6, <2>1, <2>2
    <2>4. j.set = l.set
      BY <1>5 DEF SameSet, ActionRows
    <2> QED  BY <1>1, <2>2, <2>3, <2>4 DEF ActionStep
  <1>8. TypeOK'
    <2>1. Ledger(l')
      BY <1>1, <1>5 DEF Sound
    <2>2. fees' \in Nat /\ acts' \in Nat
      BY <1>2 DEF StakingInv, TypeOK, Dispatch
    <2>3. written' \in SUBSET Validators /\ removed' \in SUBSET Validators
      BY DEF StakingInv, TypeOK, Dispatch, ActionRows
    <2>4. height' \in 0 .. MaxHeight /\ phase' \in {"open", "sealed"}
      BY DEF StakingInv, TypeOK, Dispatch
    <2> QED  BY <2>1, <2>2, <2>3, <2>4 DEF TypeOK
  <1>9. StakeIsBacked'
    BY <1>1, <1>5 DEF StakeIsBacked, Sound
  <1>10. Listed'
    <2> SUFFICES ASSUME NEW v \in Validators, l'.status[v] # None, v \notin written' \cup removed'
                 PROVE  v \in l'.candidates
      BY DEF Listed, Dispatch
    <2>1. v \notin statuses \cup deletes /\ v \notin written \cup removed
      BY DEF Dispatch
    <2>2. l'.status[v] = l.status[v] /\ l'.candidates = l.candidates
      BY <1>1, <1>5, <2>1 DEF SameSet, ActionRows
    <2> QED  BY <2>1, <2>2 DEF StakingInv, Listed
  <1> QED  BY <1>7, <1>8, <1>9, <1>10 DEF StakingInv

LEMMA LedgerIsSound ==
    ASSUME StakingInv
    PROVE  Sound(l) /\ height \in 0 .. MaxHeight /\ height \in Nat /\ fees \in Nat
           /\ written \in SUBSET Validators /\ removed \in SUBSET Validators
  BY StakingAssumption DEF StakingInv, TypeOK, StakeIsBacked, Sound

LEMMA JoinKeeps ==
    ASSUME StakingInv, NEW a \in Users, NEW v \in Validators, NEW n \in Nat,
           join_validator(a, v, n)
    PROVE  StakingInv' /\ ActionStep
  <1>1. PICK x, st : x = apply_stake(l, a, v, n) /\ st = status_after_join(l, v)
    OBVIOUS
  <1>2. PICK k : k = WithStatus(x, v, st)
    OBVIOUS
  <1>3. StakeOk(l, a, v, n) /\ Dispatch(a, k, {v}, {})
    BY <1>1, <1>2 DEF join_validator, WithStatus
  <1>4. Sound(x) /\ SameSet(l, x) /\ Money(x) = Money(l)
    BY <1>1, <1>3, LedgerIsSound, ApplyStakeIsSound
  <1>5. st \in Statuses
    BY <1>1, LedgerIsSound DEF status_after_join, Statuses, Sound, Ledger
  <1>6. Sound(k) /\ Money(k) = Money(x) /\ StatusWritten(x, k, v)
    BY <1>2, <1>4, <1>5, StatusRow
  <1>7. ActionRows(k, {v}, {})
    BY <1>4, <1>6 DEF ActionRows, StatusWritten, SameSet
  <1> QED  BY <1>3, <1>7, DispatchKeeps

LEMMA StakeKeeps ==
    ASSUME StakingInv, NEW a \in Users, NEW v \in Validators, NEW n \in Nat, stake(a, v, n)
    PROVE  StakingInv' /\ ActionStep
  <1>1. PICK k : k = apply_stake(l, a, v, n)
    OBVIOUS
  <1>2. StakeOk(l, a, v, n) /\ Dispatch(a, k, {}, {})
    BY <1>1 DEF stake
  <1>3. Sound(k) /\ SameSet(l, k) /\ Money(k) = Money(l)
    BY <1>1, <1>2, LedgerIsSound, ApplyStakeIsSound
  <1>4. ActionRows(k, {}, {})
    BY <1>3 DEF ActionRows, SameSet
  <1> QED  BY <1>2, <1>4, DispatchKeeps

LEMMA UnstakeKeeps ==
    ASSUME StakingInv, NEW a \in Users, NEW v \in Validators, NEW n \in Nat, unstake(a, v, n)
    PROVE  StakingInv' /\ ActionStep
  <1>1. PICK x, u : x = apply_unstake(l, a, v, n, height) /\ u = height + Params.unbonding_blocks
    OBVIOUS
  <1>2. PICK k : k = index_unbonding(x, a, v, u)
    OBVIOUS
  <1>3. UnstakeOk(l, a, v, n) /\ Dispatch(a, k, {}, {})
    BY <1>1, <1>2 DEF unstake
  <1>4. Sound(x) /\ SameSet(l, x) /\ Money(x) = Money(l)
    BY <1>1, <1>3, LedgerIsSound, ApplyUnstakeIsSound
  <1>5. u \in UnlockHeights
    BY <1>1, LedgerIsSound, StakingAssumption, ParamsAssumption DEF UnlockHeights
  <1>6. Sound(k) /\ SameSet(x, k) /\ SameStakes(x, k)
    BY <1>2, <1>4, <1>5, IndexIsSound, SMTT(30)
  <1>7. Money(k) = Money(x)
    BY <1>6 DEF SameStakes, Money
  <1>8. ActionRows(k, {}, {})
    BY <1>4, <1>6, <1>7 DEF ActionRows, SameSet
  <1> QED  BY <1>3, <1>8, DispatchKeeps

LEMMA LeaveKeeps ==
    ASSUME StakingInv, NEW a \in Users, NEW v \in Validators, leave_validator(a, v)
    PROVE  StakingInv' /\ ActionStep
  <1>1. PICK m : m = IF l.masters[v] = {} THEN a ELSE Master(l, v)
    OBVIOUS
  <1>2. PICK n : n = ActiveStake(l, m, v)
    OBVIOUS
  <1>3. PICK x, st : x = apply_unstake(l, m, v, n, height) /\ st = Leaving(epoch_of(height) + 1)
    OBVIOUS
  <1>4. PICK k : k = WithStatus(x, v, st)
    BY SMTT(30)
  <1>5. UnstakeOk(l, m, v, n) /\ Dispatch(a, k, {v}, {})
    BY <1>1, <1>2, <1>3, <1>4, SMTT(30) DEF leave_validator, WithStatus
  <1>6. m \in Users
    <2>1. l.masters[v] \in SUBSET Users
      BY LedgerIsSound DEF Sound, Ledger
    <2>2. l.masters[v] # {} => Master(l, v) \in l.masters[v]
      BY DEF Master
    <2> QED  BY <1>1, <2>1, <2>2
  <1>7. n \in Nat
    <2>1. l.alloc[<<m, v>>] \in Allocations
      BY <1>5, <1>6, LedgerIsSound, OneMaster DEF UnstakeOk
    <2> QED  BY <1>2, <1>5, <2>1, SMTT(30) DEF ActiveStake, UnstakeOk, Allocations
  <1>8. Sound(x) /\ SameSet(l, x) /\ Money(x) = Money(l)
    BY <1>3, <1>5, <1>6, <1>7, LedgerIsSound, ApplyUnstakeIsSound, SMTT(30)
  <1>9. st \in Statuses
    <2>1. epoch_of(height) + 1 \in Nat
      BY LedgerIsSound, EpochType
    <2> QED  BY <1>3, <2>1 DEF Leaving, Statuses
  <1>10. Sound(k) /\ Money(k) = Money(x) /\ StatusWritten(x, k, v)
    BY <1>4, <1>8, <1>9, StatusRow, SMTT(30)
  <1>11. ActionRows(k, {v}, {})
    BY <1>8, <1>10 DEF ActionRows, StatusWritten, SameSet
  <1> QED  BY <1>5, <1>11, DispatchKeeps

LEMMA EvidenceKeeps ==
    ASSUME StakingInv, NEW a \in Users, NEW v \in Validators, NEW e \in EvidenceHeights,
           submit_equivocation_evidence(a, v, e)
    PROVE  StakingInv' /\ ActionStep
  <1>1. PICK markers : markers = l.markers \cup {<<e, v>>}
    BY Zenon
  <1>2. PICK x : x = WithSet(l, l.status, l.candidates, l.set, l.operator, l.evidence, markers)
    OBVIOUS
  <1>3. x = [l EXCEPT !.markers = @ \cup {<<e, v>>}]
    BY <1>1, <1>2, LedgerIsSound, Zenon DEF WithSet, Sound, Ledger
  <1>4. SetTypes(l.status, l.candidates, l.set, l.operator, l.evidence, markers)
    BY <1>1, LedgerIsSound, SMTT(30) DEF SetTypes, Sound, Ledger
  <1>5. /\ Sound(x) /\ SameStakes(l, x) /\ Money(x) = Money(l)
        /\ x.status = l.status /\ x.candidates = l.candidates /\ x.set = l.set
    BY <1>2, <1>4, LedgerIsSound, SetRows
  <1>6. CASE l.status[v] = Tombstoned
    <2>1. Dispatch(a, x, {}, {})
      BY <1>3, <1>6 DEF submit_equivocation_evidence
    <2>2. ActionRows(x, {}, {})
      BY <1>5 DEF ActionRows
    <2> QED  BY <2>1, <2>2, DispatchKeeps
  <1>7. CASE l.status[v] # Tombstoned
    <2>1. PICK k : k = fault_slash(x, v, a)
      OBVIOUS
    <2>2. Dispatch(a, k, {v}, {}) /\ l.masters[v] # {}
      BY <1>3, <1>7, <2>1, SMTT(30) DEF submit_equivocation_evidence
    <2>3. Sound(k) /\ Money(k) = Money(x) /\ StatusWritten(x, k, v)
      BY <1>5, <2>1, <2>2, FaultSlashIsSound, SMTT(30) DEF SameStakes
    <2>4. ActionRows(k, {v}, {})
      BY <1>5, <2>3 DEF ActionRows, StatusWritten
    <2> QED  BY <2>2, <2>4, DispatchKeeps
  <1> QED  BY <1>6, <1>7

LEMMA ReinstateKeeps ==
    ASSUME StakingInv, NEW a \in Users, NEW v \in Validators, reinstate_validator(a, v)
    PROVE  StakingInv' /\ ActionStep
  <1>1. PICK k : k = WithStatus(l, v, None)
    OBVIOUS
  <1>2. Dispatch(a, k, {}, {v})
    BY <1>1 DEF reinstate_validator, WithStatus
  <1>3. None \in Statuses
    BY DEF Statuses
  <1>4. Sound(k) /\ Money(k) = Money(l) /\ StatusWritten(l, k, v)
    BY <1>1, <1>3, LedgerIsSound, StatusRow, SMTT(30)
  <1>5. ActionRows(k, {}, {v})
    BY <1>4 DEF ActionRows, StatusWritten
  <1> QED  BY <1>2, <1>5, DispatchKeeps

LEMMA OperatorKeeps ==
    ASSUME StakingInv, NEW v \in Validators, OperatorStep(v)
    PROVE  StakingInv' /\ ActionStep
  <1>1. PICK o \in Users \cup {None} : Dispatch(v, [l EXCEPT !.operator[v] = o], {}, {})
    BY StakingAssumption, Zenon DEF OperatorStep, authorize_operator, revoke_operator
  <1>2. PICK operator : operator = [l.operator EXCEPT ![v] = o]
    BY Zenon
  <1>3. PICK k : k = WithSet(l, l.status, l.candidates, l.set, operator, l.evidence, l.markers)
    OBVIOUS
  <1>4. k = [l EXCEPT !.operator[v] = o]
    BY <1>2, <1>3, LedgerIsSound, Zenon DEF WithSet, Sound, Ledger
  <1>5. SetTypes(l.status, l.candidates, l.set, operator, l.evidence, l.markers)
    BY <1>2, LedgerIsSound DEF SetTypes, Sound, Ledger
  <1>6. /\ Sound(k) /\ Money(k) = Money(l)
        /\ k.status = l.status /\ k.candidates = l.candidates /\ k.set = l.set
    BY <1>3, <1>5, LedgerIsSound, SetRows
  <1>7. ActionRows(k, {}, {})
    BY <1>6 DEF ActionRows
  <1>8. v \in Users /\ Dispatch(v, k, {}, {})
    BY <1>1, <1>4, StakingAssumption
  <1> QED  BY <1>7, <1>8, DispatchKeeps

LEMMA BeginKeeps ==
    ASSUME StakingInv, BeginBlock
    PROVE  /\ StakingInv' /\ l'.set = l.set /\ Money(l') = Money(l)
           /\ phase = "sealed" /\ phase' = "open"
           /\ \A p \in Pairs : l.alloc[p] # None /\ l.alloc[p].unbonding # None =>
                  l'.alloc[p] = l.alloc[p] \/ l.alloc[p].unbonding.unlock = height'
  <1>1. PICK h, j : h = height + 1 /\ j = resolve_due_unbonding(l, h)
    OBVIOUS
  <1>2. l' = j /\ height' = h /\ phase = "sealed" /\ phase' = "open" /\ height < MaxHeight
        /\ fees' = 0 /\ written' = {} /\ removed' = {} /\ acts' = acts
    BY <1>1 DEF BeginBlock
  <1>3. h \in 0 .. MaxHeight /\ h \in UnlockHeights
    BY <1>1, <1>2, LedgerIsSound, StakingAssumption, ParamsAssumption, SMTT(30) DEF UnlockHeights
  <1>4. /\ Sound(j) /\ SameSet(l, j) /\ Money(j) = Money(l)
        /\ \A p \in Pairs : l.alloc[p] # None /\ l.alloc[p].unbonding # None =>
               j.alloc[p] = l.alloc[p] \/ l.alloc[p].unbonding.unlock = h
    BY <1>1, <1>3, LedgerIsSound, ReleaseIsSound, SMTT(30)
  <1>5. TypeOK'
    BY <1>2, <1>3, <1>4, SMTT(30) DEF TypeOK, StakingInv, Sound
  <1>6. StakeIsBacked'
    BY <1>2, <1>4, SMTT(30) DEF StakeIsBacked, Sound
  <1>7. Listed'
    BY <1>2, <1>4, SMTT(30) DEF Listed, StakingInv, SameSet
  <1> QED  BY <1>2, <1>4, <1>5, <1>6, <1>7 DEF StakingInv, SameSet

\* Governance's deletions over a sound ledger.
LEMMA GovernanceIsSound ==
    ASSUME NEW k, Sound(k), NEW j, j = GovernanceLast(k)
    PROVE  /\ Sound(j) /\ Money(j) = Money(k)
           /\ j.set = k.set /\ j.candidates = k.candidates
           /\ \A v \in Validators : /\ j.status[v] = IF v \in removed THEN None ELSE k.status[v]
                                    /\ total_stake(j, v) = total_stake(k, v)
  <1>1. PICK status : status = [v \in Validators |-> IF v \in removed THEN None ELSE k.status[v]]
    BY Zenon
  <1>2. j = WithSet(k, status, k.candidates, k.set, k.operator, k.evidence, k.markers)
    BY <1>1, ZenonT(60) DEF GovernanceLast, WithSet, Sound, Ledger
  <1>3. SetTypes(status, k.candidates, k.set, k.operator, k.evidence, k.markers)
    BY <1>1, SMTT(30) DEF SetTypes, Sound, Ledger, Statuses
  <1>4. /\ Sound(j) /\ Money(j) = Money(k) /\ j.status = status
        /\ j.candidates = k.candidates /\ j.set = k.set
        /\ \A v \in Validators : total_stake(j, v) = total_stake(k, v)
    BY <1>2, <1>3, SetRows, SMTT(30)
  <1> QED  BY <1>1, <1>4

\* The markers of the block become evidence when it is committed.
Marked(k) == [k EXCEPT !.evidence = @ \cup k.markers, !.markers = {}]

LEMMA MarkersAreSound ==
    ASSUME NEW k, Sound(k), NEW j, j = Marked(k)
    PROVE  /\ Sound(j) /\ Money(j) = Money(k)
           /\ j.set = k.set /\ j.candidates = k.candidates /\ j.status = k.status
           /\ \A v \in Validators : total_stake(j, v) = total_stake(k, v)
  <1>1. PICK evidence, markers : evidence = k.evidence \cup k.markers /\ markers = {}
    BY Zenon
  <1>2. j = WithSet(k, k.status, k.candidates, k.set, k.operator, evidence, markers)
    BY <1>1, Zenon DEF Marked, WithSet, Sound, Ledger
  <1>3. SetTypes(k.status, k.candidates, k.set, k.operator, evidence, markers)
    BY <1>1 DEF SetTypes, Sound, Ledger
  <1> QED  BY <1>2, <1>3, SetRows

\* What SealIsSound asks of a block, and what it says of its seal.
SealInput(k, wrote, proposer, collected, h) ==
    /\ Sound(k) /\ wrote \in SUBSET Validators /\ proposer \in Validators
    /\ collected \in Nat /\ h \in Nat
    /\ \A v \in Validators : k.status[v] # None /\ v \notin wrote => v \in k.candidates

SealEffect(k, j, collected, h) ==
    /\ Sound(j)
    /\ Money(j) = Money(k) + Bps(collected, Params.fee_proposer_bps)
                          + Bps(collected, Params.fee_treasury_bps)
    /\ \A v \in Validators : j.status[v] # None => v \in j.candidates
    /\ j.set # k.set =>
          /\ is_boundary(h)
          /\ \A v \in DOMAIN j.set :
                /\ total_stake(j, v) >= Params.min_validator_stake
                /\ j.status[v] = Active
                /\ k.status[v] # None /\ k.status[v] # Tombstoned
                /\ IsJailed(k.status[v]) => k.status[v][2] <= epoch_of(h) + 1

LEMMA SealHasEffect ==
    ASSUME NEW k, NEW wrote, NEW proposer, NEW collected, NEW h,
           SealInput(k, wrote, proposer, collected, h),
           NEW j, j = seal(k, wrote, proposer, collected, h)
    PROVE  SealEffect(k, j, collected, h)
  <1>1. PICK c \in Nat, i \in Nat : c = collected /\ i = h
    BY DEF SealInput
  <1>2. /\ Sound(k) /\ wrote \in SUBSET Validators /\ proposer \in Validators
        /\ \A v \in Validators : k.status[v] # None /\ v \notin wrote => v \in k.candidates
    BY SMTT(30) DEF SealInput
  <1>3. SealEffect(k, seal(k, wrote, proposer, c, i), c, i)
    <2> HIDE <1>1
    <2> QED  BY <1>2, SealIsSound, Zenon DEF SealEffect
  <1> QED  BY <1>1, <1>3

SealStep ==
    /\ phase = "open" /\ phase' = "sealed" /\ height' = height
    /\ Money(l') = Money(l) + Bps(fees, Params.fee_proposer_bps)
                            + Bps(fees, Params.fee_treasury_bps)
    /\ \A v \in Validators : l'.status[v] # None => v \in l'.candidates
    /\ l'.set # l.set =>
          /\ is_boundary(height)
          /\ \A v \in DOMAIN l'.set :
                /\ total_stake(l', v) >= Params.min_validator_stake
                /\ l'.status[v] = Active
                /\ l.status[v] # Tombstoned
                /\ IsJailed(l.status[v]) => l.status[v][2] <= epoch_of(height) + 1

LEMMA SealKeeps ==
    ASSUME StakingInv, NEW round \in 0 .. MaxRound, SealBlock(round)
    PROVE  StakingInv' /\ SealStep
  <1>1. PICK proposer, view, wrote : /\ proposer = eligible_proposer(DOMAIN l.set, height, round)
                                     /\ view = seal_view /\ wrote = written \cup removed
    BY Zenon
  <1>2. PICK x : x = seal(view, wrote, proposer, fees, height)
    OBVIOUS
  <1>3. PICK k, j : k = GovernanceLast(x) /\ j = Marked(k)
    OBVIOUS
  <1>4. /\ l' = j /\ phase = "open" /\ phase' = "sealed" /\ height' = height /\ fees' = fees
        /\ acts' = acts /\ written' = written /\ removed' = removed
    BY <1>1, <1>2, <1>3 DEF SealBlock, Committed, Marked
  <1>5. proposer \in Validators
    <2>1. DOMAIN l.set \in (SUBSET Validators) \ {{}}
      BY LedgerIsSound DEF Sound, Ledger
    <2>2. round \in Nat /\ height \in Nat
      BY LedgerIsSound, StakingAssumption, SMTT(30)
    <2> QED  BY <1>1, <2>1, <2>2, ProposerIsMember, SMTT(30)
  <1>6. /\ Sound(view) /\ Money(view) = Money(l) /\ view.set = l.set
        /\ view.candidates = l.candidates
        /\ \A v \in Validators : view.status[v] = IF v \in removed THEN None ELSE l.status[v]
    BY <1>1, LedgerIsSound, GovernanceIsSound DEF seal_view
  <1>7. wrote \in SUBSET Validators /\ fees \in Nat /\ height \in Nat
    BY <1>1, LedgerIsSound, SMTT(30)
  <1>8. \A v \in Validators : view.status[v] # None /\ v \notin wrote => v \in view.candidates
    BY <1>1, <1>6, SMTT(30) DEF StakingInv, Listed
  <1>9. /\ Sound(x)
        /\ Money(x) = Money(view) + Bps(fees, Params.fee_proposer_bps)
                                  + Bps(fees, Params.fee_treasury_bps)
        /\ \A v \in Validators : x.status[v] # None => v \in x.candidates
        /\ x.set # view.set =>
              /\ is_boundary(height)
              /\ \A v \in DOMAIN x.set :
                    /\ total_stake(x, v) >= Params.min_validator_stake
                    /\ x.status[v] = Active
                    /\ view.status[v] # None /\ view.status[v] # Tombstoned
                    /\ IsJailed(view.status[v]) => view.status[v][2] <= epoch_of(height) + 1
    <2>1. SealInput(view, wrote, proposer, fees, height)
      BY <1>5, <1>6, <1>7, <1>8, SMTT(30) DEF SealInput
    <2>2. SealEffect(view, x, fees, height)
      BY <1>2, <2>1, SealHasEffect, SMTT(30)
    <2> QED  BY <2>2 DEF SealEffect
  <1>10. /\ Sound(k) /\ Money(k) = Money(x) /\ k.set = x.set /\ k.candidates = x.candidates
         /\ \A v \in Validators : /\ k.status[v] = IF v \in removed THEN None ELSE x.status[v]
                                  /\ total_stake(k, v) = total_stake(x, v)
    BY <1>3, <1>9, GovernanceIsSound, SMTT(30)
  <1>11. /\ Sound(j) /\ Money(j) = Money(k) /\ j.set = k.set /\ j.candidates = k.candidates
         /\ j.status = k.status /\ \A v \in Validators : total_stake(j, v) = total_stake(k, v)
    BY <1>3, <1>10, MarkersAreSound, SMTT(30)
  <1>12. \A v \in Validators : j.status[v] # None => v \in j.candidates
    BY <1>9, <1>10, <1>11, SMTT(30)
  <1>13. ASSUME j.set # l.set
         PROVE  /\ is_boundary(height)
                /\ \A v \in DOMAIN j.set :
                      /\ total_stake(j, v) >= Params.min_validator_stake
                      /\ j.status[v] = Active
                      /\ l.status[v] # Tombstoned
                      /\ IsJailed(l.status[v]) => l.status[v][2] <= epoch_of(height) + 1
    <2>1. x.set # view.set /\ j.set = x.set
      BY <1>6, <1>10, <1>11, <1>13, SMTT(30)
    <2>2. is_boundary(height)
      BY <1>9, <2>1, SMTT(30)
    <2>3. ASSUME NEW v \in DOMAIN j.set
          PROVE  /\ total_stake(j, v) >= Params.min_validator_stake
                 /\ j.status[v] = Active
                 /\ l.status[v] # Tombstoned
                 /\ IsJailed(l.status[v]) => l.status[v][2] <= epoch_of(height) + 1
      <3>1. v \in Validators /\ v \in DOMAIN x.set
        BY <1>11, <2>1, <2>3, SMTT(30) DEF Sound, Ledger
      <3>2. view.status[v] # None
        BY <1>9, <2>1, <3>1, SMTT(30)
      <3>3. v \notin removed /\ view.status[v] = l.status[v]
        BY <1>6, <3>1, <3>2, SMTT(30)
      <3>4. j.status[v] = x.status[v] /\ total_stake(j, v) = total_stake(x, v)
        BY <1>10, <1>11, <3>1, <3>3, SMTT(30)
      <3> QED  BY <1>9, <2>1, <3>1, <3>3, <3>4, SMTT(30)
    <2> QED  BY <2>2, <2>3, SMTT(30)
  <1>14. SealStep
    BY <1>4, <1>6, <1>9, <1>10, <1>11, <1>12, <1>13, ZenonT(60) DEF SealStep
  <1>15. TypeOK'
    BY <1>4, <1>11 DEF TypeOK, StakingInv, Sound
  <1>16. StakeIsBacked'
    BY <1>4, <1>11 DEF StakeIsBacked, Sound
  <1>17. Listed'
    BY <1>4, <1>12 DEF Listed
  <1> QED  BY <1>14, <1>15, <1>16, <1>17 DEF StakingInv

LEMMA GenesisIsSound == Init => StakingInv
  <1> SUFFICES ASSUME Init PROVE StakingInv
    OBVIOUS
  <1>1. PICK set : set = assign_voting_power([v \in Genesis |-> GenesisStake])
    OBVIOUS
  <1>2. DOMAIN set = Genesis
    BY <1>1, SMTT(30) DEF assign_voting_power
  <1>3. Ledger(l)
    <2>1. /\ [u \in Users |-> Balance] \in [Users -> Nat]
          /\ [v \in Validators |-> IF v \in Genesis THEN GenesisStake ELSE 0] \in [Validators -> Nat]
          /\ [v \in Validators |-> IF v \in Genesis THEN {v} ELSE {}] \in [Validators -> SUBSET Users]
          /\ [h \in UnlockHeights |-> {}] \in [UnlockHeights -> SUBSET Pairs]
          /\ [v \in Validators |-> None] \in [Validators -> Users \cup {None}]
      BY StakingAssumption
    <2>2. [v \in Validators |-> IF v \in Genesis THEN Active ELSE None] \in [Validators -> Statuses]
      BY DEF Statuses
    <2>3. [p \in Pairs |-> IF p[1] = p[2] /\ p[2] \in Genesis
                          THEN [active |-> GenesisStake, unbonding |-> None]
                          ELSE None] \in [Pairs -> {None} \cup Allocations]
      BY StakingAssumption DEF Allocations
    <2>4. Genesis \in (SUBSET Validators) \ {{}} /\ Pool \in Nat
      BY StakingAssumption, ZenonT(60)
    <2>5. l.set = set
      BY <1>1 DEF Init
    <2> QED  BY <1>1, <1>2, <2>1, <2>2, <2>3, <2>4, <2>5, SMTT(30) DEF Init, Ledger
  <1>4. ASSUME NEW v \in Validators
        PROVE  /\ l.masters[v] = {m \in Users : Allocated(l, m, v)}
               /\ \A m, n \in l.masters[v] : m = n
               /\ l.sub[v] = Held(l, v)
               /\ l.masters[v] # {} => l.sub[v] > 0
    <2>1. \A m \in Users : l.alloc[<<m, v>>] =
              IF m = v /\ v \in Genesis THEN [active |-> GenesisStake, unbonding |-> None]
              ELSE None
      BY DEF Init, Pairs
    <2>2. /\ l.masters[v] = IF v \in Genesis THEN {v} ELSE {}
          /\ l.sub[v] = IF v \in Genesis THEN GenesisStake ELSE 0
      BY DEF Init
    <2>3. [active |-> GenesisStake, unbonding |-> None] # None
      BY StakingAssumption DEF Allocations
    <2>4. l.masters[v] = {m \in Users : Allocated(l, m, v)}
      BY <2>1, <2>2, <2>3, StakingAssumption DEF Allocated
    <2>5. l.sub[v] = Held(l, v)
      <3>1. CASE v \in Genesis
        <4>1. Master(l, v) = v
          BY <2>2, <3>1 DEF Master
        <4>2. l.alloc[<<v, v>>] = [active |-> GenesisStake, unbonding |-> None]
          BY <2>1, <3>1, StakingAssumption
        <4> QED  BY <2>2, <3>1, <4>1, <4>2, StakingAssumption, SMTT(30) DEF Held, Total, Unbonding
      <3>2. CASE v \notin Genesis
        BY <2>2, <3>2 DEF Held
      <3> QED  BY <3>1, <3>2, SMTT(30)
    <2>6. l.masters[v] # {} => l.sub[v] > 0
      BY <2>2, StakingAssumption
    <2>7. \A m, n \in l.masters[v] : m = n
      BY <2>2
    <2> QED  BY <2>4, <2>5, <2>6, <2>7, SMTT(30)
  <1>5. StakeIsBacked
    BY <1>4, SMTT(30) DEF StakeIsBacked, Backed
  <1>6. TypeOK
    BY <1>3, StakingAssumption, SMTT(30) DEF TypeOK, Init
  <1>7. Listed
    BY DEF Listed, Init
  <1> QED  BY <1>5, <1>6, <1>7 DEF StakingInv

\* A step of the chain is the start of a block, an action or a seal.
LEMMA StakingStep ==
    ASSUME StakingInv, Next
    PROVE  /\ StakingInv'
           /\ \/ BeginBlock
              \/ ActionStep
              \/ SealStep
  <1>1. CASE BeginBlock
    BY <1>1, BeginKeeps
  <1>2. CASE \E round \in 0 .. MaxRound : SealBlock(round)
    BY <1>2, SealKeeps
  <1>3. ASSUME NEW v \in Validators, NEW a \in Users, StakerStep(a, v)
        PROVE  StakingInv' /\ ActionStep
    <2>1. CASE leave_validator(a, v)
      BY <2>1, LeaveKeeps
    <2>2. ASSUME NEW n \in Amounts, join_validator(a, v, n) \/ stake(a, v, n) \/ unstake(a, v, n)
          PROVE  StakingInv' /\ ActionStep
      <3>1. PICK i \in Nat : i = n
        BY StakingAssumption
      <3>2. CASE join_validator(a, v, n)
        BY <3>1, <3>2, JoinKeeps
      <3>3. CASE stake(a, v, n)
        BY <3>1, <3>3, StakeKeeps, SMTT(30)
      <3>4. CASE unstake(a, v, n)
        BY <3>1, <3>4, UnstakeKeeps
      <3> QED  BY <2>2, <3>2, <3>3, <3>4, SMTT(30)
    <2> QED  BY <1>3, <2>1, <2>2 DEF StakerStep
  <1>4. ASSUME NEW v \in Validators, NEW a \in Reporters, ReporterStep(a, v)
        PROVE  StakingInv' /\ ActionStep
    <2>1. a \in Users
      BY StakingAssumption
    <2> QED  BY <1>4, <2>1, ReinstateKeeps, EvidenceKeeps DEF ReporterStep
  <1>5. ASSUME NEW v \in Validators, OperatorStep(v)
        PROVE  StakingInv' /\ ActionStep
    BY <1>5, OperatorKeeps, SMTT(30)
  <1> QED  BY <1>1, <1>2, <1>3, <1>4, <1>5, SMTT(30) DEF Next

LEMMA StakingStutters ==
    ASSUME StakingInv, UNCHANGED vars
    PROVE  StakingInv'
  BY DEF StakingInv, TypeOK, StakeIsBacked, Listed, vars

\* The inductive invariant of the staking ledger: the types, the backing of every
\* stake, and that everybody with a status row is a candidate or will be at the
\* seal (circuits/staking, arxd/runtime).
THEOREM StakingInvHolds == Spec => []StakingInv
  <1>1. Init => StakingInv
    BY GenesisIsSound
  <1>2. StakingInv /\ [Next]_vars => StakingInv'
    BY StakingStep, StakingStutters
  <1> QED  BY <1>1, <1>2, PTL DEF Spec

\* For any users, stakes and parameters: a validator's sub-account holds exactly
\* what its one allocation says (apply_stake, apply_unstake, apply_slash,
\* resolve_due_unbonding), so no subtraction of them goes below zero.
THEOREM StakeIsBackedHolds == Spec => []StakeIsBacked
  <1>1. StakingInv => StakeIsBacked
    BY DEF StakingInv
  <1> QED  BY <1>1, StakingInvHolds, PTL

\* For any users, stakes and parameters: no block mints coins, and a batch that is
\* unbonding is released at its own height only (dispatch, on_block_sealed,
\* resolve_matured_unbonding).
THEOREM SupplyIsKeptHolds == Spec => SupplyIsKept
  <1> DEFINE Kept ==
         /\ CASE phase = "sealed" -> Money(l') = Money(l)
              [] phase = "open" /\ phase' = "open" ->
                     Money(l') + fees' = Money(l) + fees
              [] OTHER -> Money(l') = Money(l) + Bps(fees, Params.fee_proposer_bps)
                                               + Bps(fees, Params.fee_treasury_bps)
         /\ phase = "sealed" =>
               \A p \in Pairs :
                   l.alloc[p] # None /\ l.alloc[p].unbonding # None =>
                       \/ l'.alloc[p] = l.alloc[p]
                       \/ l.alloc[p].unbonding.unlock = height'
  <1>1. StakingInv /\ [Next]_vars => [Kept]_vars
    <2> SUFFICES ASSUME StakingInv, Next PROVE Kept
      OBVIOUS
    <2>1. CASE BeginBlock
      BY <2>1, BeginKeeps
    <2>2. CASE ActionStep
      BY <2>2 DEF ActionStep
    <2>3. CASE SealStep
      BY <2>3 DEF SealStep
    <2> QED  BY <2>1, <2>2, <2>3, StakingStep
  <1> QED  BY <1>1, StakingInvHolds, PTL DEF Spec, SupplyIsKept

\* For any users, stakes and parameters: the set changes only at a boundary, to
\* validators that earned it, and no seal forgets a candidate (on_block_sealed,
\* boundary_hook).
THEOREM SetIsEarnedHolds == Spec => SetIsEarned
  <1> DEFINE Earned ==
         /\ l'.set # l.set =>
               /\ is_boundary(height)
               /\ \A v \in DOMAIN l'.set :
                     /\ total_stake(l', v) >= Params.min_validator_stake
                     /\ l'.status[v] = Active
                     /\ l.status[v] # Tombstoned
                     /\ IsJailed(l.status[v]) => l.status[v][2] <= epoch_of(height) + 1
         /\ phase' = "sealed" =>
               \A v \in Validators : l'.status[v] # None => v \in l'.candidates
  <1>1. StakingInv /\ [Next]_vars => [Earned]_vars
    <2> SUFFICES ASSUME StakingInv, Next PROVE Earned
      BY SMTT(30)
    <2>1. CASE BeginBlock
      BY <2>1, BeginKeeps, SMTT(30)
    <2>2. CASE ActionStep
      BY <2>2, SMTT(30) DEF ActionStep
    <2>3. CASE SealStep
      BY <2>3 DEF SealStep
    <2> QED  BY <2>1, <2>2, <2>3, StakingStep, SMTT(30)
  <1> QED  BY <1>1, StakingInvHolds, PTL DEF Spec, SetIsEarned

=============================================================================
