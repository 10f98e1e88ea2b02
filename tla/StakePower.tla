----------------------------- MODULE StakePower -----------------------------
(***************************************************************************)
(* How stake becomes voting power (core/primitives/src/validator_set.rs,   *)
(* assign_voting_power): a loop that shares the power still to be given    *)
(* out among the validators still in the pool in proportion to their       *)
(* stake, fixes whoever comes out above the cap at the cap, and goes round *)
(* again for the rest.                                                     *)
(*                                                                         *)
(* An address is a number, so that "ascending address order" is the order  *)
(* of the numbers.  The loop's state is a record: the powers already       *)
(* fixed, the power left and the pool.                                     *)
(***************************************************************************)
EXTENDS Sums

TOTAL_VOTING_POWER == 10000

QUORUM_POWER == 6667

power_cap(n) ==
    Larger(Larger(TOTAL_VOTING_POWER \div 10,
                  Smaller(3333, (2 * TOTAL_VOTING_POWER) \div n)),
           (TOTAL_VOTING_POWER + n - 1) \div n)

\* Mutant of Shares: the remainder is lost.
SharesWithoutRemainder(st, pool, power) ==
    LET total == SumOf(st, pool)
    IN  [a \in pool |-> IF total = 0 THEN power \div Cardinality(pool)
                        ELSE (power * st[a]) \div total]

\* The proportional pass over the pool (an equal split if nobody in it has
\* stake), and the remainder one unit each in ascending address order.
Shares(st, pool, power) ==
    LET total == SumOf(st, pool)
        part == [a \in pool |-> IF total = 0 THEN power \div Cardinality(pool)
                                ELSE (power * st[a]) \div total]
        leftover == power - SumOf(part, pool)
    IN  [a \in pool |-> part[a] + (IF Rank(a, pool) < leftover THEN 1 ELSE 0)]

Start(st) ==
    [powers |-> [a \in DOMAIN st |-> 0],
     power  |-> TOTAL_VOTING_POWER,
     pool   |-> DOMAIN st]

\* One iteration.  Nobody over the cap: the shares stand and the loop ends.
\* Otherwise whoever is over is fixed at the cap and leaves the pool; should
\* that empty the pool, the power left goes one unit each to everyone.
Iteration(st, t) ==
    LET cap == power_cap(Cardinality(DOMAIN st))
        share == Shares(st, t.pool, t.power)
        over == {a \in t.pool : share[a] > cap}
        left == t.power - cap * Cardinality(over)
        capped == [a \in DOMAIN st |-> IF a \in over THEN cap ELSE t.powers[a]]
    IN  IF over = {}
        THEN [powers |-> [a \in DOMAIN st |-> IF a \in t.pool THEN share[a]
                                              ELSE t.powers[a]],
              power |-> 0, pool |-> {}]
        ELSE IF over = t.pool
        THEN [powers |-> [a \in DOMAIN st |->
                             capped[a] + (IF Rank(a, DOMAIN st) < left
                                          THEN 1 ELSE 0)],
              power |-> 0, pool |-> {}]
        ELSE [powers |-> capped, power |-> left, pool |-> t.pool \ over]

\* The whole loop: every iteration that does not end it removes a validator
\* from the pool, so as many iterations as validators are enough.
assign_voting_power(st) ==
    LET after[n \in 0 .. Cardinality(DOMAIN st)] ==
            IF n = 0 THEN Start(st)
            ELSE IF after[n - 1].pool = {} THEN after[n - 1]
            ELSE Iteration(st, after[n - 1])
    IN  [a \in DOMAIN st |-> after[Cardinality(DOMAIN st)].powers[a]]

=============================================================================
