---------------------------- MODULE LedgerProof ----------------------------
(***************************************************************************)
(* The operations on the stake ledger (Staking).  Each is shown to keep the*)
(* types of the rows, the backing of the stakes and the money.             *)
(***************************************************************************)
EXTENDS Staking, SetFacts

Sound(k) == Ledger(k) /\ Backed(k)

\* k and j have the same coins and the same stakes.
SameStakes(k, j) ==
    /\ j.bal = k.bal /\ j.sub = k.sub /\ j.pool = k.pool /\ j.treasury = k.treasury
    /\ j.alloc = k.alloc /\ j.masters = k.masters

\* k and j have the same validators.
SameSet(k, j) ==
    /\ j.status = k.status /\ j.candidates = k.candidates /\ j.set = k.set
    /\ j.operator = k.operator /\ j.evidence = k.evidence /\ j.markers = k.markers

LEMMA UsersAreFinite == IsFiniteSet(Users) /\ IsFiniteSet(Validators)
  BY StakingAssumption, FS_Subset, Zenon

\* Moving coins between two rows, or setting some aside, changes one sum each.
LEMMA BalanceChange ==
    ASSUME NEW k, Ledger(k), NEW m \in Users, NEW n \in Nat
    PROVE  SumOf([k.bal EXCEPT ![m] = n], Users) + k.bal[m] = SumOf(k.bal, Users) + n
  <1>1. PICK g : g = [k.bal EXCEPT ![m] = n]
    BY Zenon
  <1>2. \A a \in Users : k.bal[a] \in Nat /\ g[a] \in Nat /\ (a # m => g[a] = k.bal[a])
    BY <1>1 DEF Ledger
  <1>3. g[m] = n
    BY <1>1 DEF Ledger
  <1>4. PICK f : f = k.bal
    OBVIOUS
  <1>5. SumOf(g, Users) + f[m] = SumOf(f, Users) + g[m]
    BY <1>2, <1>4, UsersAreFinite, SumChange
  <1> QED  BY <1>1, <1>3, <1>4, <1>5

LEMMA StakeChange ==
    ASSUME NEW k, Ledger(k), NEW v \in Validators, NEW n \in Nat
    PROVE  SumOf([k.sub EXCEPT ![v] = n], Validators) + k.sub[v] = SumOf(k.sub, Validators) + n
  <1>1. PICK g : g = [k.sub EXCEPT ![v] = n]
    BY Zenon
  <1>2. \A a \in Validators : k.sub[a] \in Nat /\ g[a] \in Nat /\ (a # v => g[a] = k.sub[a])
    BY <1>1 DEF Ledger
  <1>3. g[v] = n
    BY <1>1 DEF Ledger
  <1>4. PICK f : f = k.sub
    OBVIOUS
  <1>5. SumOf(g, Validators) + f[v] = SumOf(f, Validators) + g[v]
    BY <1>2, <1>4, UsersAreFinite, SumChange
  <1> QED  BY <1>1, <1>3, <1>4, <1>5

LEMMA SumsAreNat ==
    ASSUME NEW k, Ledger(k)
    PROVE  SumOf(k.bal, Users) \in Nat /\ SumOf(k.sub, Validators) \in Nat
  <1>1. (\A a \in Users : k.bal[a] \in Nat) /\ (\A a \in Validators : k.sub[a] \in Nat)
    BY DEF Ledger
  <1> QED  BY <1>1, UsersAreFinite, SumType

With(k, bal, sub, pool, treasury, alloc, masters, due) ==
    [k EXCEPT !.bal = bal, !.sub = sub, !.pool = pool, !.treasury = treasury,
              !.alloc = alloc, !.masters = masters, !.due = due]

StakeTypes(bal, sub, pool, treasury, alloc, masters, due) ==
    /\ bal \in [Users -> Nat] /\ sub \in [Validators -> Nat]
    /\ pool \in Nat /\ treasury \in Nat
    /\ alloc \in [Pairs -> {None} \cup Allocations]
    /\ masters \in [Validators -> SUBSET Users]
    /\ due \in [UnlockHeights -> SUBSET Pairs]

\* An operation on the coins and stakes keeps the types and the other rows.
LEMMA StakeRows ==
    ASSUME NEW k, Ledger(k), NEW bal, NEW sub, NEW pool, NEW treasury, NEW alloc, NEW masters,
           NEW due, StakeTypes(bal, sub, pool, treasury, alloc, masters, due),
           NEW j, j = With(k, bal, sub, pool, treasury, alloc, masters, due)
    PROVE  /\ Ledger(j) /\ SameSet(k, j)
           /\ j.bal = bal /\ j.sub = sub /\ j.pool = pool /\ j.treasury = treasury
           /\ j.alloc = alloc /\ j.masters = masters /\ j.due = due
  <1>1. /\ SameSet(k, j)
        /\ j.bal = bal /\ j.sub = sub /\ j.pool = pool /\ j.treasury = treasury
        /\ j.alloc = alloc /\ j.masters = masters /\ j.due = due
    BY DEF Ledger, SameSet, With
  <1>2. j = [bal |-> bal, sub |-> sub, pool |-> pool, treasury |-> treasury,
             alloc |-> alloc, masters |-> masters, due |-> due,
             status |-> k.status, candidates |-> k.candidates, set |-> k.set,
             operator |-> k.operator, evidence |-> k.evidence, markers |-> k.markers]
    BY Zenon DEF Ledger, With
  <1> QED  BY <1>1, <1>2 DEF Ledger, StakeTypes

StakeWritten(k, j, m, v, a) ==
    /\ a \in {None} \cup Allocations /\ (a # None => Total(a) > 0)
    /\ j.alloc = [k.alloc EXCEPT ![<<m, v>>] = a]
    /\ j.masters = [k.masters EXCEPT ![v] = IF a = None THEN {} ELSE {m}]
    /\ j.sub = [k.sub EXCEPT ![v] = IF a = None THEN 0 ELSE Total(a)]

\* The rows of one validator written together: one master, its allocation, and a
\* sub-account with as much.
LEMMA OneStake ==
    ASSUME NEW k, Sound(k), NEW m \in Users, NEW v \in Validators, k.masters[v] \subseteq {m},
           NEW a, NEW j, StakeWritten(k, j, m, v, a)
    PROVE  Backed(j)
  <1> USE DEF StakeWritten
  <1> SUFFICES ASSUME NEW u \in Validators
               PROVE  /\ j.masters[u] = {n \in Users : Allocated(j, n, u)}
                      /\ \A n, o \in j.masters[u] : n = o
                      /\ j.sub[u] = Held(j, u)
                      /\ j.masters[u] # {} => j.sub[u] > 0
    BY DEF Backed
  <1>1. /\ k.masters[u] = {n \in Users : Allocated(k, n, u)}
        /\ \A n, o \in k.masters[u] : n = o
        /\ k.sub[u] = Held(k, u)
        /\ k.masters[u] # {} => k.sub[u] > 0
        /\ k.alloc \in [Pairs -> {None} \cup Allocations] /\ k.masters \in [Validators -> SUBSET Users]
        /\ k.sub \in [Validators -> Nat]
    BY DEF Sound, Backed, Ledger
  <1>2. \A n \in Users : j.alloc[<<n, u>>] = IF n = m /\ u = v THEN a ELSE k.alloc[<<n, u>>]
    BY <1>1 DEF Pairs
  <1>3. CASE u # v
    <2>1. j.masters[u] = k.masters[u] /\ j.sub[u] = k.sub[u] /\ k.masters[u] \subseteq Users
      BY <1>1, <1>3
    <2>2. \A n \in Users : j.alloc[<<n, u>>] = k.alloc[<<n, u>>]
      BY <1>2, <1>3
    <2>3. k.masters[u] # {} => Master(k, u) \in Users
      BY <2>1 DEF Master
    <2>4. Master(j, u) = Master(k, u)
      BY <2>1 DEF Master
    <2>5. Held(j, u) = Held(k, u)
      BY <2>1, <2>2, <2>3, <2>4 DEF Held
    <2>6. {n \in Users : Allocated(j, n, u)} = {n \in Users : Allocated(k, n, u)}
      BY <2>2 DEF Allocated
    <2> QED  BY <1>1, <2>1, <2>5, <2>6
  <1>4. CASE u = v
    <2>1. j.masters[u] = (IF a = None THEN {} ELSE {m}) /\ j.sub[u] = IF a = None THEN 0 ELSE Total(a)
      BY <1>1, <1>4
    <2>2. \A n \in Users : n # m => k.alloc[<<n, u>>] = None
      BY <1>1, <1>4 DEF Allocated
    <2>3. \A n \in Users : Allocated(j, n, u) <=> (n = m /\ a # None)
      BY <1>2, <1>4, <2>2 DEF Allocated
    <2>4. a # None => Master(j, u) = m
      BY <2>1 DEF Master
    <2>5. j.alloc[<<m, u>>] = a
      BY <1>2, <1>4
    <2>6. Held(j, u) = IF a = None THEN 0 ELSE Total(a)
      BY <2>1, <2>4, <2>5 DEF Held
    <2> QED  BY <2>1, <2>3, <2>6
  <1> QED  BY <1>3, <1>4

\* What is known of a validator's one allocation.
LEMMA OneMaster ==
    ASSUME NEW k, Sound(k), NEW v \in Validators, NEW m \in Users, Allocated(k, m, v)
    PROVE  /\ k.masters[v] = {m} /\ Master(k, v) = m
           /\ k.alloc[<<m, v>>] \in Allocations
           /\ k.sub[v] = Total(k.alloc[<<m, v>>]) /\ k.sub[v] > 0 /\ k.sub[v] \in Nat
  <1>1. /\ k.masters[v] = {n \in Users : Allocated(k, n, v)}
        /\ \A n, o \in k.masters[v] : n = o
        /\ k.sub[v] = Held(k, v)
        /\ k.masters[v] # {} => k.sub[v] > 0
    BY DEF Sound, Backed
  <1>2. k.masters[v] = {m} /\ k.sub[v] > 0
    BY <1>1
  <1>3. Master(k, v) = m
    BY <1>2 DEF Master
  <1>4. k.alloc[<<m, v>>] \in Allocations /\ k.sub[v] \in Nat
    BY DEF Sound, Ledger, Pairs, Allocated
  <1> QED  BY <1>1, <1>2, <1>3, <1>4 DEF Held

LEMMA NoMaster ==
    ASSUME NEW k, Sound(k), NEW v \in Validators, k.masters[v] = {}
    PROVE  k.sub[v] = 0 /\ \A m \in Users : ~Allocated(k, m, v)
  BY Zenon DEF Sound, Backed, Held

LEMMA ApplyStakeIsSound ==
    ASSUME NEW k, Sound(k), NEW m \in Users, NEW v \in Validators, NEW amount \in Nat,
           StakeOk(k, m, v, amount)
    PROVE  LET j == apply_stake(k, m, v, amount)
           IN  Sound(j) /\ SameSet(k, j) /\ Money(j) = Money(k)
  <1>1. PICK a : a = [active |-> ActiveStake(k, m, v) + amount, unbonding |-> None]
    BY Zenon
  <1>2. PICK bal, sub, alloc, masters :
           /\ bal = [k.bal EXCEPT ![m] = k.bal[m] - amount]
           /\ sub = [k.sub EXCEPT ![v] = k.sub[v] + amount]
           /\ alloc = [k.alloc EXCEPT ![<<m, v>>] = a]
           /\ masters = [k.masters EXCEPT ![v] = {m}]
    BY Zenon
  <1>3. PICK j : j = apply_stake(k, m, v, amount)
    OBVIOUS
  <1>4. k.sub[v] = ActiveStake(k, m, v) /\ k.sub[v] \in Nat
    <2>1. CASE Allocated(k, m, v)
      <3>1. /\ k.sub[v] = Total(k.alloc[<<m, v>>]) /\ k.sub[v] \in Nat
            /\ k.alloc[<<m, v>>] \in Allocations
        BY <2>1, OneMaster
      <3> QED  BY <2>1, <3>1 DEF StakeOk, ActiveStake, Total, Unbonding, Allocations
    <2>2. CASE ~Allocated(k, m, v)
      <3>1. k.masters[v] = {}
        BY <2>2 DEF Sound, Backed, StakeOk
      <3> QED  BY <2>2, <3>1, NoMaster DEF ActiveStake
    <2> QED  BY <2>1, <2>2
  <1>5. a \in Allocations /\ a # None /\ Total(a) = k.sub[v] + amount /\ Total(a) > 0
    <2>1. a \in Allocations
      BY <1>1, <1>4 DEF Allocations
    <2> QED  BY <1>1, <1>4, <2>1, StakingAssumption DEF Total, Unbonding, StakeOk
  <1>6. /\ Ledger(j) /\ SameSet(k, j) /\ j.pool = k.pool /\ j.treasury = k.treasury
        /\ j.bal = bal /\ j.sub = sub /\ j.alloc = alloc /\ j.masters = masters
    <2>1. StakeTypes(bal, sub, k.pool, k.treasury, alloc, masters, k.due)
      <3>1. /\ bal \in [Users -> Nat] /\ sub \in [Validators -> Nat]
            /\ k.pool \in Nat /\ k.treasury \in Nat
            /\ masters \in [Validators -> SUBSET Users]
            /\ k.due \in [UnlockHeights -> SUBSET Pairs]
        BY <1>2 DEF Sound, Ledger, StakeOk
      <3>2. alloc \in [Pairs -> {None} \cup Allocations]
        BY <1>2, <1>5, Zenon DEF Sound, Ledger
      <3> QED  BY <3>1, <3>2 DEF StakeTypes
    <2>2. j = With(k, bal, sub, k.pool, k.treasury, alloc, masters, k.due)
      BY <1>1, <1>2, <1>3, ZenonT(60) DEF Sound, Ledger, apply_stake, With
    <2> QED  BY <2>1, <2>2, StakeRows DEF Sound
  <1>7. Backed(j)
    <2>1. k.masters[v] \subseteq {m}
      BY DEF StakeOk
    <2>2. StakeWritten(k, j, m, v, a)
      BY <1>2, <1>5, <1>6 DEF StakeWritten
    <2> QED  BY <2>1, <2>2, OneStake
  <1>8. Money(j) = Money(k)
    <2>1. k.bal[m] \in Nat /\ k.bal[m] - amount \in Nat /\ k.sub[v] + amount \in Nat
      BY <1>4 DEF Sound, Ledger, StakeOk
    <2>2. SumOf(bal, Users) + k.bal[m] = SumOf(k.bal, Users) + (k.bal[m] - amount)
      BY <1>2, <2>1, BalanceChange DEF Sound
    <2>3. SumOf(sub, Validators) + k.sub[v] = SumOf(k.sub, Validators) + (k.sub[v] + amount)
      BY <1>2, <2>1, StakeChange DEF Sound
    <2>4. /\ SumOf(j.bal, Users) \in Nat /\ SumOf(j.sub, Validators) \in Nat
          /\ SumOf(k.bal, Users) \in Nat /\ SumOf(k.sub, Validators) \in Nat
      BY <1>6, SumsAreNat DEF Sound
    <2>5. SumOf(j.bal, Users) + SumOf(j.sub, Validators) = SumOf(k.bal, Users) + SumOf(k.sub, Validators)
      BY <1>4, <1>6, <2>1, <2>2, <2>3, <2>4
    <2> QED  BY <1>6, <2>5 DEF Money
  <1> QED  BY <1>3, <1>6, <1>7, <1>8 DEF Sound

LEMMA ApplyUnstakeIsSound ==
    ASSUME NEW k, Sound(k), NEW m \in Users, NEW v \in Validators, NEW amount \in Nat,
           NEW h \in 0 .. MaxHeight, UnstakeOk(k, m, v, amount)
    PROVE  LET j == apply_unstake(k, m, v, amount, h)
           IN  Sound(j) /\ SameSet(k, j) /\ Money(j) = Money(k) /\ j.due = k.due
  <1>1. PICK o : o = k.alloc[<<m, v>>]
    OBVIOUS
  <1>2. PICK a : a = [active |-> o.active - amount,
                      unbonding |-> [amount |-> amount, unlock |-> h + Params.unbonding_blocks]]
    BY Zenon
  <1>3. PICK alloc : alloc = [k.alloc EXCEPT ![<<m, v>>] = a]
    BY Zenon
  <1>4. PICK j : j = apply_unstake(k, m, v, amount, h)
    OBVIOUS
  <1>5. /\ k.masters[v] = {m} /\ o \in Allocations /\ k.sub[v] = Total(o)
        /\ k.sub[v] > 0 /\ k.sub[v] \in Nat
    BY <1>1, OneMaster DEF UnstakeOk
  <1>6. a \in Allocations /\ a # None /\ Total(a) = Total(o)
    <2>1. o.unbonding = None /\ amount > 0 /\ amount <= o.active /\ o.active \in Nat
      BY <1>1, <1>5 DEF UnstakeOk, Allocations
    <2>2. h + Params.unbonding_blocks \in Nat
      BY StakingAssumption, ParamsAssumption
    <2>3. [amount |-> amount, unlock |-> h + Params.unbonding_blocks]
              \in [amount : Nat \ {0}, unlock : Nat]
      BY <2>1, <2>2
    <2>4. a \in Allocations /\ a.unbonding # None
      BY <1>2, <2>1, <2>3, StakingAssumption DEF Allocations
    <2>5. Total(a) = o.active
      BY <1>2, <2>1, <2>4 DEF Total, Unbonding
    <2>6. Total(o) = o.active
      BY <2>1 DEF Total, Unbonding
    <2> QED  BY <2>4, <2>5, <2>6, StakingAssumption
  <1>7. /\ Ledger(j) /\ SameSet(k, j) /\ j.pool = k.pool /\ j.treasury = k.treasury
        /\ j.bal = k.bal /\ j.sub = k.sub /\ j.alloc = alloc /\ j.masters = k.masters /\ j.due = k.due
    <2>1. StakeTypes(k.bal, k.sub, k.pool, k.treasury, alloc, k.masters, k.due)
      <3>1. alloc \in [Pairs -> {None} \cup Allocations]
        BY <1>3, <1>6, Zenon DEF Sound, Ledger
      <3> QED  BY <3>1 DEF Sound, Ledger, StakeTypes
    <2>2. j = With(k, k.bal, k.sub, k.pool, k.treasury, alloc, k.masters, k.due)
      BY <1>1, <1>2, <1>3, <1>4, Zenon DEF Sound, Ledger, apply_unstake, With
    <2> QED  BY <2>1, <2>2, StakeRows DEF Sound
  <1>8. Backed(j)
    <2>1. /\ k.masters = [k.masters EXCEPT ![v] = IF a = None THEN {} ELSE {m}]
          /\ k.sub = [k.sub EXCEPT ![v] = IF a = None THEN 0 ELSE Total(a)]
      BY <1>5, <1>6 DEF Sound, Ledger
    <2>2. StakeWritten(k, j, m, v, a)
      BY <1>3, <1>5, <1>6, <1>7, <2>1 DEF StakeWritten
    <2> QED  BY <1>5, <2>2, OneStake
  <1>9. Money(j) = Money(k)
    BY <1>7 DEF Money
  <1> QED  BY <1>4, <1>7, <1>8, <1>9 DEF Sound

\* Operations that leave coins and stakes alone keep what is said of them.
LEMMA SameStakesSound ==
    ASSUME NEW k, Backed(k), NEW j, SameStakes(k, j)
    PROVE  Backed(j) /\ Money(j) = Money(k) /\ \A v \in Validators : total_stake(j, v) = total_stake(k, v)
  BY DEF SameStakes, Backed, Allocated, Held, Master, Money, total_stake, ActiveStake

LEMMA IndexIsSound ==
    ASSUME NEW k, Sound(k), NEW m \in Users, NEW v \in Validators, NEW h \in UnlockHeights
    PROVE  LET j == index_unbonding(k, m, v, h)
           IN  Sound(j) /\ SameSet(k, j) /\ SameStakes(k, j)
  <1>1. PICK due : due = [k.due EXCEPT ![h] = @ \cup {<<m, v>>}]
    BY Zenon
  <1>2. PICK j : j = index_unbonding(k, m, v, h)
    OBVIOUS
  <1>3. due \in [UnlockHeights -> SUBSET Pairs]
    BY <1>1 DEF Sound, Ledger, Pairs
  <1>4. StakeTypes(k.bal, k.sub, k.pool, k.treasury, k.alloc, k.masters, due)
    BY <1>3 DEF Sound, Ledger, StakeTypes
  <1>5. j = With(k, k.bal, k.sub, k.pool, k.treasury, k.alloc, k.masters, due)
    BY <1>1, <1>2, Zenon DEF Sound, Ledger, index_unbonding, With
  <1>6. Ledger(j) /\ SameSet(k, j) /\ SameStakes(k, j)
    BY <1>4, <1>5, StakeRows DEF Sound, SameStakes
  <1> QED  BY <1>2, <1>6, SameStakesSound DEF Sound

\* The allocation a slash leaves: what it takes comes out of the active part and
\* then out of the batch.
LEMMA SlashedAllocation ==
    ASSUME NEW a, a \in Allocations, NEW slash \in Nat, slash <= Total(a),
           NEW taken, taken = Smaller(slash, a.active),
           NEW rest, rest = Unbonding(a) - (slash - taken),
           NEW b, b = [active |-> a.active - taken,
                       unbonding |-> IF a.unbonding = None \/ rest = 0 THEN None
                                     ELSE [a.unbonding EXCEPT !.amount = rest]]
    PROVE  b \in Allocations /\ Total(b) = Total(a) - slash
  <1>1. a.active \in Nat /\ Unbonding(a) \in Nat /\ Total(a) = a.active + Unbonding(a)
    BY DEF Allocations, Unbonding, Total
  <1>2. taken \in Nat /\ rest \in Nat /\ a.active - taken \in Nat
    BY <1>1 DEF Smaller
  <1>3. CASE a.unbonding = None \/ rest = 0
    <2>1. b = [active |-> a.active - taken, unbonding |-> None]
      BY <1>3
    <2>2. rest = 0
      BY <1>1, <1>2, <1>3 DEF Unbonding, Smaller
    <2> QED  BY <1>1, <1>2, <2>1, <2>2 DEF Allocations, Total, Unbonding, Smaller
  <1>4. CASE ~(a.unbonding = None \/ rest = 0)
    <2>1. a.unbonding \in [amount : Nat \ {0}, unlock : Nat]
      BY <1>4 DEF Allocations
    <2>2. [a.unbonding EXCEPT !.amount = rest] = [amount |-> rest, unlock |-> a.unbonding.unlock]
      BY <2>1
    <2>3. b = [active |-> a.active - taken,
               unbonding |-> [amount |-> rest, unlock |-> a.unbonding.unlock]]
      BY <1>4, <2>2
    <2>4. [amount |-> rest, unlock |-> a.unbonding.unlock] \in [amount : Nat \ {0}, unlock : Nat]
      BY <1>2, <1>4, <2>1
    <2>5. b \in Allocations
      BY <1>2, <2>3, <2>4 DEF Allocations
    <2>6. b.unbonding # None
      BY <2>3, <2>4, StakingAssumption
    <2>7. Total(b) = a.active - taken + rest
      BY <2>3, <2>6 DEF Total, Unbonding
    <2> QED  BY <1>1, <1>2, <2>5, <2>7
  <1> QED  BY <1>3, <1>4

LEMMA SlashIsSound ==
    ASSUME NEW k, Sound(k), NEW v \in Validators, k.masters[v] # {}, NEW amount \in Nat
    PROVE  LET j == apply_slash(k, v, amount)
           IN  /\ Sound(j) /\ SameSet(k, j) /\ Money(j) = Money(k)
               /\ j.bal = k.bal /\ j.treasury = k.treasury
               /\ j.pool >= k.pool
               /\ \A u \in Validators \ {v} : total_stake(j, u) = total_stake(k, u)
  <1> DEFINE m == Master(k, v)
             a == k.alloc[<<m, v>>]
             slash == Smaller(amount, Total(a))
             taken == Smaller(slash, a.active)
             rest == Unbonding(a) - (slash - taken)
             b == [active |-> a.active - taken,
                   unbonding |-> IF a.unbonding = None \/ rest = 0 THEN None
                                 ELSE [a.unbonding EXCEPT !.amount = rest]]
             left == IF Total(b) = 0 THEN None ELSE b
             debited == Smaller(k.sub[v], slash)
  <1>1. m \in Users /\ Allocated(k, m, v)
    <2>1. k.masters[v] = {n \in Users : Allocated(k, n, v)}
      BY DEF Sound, Backed
    <2>2. m \in k.masters[v]
      BY DEF Master
    <2> QED  BY <2>1, <2>2
  <1> HIDE DEF m
  <1>2. /\ k.masters[v] = {m} /\ a \in Allocations /\ k.sub[v] = Total(a)
        /\ k.sub[v] > 0 /\ k.sub[v] \in Nat
    BY <1>1, OneMaster
  <1>3. slash \in Nat /\ slash <= Total(a) /\ debited = slash
    BY <1>2 DEF Smaller
  <1>4. b \in Allocations /\ Total(b) = Total(a) - slash
    <2> HIDE DEF a, slash, taken, rest, b
    <2> QED  BY <1>2, <1>3, SlashedAllocation DEF taken, rest, b
  <1>5. PICK n : n = k.sub[v] - debited
    OBVIOUS
  <1>6. n \in Nat /\ n = Total(b) /\ k.sub[v] = n + debited /\ debited \in Nat
    <2> HIDE DEF a, slash, b, debited
    <2> QED  BY <1>2, <1>3, <1>4, <1>5
  <1>7. PICK sub, alloc, masters, pool :
           /\ sub = [k.sub EXCEPT ![v] = n] /\ pool = k.pool + debited
           /\ alloc = [k.alloc EXCEPT ![<<m, v>>] = left]
           /\ masters = [k.masters EXCEPT ![v] = IF left = None THEN {} ELSE {m}]
    BY Zenon
  <1>8. PICK j : j = apply_slash(k, v, amount)
    OBVIOUS
  <1>9. left \in {None} \cup Allocations /\ n = (IF left = None THEN 0 ELSE Total(left))
        /\ (left # None => Total(left) > 0)
    <2> HIDE DEF b
    <2>1. b # None
      BY <1>4, StakingAssumption
    <2> QED  BY <1>4, <1>6, <2>1
  <1>10. j = With(k, k.bal, sub, pool, k.treasury, alloc, masters, k.due)
    <2>1. PICK moved : moved = [k EXCEPT !.sub[v] = @ - debited, !.pool = @ + debited,
                                         !.alloc[<<m, v>>] = b]
      OBVIOUS
    <2>2. moved = With(k, k.bal, sub, pool, k.treasury, [k.alloc EXCEPT ![<<m, v>>] = b],
                       k.masters, k.due)
      <3> HIDE DEF b, debited, left
      <3> QED  BY <1>5, <1>7, <2>1, Zenon DEF Sound, Ledger, With
    <2>3. j = IF Total(b) = 0 THEN DropAllocation(moved, m, v) ELSE moved
      BY <1>8, <2>1 DEF apply_slash, m
    <2>4. b # None
      BY <1>4, StakingAssumption
    <2> HIDE DEF b, debited
    <2>5. CASE Total(b) = 0
      <3>1. j = [moved EXCEPT !.alloc[<<m, v>>] = None, !.masters[v] = {}]
        BY <2>3, <2>5 DEF DropAllocation
      <3>2. alloc = [k.alloc EXCEPT ![<<m, v>>] = None] /\ masters = [k.masters EXCEPT ![v] = {}]
        BY <1>7, <2>5
      <3>3. [[k.alloc EXCEPT ![<<m, v>>] = b] EXCEPT ![<<m, v>>] = None]
              = [k.alloc EXCEPT ![<<m, v>>] = None]
        BY Zenon DEF Sound, Ledger
      <3> QED  BY <2>2, <3>1, <3>2, <3>3, ZenonT(60) DEF Sound, Ledger, With
    <2>6. CASE Total(b) # 0
      <3>1. alloc = [k.alloc EXCEPT ![<<m, v>>] = b]
        BY <1>7, <2>6
      <3>2. masters = k.masters
        BY <1>2, <1>7, <2>4, <2>6, SMTT(30) DEF Sound, Ledger
      <3> QED  BY <2>2, <2>3, <2>6, <3>1, <3>2
    <2> QED  BY <2>5, <2>6
  <1> HIDE DEF left, debited, a, b, slash
  <1>11. /\ Ledger(j) /\ SameSet(k, j) /\ j.pool = pool /\ j.treasury = k.treasury
         /\ j.bal = k.bal /\ j.sub = sub /\ j.alloc = alloc /\ j.masters = masters
    <2>1. StakeTypes(k.bal, sub, pool, k.treasury, alloc, masters, k.due)
      <3>1. sub \in [Validators -> Nat]
        BY <1>6, <1>7 DEF Sound, Ledger
      <3>2. k.pool \in Nat
        BY DEF Sound, Ledger
      <3>3. pool \in Nat
        BY <1>6, <1>7, <3>2
      <3>4. alloc \in [Pairs -> {None} \cup Allocations]
        BY <1>7, <1>9, ZenonT(60) DEF Sound, Ledger
      <3>5. masters \in [Validators -> SUBSET Users]
        BY <1>1, <1>7 DEF Sound, Ledger
      <3> QED  BY <3>1, <3>3, <3>4, <3>5 DEF Sound, Ledger, StakeTypes
    <2> QED  BY <1>10, <2>1, StakeRows DEF Sound
  <1>12. Backed(j)
    <2>1. StakeWritten(k, j, m, v, left)
      BY <1>7, <1>9, <1>11 DEF StakeWritten
    <2> QED  BY <1>1, <1>2, <2>1, OneStake
  <1>13. Money(j) = Money(k)
    <2>1. SumOf(sub, Validators) + k.sub[v] = SumOf(k.sub, Validators) + n
      BY <1>6, <1>7, StakeChange DEF Sound
    <2>2. /\ SumOf(sub, Validators) \in Nat /\ SumOf(k.sub, Validators) \in Nat
          /\ SumOf(k.bal, Users) \in Nat
      BY <1>11, SumsAreNat DEF Sound
    <2>3. k.pool \in Nat /\ k.treasury \in Nat
      BY DEF Sound, Ledger
    <2> QED  BY <1>6, <1>7, <1>11, <2>1, <2>2, <2>3, SMTT(30) DEF Money
  <1>14. \A u \in Validators \ {v} : total_stake(j, u) = total_stake(k, u)
    <2> SUFFICES ASSUME NEW u \in Validators \ {v} PROVE total_stake(j, u) = total_stake(k, u)
      OBVIOUS
    <2>1. j.masters[u] = k.masters[u]
      BY <1>7, <1>11 DEF Sound, Ledger
    <2>2. ASSUME NEW n2 \in Users PROVE ActiveStake(j, n2, u) = ActiveStake(k, n2, u)
      <3>1. j.alloc[<<n2, u>>] = k.alloc[<<n2, u>>]
        BY <1>1, <1>7, <1>11 DEF Sound, Ledger, Pairs
      <3> QED  BY <3>1 DEF ActiveStake, Allocated
    <2>3. [n2 \in Users |-> ActiveStake(j, n2, u)] = [n2 \in Users |-> ActiveStake(k, n2, u)]
      BY <2>2
    <2> QED  BY <2>1, <2>3 DEF total_stake
  <1>15. j.pool >= k.pool
    BY <1>6, <1>7, <1>11, SMTT(30) DEF Sound, Ledger
  <1> QED  BY <1>8, <1>11, <1>12, <1>13, <1>14, <1>15 DEF Sound

\* The release of the batches that are due: every master gets its own, and every
\* sub-account, which has one master, gives one batch at most.
LEMMA ReleaseIsSound ==
    ASSUME NEW k, Sound(k), NEW h \in UnlockHeights
    PROVE  LET j == resolve_due_unbonding(k, h)
           IN  /\ Sound(j) /\ SameSet(k, j) /\ Money(j) = Money(k)
               /\ \A p \in Pairs : k.alloc[p] # None /\ k.alloc[p].unbonding # None =>
                      j.alloc[p] = k.alloc[p] \/ k.alloc[p].unbonding.unlock = h
  <1>1. PICK due, j : due = DueUnbonding(k, h) /\ j = resolve_due_unbonding(k, h)
    OBVIOUS
  <1> DEFINE batch == [p \in due |-> k.alloc[p].unbonding.amount]
             emptied == {p \in due : k.alloc[p].active = 0}
             bal == [m \in Users |-> k.bal[m] + SumOf(batch, {p \in due : p[1] = m})]
             sub == [v \in Validators |-> k.sub[v] - SumOf(batch, {p \in due : p[2] = v})]
             alloc == [p \in Pairs |->
                          IF p \in emptied THEN None
                          ELSE IF p \in due
                          THEN [active |-> k.alloc[p].active, unbonding |-> None]
                          ELSE k.alloc[p]]
             masters == [v \in Validators |->
                            IF \E p \in emptied : p[2] = v THEN {} ELSE k.masters[v]]
             index == [k.due EXCEPT ![h] = {}]
  <1>4. j = With(k, bal, sub, k.pool, k.treasury, alloc, masters, index)
    BY <1>1, ZenonT(60) DEF Sound, Ledger, With, resolve_due_unbonding, Release
  <1>5. /\ due \subseteq Pairs
        /\ \A p \in due : /\ k.alloc[p] \in Allocations /\ k.alloc[p] # None
                           /\ batch[p] = Unbonding(k.alloc[p]) /\ batch[p] \in Nat
                           /\ k.alloc[p].active \in Nat
                           /\ Total(k.alloc[p]) = k.alloc[p].active + batch[p]
    <2>1. due \subseteq Pairs
      BY <1>1 DEF Sound, Ledger, DueUnbonding
    <2>2. ASSUME NEW p \in due
          PROVE  k.alloc[p] \in Allocations /\ k.alloc[p] # None /\ k.alloc[p].unbonding # None
      BY <1>1, <2>1, <2>2 DEF Sound, Ledger, DueUnbonding
    <2>3. ASSUME NEW p \in due
          PROVE  /\ batch[p] = Unbonding(k.alloc[p]) /\ batch[p] \in Nat
                 /\ k.alloc[p].active \in Nat
                 /\ Total(k.alloc[p]) = k.alloc[p].active + batch[p]
      BY <2>2 DEF Allocations, Unbonding, Total
    <2> QED  BY <2>1, <2>2, <2>3
  <1> HIDE DEF batch
  <1>6. IsFiniteSet(due) /\ \A p \in due : p[1] \in Users /\ p[2] \in Validators /\ p = <<p[1], p[2]>>
    <2>1. IsFiniteSet(Users \X Validators)
      BY UsersAreFinite, FS_Product
    <2> QED  BY <1>5, <2>1, FS_Subset DEF Pairs
  <1>7. ASSUME NEW p \in due
        PROVE  /\ k.masters[p[2]] = {p[1]} /\ k.sub[p[2]] = Total(k.alloc[p])
               /\ k.sub[p[2]] \in Nat /\ k.sub[p[2]] > 0
               /\ {q \in due : q[2] = p[2]} = {p}
    <2>1. ASSUME NEW q \in due PROVE Allocated(k, q[1], q[2])
      <3>1. <<q[1], q[2]>> = q
        BY <1>6, <2>1
      <3> QED  BY <1>5, <3>1 DEF Allocated
    <2>2. PICK m, v : m = p[1] /\ v = p[2] /\ m \in Users /\ v \in Validators /\ p = <<m, v>>
      BY <1>6
    <2>3. k.masters[v] = {m} /\ k.sub[v] = Total(k.alloc[<<m, v>>]) /\ k.sub[v] > 0 /\ k.sub[v] \in Nat
      BY <2>1, <2>2, OneMaster
    <2>4. ASSUME NEW q \in due, q[2] = v PROVE q = p
      <3>1. PICK n : n = q[1] /\ n \in Users /\ q = <<n, v>>
        BY <1>6, <2>4
      <3>2. Allocated(k, n, v)
        BY <2>1, <2>4, <3>1
      <3>3. k.masters[v] = {n}
        BY <2>2, <3>1, <3>2, OneMaster, SMTT(30)
      <3> QED  BY <2>2, <2>3, <3>1, <3>3
    <2> QED  BY <2>2, <2>3, <2>4
  <1>8. ASSUME NEW v \in Validators
        PROVE  /\ sub[v] \in Nat /\ SumOf(batch, {p \in due : p[2] = v}) \in Nat
               /\ k.sub[v] = sub[v] + SumOf(batch, {p \in due : p[2] = v})
               /\ \A p \in due : p[2] = v => sub[v] = k.alloc[p].active
               /\ (\A p \in due : p[2] # v) => sub[v] = k.sub[v]
    <2>1. sub[v] = k.sub[v] - SumOf(batch, {p \in due : p[2] = v}) /\ k.sub[v] \in Nat
      BY DEF Sound, Ledger
    <2>2. CASE \E p \in due : p[2] = v
      <3>1. PICK p \in due : p[2] = v
        BY <2>2
      <3>2. {q \in due : q[2] = v} = {p} /\ k.sub[v] = Total(k.alloc[p])
        BY <1>7, <3>1
      <3>3. SumOf(batch, {p}) = batch[p]
        BY <1>5, SumSingle, Zenon
      <3>4. sub[v] = k.alloc[p].active /\ k.alloc[p].active \in Nat /\ batch[p] \in Nat
            /\ k.sub[v] = sub[v] + batch[p]
        <4> HIDE DEF sub
        <4>1. sub[v] = k.sub[v] - batch[p]
          BY <2>1, <3>2, <3>3, Zenon
        <4>2. k.sub[v] = k.alloc[p].active + batch[p] /\ k.alloc[p].active \in Nat /\ batch[p] \in Nat
          BY <1>5, <3>2
        <4> QED  BY <4>1, <4>2
      <3>5. \A q \in due : q[2] = v => q = p
        BY <3>2
      <3> QED  BY <3>1, <3>2, <3>3, <3>4, <3>5, Zenon
    <2>3. CASE ~\E p \in due : p[2] = v
      <3>1. {p \in due : p[2] = v} = {}
        BY <2>3
      <3>2. SumOf(batch, {p \in due : p[2] = v}) = 0
        BY <3>1, SumEmpty
      <3> QED  BY <2>1, <2>3, <3>2
    <2> QED  BY <2>2, <2>3
  <1>9. ASSUME NEW m \in Users
        PROVE  /\ k.bal[m] \in Nat /\ SumOf(batch, {p \in due : p[1] = m}) \in Nat
               /\ bal[m] = k.bal[m] + SumOf(batch, {p \in due : p[1] = m})
    <2>1. PICK S : S = {p \in due : p[1] = m}
      BY ZenonT(60)
    <2>2. IsFiniteSet(S) /\ \A p \in S : batch[p] \in Nat
      BY <1>5, <1>6, <2>1, FS_Subset
    <2>3. SumOf(batch, S) \in Nat
      BY <2>2, SumType
    <2> QED  BY <2>1, <2>3 DEF Sound, Ledger
  <1> HIDE DEF bal, sub
  <1>10. ASSUME NEW p \in Pairs
         PROVE  /\ alloc[p] \in {None} \cup Allocations
                /\ p \notin due => alloc[p] = k.alloc[p]
                /\ p \in emptied => alloc[p] = None
                /\ p \in due \ emptied => /\ alloc[p] = [active |-> k.alloc[p].active, unbonding |-> None]
                                          /\ alloc[p] # None /\ Total(alloc[p]) = k.alloc[p].active
                                          /\ k.alloc[p].active > 0
    <2>1. CASE p \notin due
      BY <2>1, SMTT(30) DEF Sound, Ledger
    <2>2. CASE p \in emptied
      BY <2>2, SMTT(30)
    <2>3. CASE p \in due \ emptied
      <3>1. alloc[p] = [active |-> k.alloc[p].active, unbonding |-> None] /\ k.alloc[p].active \in Nat
            /\ k.alloc[p].active # 0
        BY <1>5, <2>3
      <3>2. alloc[p] \in Allocations
        BY <3>1 DEF Allocations
      <3>3. alloc[p] # None
        BY <3>2, StakingAssumption
      <3>4. Total(alloc[p]) = k.alloc[p].active
        BY <3>1 DEF Total, Unbonding
      <3> HIDE DEF alloc
      <3> QED  BY <2>3, <3>1, <3>2, <3>3, <3>4, SMTT(30)
    <2> QED  BY <2>1, <2>2, <2>3, Zenon
  <1>11. StakeTypes(bal, sub, k.pool, k.treasury, alloc, masters, index)
    <2>1. bal \in [Users -> Nat]
      BY <1>9 DEF bal
    <2>2. sub \in [Validators -> Nat]
      BY <1>8 DEF sub
    <2>3. alloc \in [Pairs -> {None} \cup Allocations]
      BY <1>10
    <2>4. masters \in [Validators -> SUBSET Users]
      BY DEF Sound, Ledger
    <2>5. index \in [UnlockHeights -> SUBSET Pairs]
      BY DEF Sound, Ledger
    <2> QED  BY <2>1, <2>2, <2>3, <2>4, <2>5 DEF Sound, Ledger, StakeTypes
  <1>12. /\ Ledger(j) /\ SameSet(k, j) /\ j.pool = k.pool /\ j.treasury = k.treasury
         /\ j.bal = bal /\ j.sub = sub /\ j.alloc = alloc /\ j.masters = masters
    <2> HIDE DEF alloc, masters, index
    <2> QED  BY <1>4, <1>11, StakeRows, SMTT(30) DEF Sound
  <1>13. Backed(j)
    <2> SUFFICES ASSUME NEW v \in Validators
                 PROVE  /\ j.masters[v] = {m \in Users : Allocated(j, m, v)}
                        /\ \A m, n \in j.masters[v] : m = n
                        /\ j.sub[v] = Held(j, v)
                        /\ j.masters[v] # {} => j.sub[v] > 0
      BY DEF Backed
    <2>0. /\ k.masters[v] = {m \in Users : Allocated(k, m, v)}
          /\ \A m, n \in k.masters[v] : m = n
          /\ k.sub[v] = Held(k, v)
          /\ k.masters[v] # {} => k.sub[v] > 0
      BY DEF Sound, Backed
    <2>1. CASE \A p \in due : p[2] # v
      <3>1. j.masters[v] = k.masters[v] /\ j.sub[v] = k.sub[v]
        <4>1. j.sub[v] = k.sub[v]
          <5> HIDE DEF alloc, masters
          <5> QED  BY <1>8, <1>12, <2>1, Zenon
        <4>2. ~\E p \in emptied : p[2] = v
          BY <2>1
        <4>3. masters[v] = k.masters[v]
          BY <4>2
        <4> HIDE DEF masters
        <4> QED  BY <1>12, <4>1, <4>3
      <3>2. \A m \in Users : j.alloc[<<m, v>>] = k.alloc[<<m, v>>]
        <4>1. \A m \in Users : <<m, v>> \in Pairs /\ <<m, v>> \notin due
          BY <2>1 DEF Pairs
        <4> QED  BY <1>10, <1>12, <4>1
      <3>3. {m \in Users : Allocated(j, m, v)} = {m \in Users : Allocated(k, m, v)}
        BY <3>2 DEF Allocated
      <3>4. Held(j, v) = Held(k, v)
        <4>1. k.masters[v] # {} => Master(k, v) \in Users
          BY <2>0 DEF Master
        <4>2. Master(j, v) = Master(k, v)
          BY <3>1 DEF Master
        <4> QED  BY <3>1, <3>2, <4>1, <4>2 DEF Held
      <3> QED  BY <2>0, <3>1, <3>3, <3>4
    <2>2. CASE \E p \in due : p[2] = v
      <3>1. PICK p \in due : p[2] = v
        BY <2>2
      <3>2. PICK m : m = p[1] /\ m \in Users /\ p = <<m, v>>
        BY <1>6, <3>1
      <3>3. k.masters[v] = {m} /\ (\A q \in due : q[2] = v => q = p)
        BY <1>7, <3>1, <3>2, SMTT(30)
      <3>4. p \in Pairs /\ j.sub[v] = k.alloc[p].active /\ k.alloc[p].active \in Nat
        BY <1>5, <1>8, <1>12, <3>1, ZenonT(60)
      <3>5. \A n \in Users : Allocated(j, n, v) <=> n = m /\ p \notin emptied
        <4>1. ASSUME NEW n \in Users, n # m PROVE ~Allocated(j, n, v)
          <5>1. <<n, v>> \in Pairs /\ <<n, v>> \notin due
            BY <3>2, <3>3, <4>1 DEF Pairs
          <5>2. k.alloc[<<n, v>>] = None
            BY <2>0, <3>3, <4>1, SMTT(30) DEF Allocated
          <5> QED  BY <1>10, <1>12, <5>1, <5>2 DEF Allocated
        <4>2. Allocated(j, m, v) <=> p \notin emptied
          BY <1>10, <1>12, <3>1, <3>2, <3>4, SMTT(30) DEF Allocated
        <4> QED  BY <4>1, <4>2
      <3>6. CASE p \in emptied
        <4>1. j.masters[v] = {}
          BY <1>12, <3>1, <3>6
        <4>2. k.alloc[p].active = 0
          BY <3>6, SMTT(30)
        <4> QED  BY <3>4, <3>5, <3>6, <4>1, <4>2, SMTT(30) DEF Held
      <3>7. CASE p \notin emptied
        <4>1. j.masters[v] = {m}
          <5>1. ~\E q \in emptied : q[2] = v
            BY <3>3, <3>7
          <5> QED  BY <1>12, <3>3, <5>1
        <4>2. Master(j, v) = m
          BY <4>1, SMTT(30) DEF Master
        <4>3. Total(j.alloc[<<m, v>>]) = k.alloc[p].active /\ k.alloc[p].active > 0
          BY <1>10, <1>12, <3>1, <3>2, <3>4, <3>7
        <4>4. j.sub[v] = Held(j, v)
          BY <3>4, <4>1, <4>2, <4>3 DEF Held
        <4>5. {n \in Users : Allocated(j, n, v)} = {m}
          BY <3>2, <3>5, <3>7
        <4> QED  BY <3>4, <4>1, <4>3, <4>4, <4>5, SMTT(30)
      <3> QED  BY <3>6, <3>7
    <2> QED  BY <2>1, <2>2, SMTT(30)
  <1>14. Money(j) = Money(k)
    <2>1. PICK in, out, pf, ps :
             /\ in = [m \in Users |-> SumOf(batch, {p \in due : p[1] = m})]
             /\ out = [v \in Validators |-> SumOf(batch, {p \in due : p[2] = v})]
             /\ pf = [p \in due |-> p[1]] /\ ps = [p \in due |-> p[2]]
      BY Zenon
    <2>2. SumOf(bal, Users) = SumOf(k.bal, Users) + SumOf(in, Users)
      <3>1. \A m \in Users : k.bal[m] \in Nat /\ in[m] \in Nat /\ bal[m] = k.bal[m] + in[m]
        BY <1>9, <2>1
      <3> QED  BY <3>1, UsersAreFinite, SumPlus
    <2>3. SumOf(k.sub, Validators) = SumOf(sub, Validators) + SumOf(out, Validators)
      <3>1. \A v \in Validators : sub[v] \in Nat /\ out[v] \in Nat /\ k.sub[v] = sub[v] + out[v]
        BY <1>8, <2>1
      <3> QED  BY <3>1, UsersAreFinite, SumPlus, SMTT(30)
    <2>4. SumOf(in, Users) = SumOf(batch, due)
      <3>1. \A p \in due : batch[p] \in Nat /\ pf[p] \in Users
        BY <1>5, <1>6, <2>1
      <3>2. SumOf([m \in Users |-> SumOf(batch, {p \in due : pf[p] = m})], Users) = SumOf(batch, due)
        BY <1>6, <3>1, UsersAreFinite, SumByGroup
      <3>3. \A m \in Users : {p \in due : pf[p] = m} = {p \in due : p[1] = m}
        BY <2>1
      <3>4. in = [m \in Users |-> SumOf(batch, {p \in due : pf[p] = m})]
        BY <2>1, <3>3, Zenon
      <3> QED  BY <3>2, <3>4, Zenon
    <2>5. SumOf(out, Validators) = SumOf(batch, due)
      <3>1. \A p \in due : batch[p] \in Nat /\ ps[p] \in Validators
        BY <1>5, <1>6, <2>1
      <3>2. SumOf([v \in Validators |-> SumOf(batch, {p \in due : ps[p] = v})], Validators) = SumOf(batch, due)
        BY <1>6, <3>1, UsersAreFinite, SumByGroup
      <3>3. \A v \in Validators : {p \in due : ps[p] = v} = {p \in due : p[2] = v}
        BY <2>1
      <3>4. out = [v \in Validators |-> SumOf(batch, {p \in due : ps[p] = v})]
        BY <2>1, <3>3, ZenonT(60)
      <3> QED  BY <3>2, <3>4, Zenon
    <2>6. SumOf(batch, due) \in Nat
      BY <1>5, <1>6, SumType
    <2>7. /\ SumOf(k.bal, Users) \in Nat /\ SumOf(k.sub, Validators) \in Nat
          /\ SumOf(bal, Users) \in Nat /\ SumOf(sub, Validators) \in Nat
      BY <1>12, SumsAreNat DEF Sound
    <2>8. SumOf(bal, Users) + SumOf(sub, Validators) = SumOf(k.bal, Users) + SumOf(k.sub, Validators)
      BY <2>2, <2>3, <2>4, <2>5, <2>6, <2>7, SMTT(30)
    <2> QED  BY <1>12, <2>8 DEF Money
  <1>15. \A p \in Pairs : k.alloc[p] # None /\ k.alloc[p].unbonding # None =>
             j.alloc[p] = k.alloc[p] \/ k.alloc[p].unbonding.unlock = h
    <2>1. \A p \in due : k.alloc[p].unbonding.unlock = h
      BY <1>1 DEF DueUnbonding
    <2> QED  BY <1>10, <1>12, <2>1
  <1> QED  BY <1>1, <1>12, <1>13, <1>14, <1>15 DEF Sound

LEMMA BpsType ==
    ASSUME NEW n \in Nat, NEW bps \in Nat
    PROVE  Bps(n, bps) \in Nat /\ (bps <= 10000 => Bps(n, bps) <= n)
  <1>1. PICK x : x = n * bps
    OBVIOUS
  <1>2. x \in Nat
    BY <1>1
  <1>3. x \div 10000 \in Nat /\ 10000 * (x \div 10000) <= x
    BY <1>2
  <1>4. bps <= 10000 => x <= n * 10000
    <2> SUFFICES ASSUME bps <= 10000 PROVE n * bps <= n * 10000
      BY <1>1
    <2>1. PICK d \in Nat : 10000 = bps + d
      <3>1. 10000 - bps \in Nat /\ 10000 = bps + (10000 - bps)
        OBVIOUS
      <3> QED  BY <3>1
    <2>2. n * 10000 = n * bps + n * d
      BY <2>1
    <2>3. n * d \in Nat /\ n * bps \in Nat
      OBVIOUS
    <2> QED  BY <2>2, <2>3
  <1> QED  BY <1>1, <1>2, <1>3, <1>4 DEF Bps

LEMMA MoneyType ==
    ASSUME NEW k, Ledger(k)
    PROVE  Money(k) \in Nat
  <1>1. k.pool \in Nat /\ k.treasury \in Nat
    BY DEF Ledger
  <1> QED  BY <1>1, SumsAreNat DEF Money

WithSet(k, status, candidates, set, operator, evidence, markers) ==
    [k EXCEPT !.status = status, !.candidates = candidates, !.set = set,
              !.operator = operator, !.evidence = evidence, !.markers = markers]

SetTypes(status, candidates, set, operator, evidence, markers) ==
    /\ status \in [Validators -> Statuses] /\ candidates \in SUBSET Validators
    /\ DOMAIN set \in (SUBSET Validators) \ {{}}
    /\ operator \in [Validators -> Users \cup {None}]
    /\ evidence \in SUBSET (EvidenceHeights \X Validators)
    /\ markers \in SUBSET (EvidenceHeights \X Validators)

\* An operation on the validators' rows keeps the types and leaves the coins.
LEMMA SetRows ==
    ASSUME NEW k, Sound(k), NEW status, NEW candidates, NEW set, NEW operator, NEW evidence,
           NEW markers, SetTypes(status, candidates, set, operator, evidence, markers),
           NEW j, j = WithSet(k, status, candidates, set, operator, evidence, markers)
    PROVE  /\ Sound(j) /\ SameStakes(k, j) /\ Money(j) = Money(k)
           /\ j.due = k.due /\ j.status = status /\ j.candidates = candidates /\ j.set = set
           /\ j.operator = operator /\ j.evidence = evidence /\ j.markers = markers
           /\ \A v \in Validators : total_stake(j, v) = total_stake(k, v)
  <1>1. /\ SameStakes(k, j)
        /\ j.due = k.due /\ j.status = status /\ j.candidates = candidates /\ j.set = set
        /\ j.operator = operator /\ j.evidence = evidence /\ j.markers = markers
    BY DEF Sound, Ledger, SameStakes, WithSet
  <1>2. j = [bal |-> k.bal, sub |-> k.sub, pool |-> k.pool, treasury |-> k.treasury,
             alloc |-> k.alloc, masters |-> k.masters, due |-> k.due,
             status |-> status, candidates |-> candidates, set |-> set,
             operator |-> operator, evidence |-> evidence, markers |-> markers]
    BY ZenonT(60) DEF Sound, Ledger, WithSet
  <1>3. Ledger(j)
    BY <1>1, <1>2 DEF Sound, Ledger, SetTypes
  <1> QED  BY <1>1, <1>3, SameStakesSound DEF Sound

Paid(k, m, n, pool, treasury) ==
    [k EXCEPT !.pool = pool, !.bal[m] = n, !.treasury = treasury]

CoinTypes(n, pool, treasury) == n \in Nat /\ pool \in Nat /\ treasury \in Nat

CoinsMoved(k, j, m, n, pool, treasury) ==
    /\ j.bal = [k.bal EXCEPT ![m] = n] /\ j.pool = pool /\ j.treasury = treasury
    /\ Money(j) + k.bal[m] + k.pool + k.treasury = Money(k) + n + pool + treasury
    /\ j.due = k.due /\ j.alloc = k.alloc /\ j.masters = k.masters
    /\ \A v \in Validators : total_stake(j, v) = total_stake(k, v)

\* Coins that move between the pool, the treasury and one balance.
LEMMA CoinRows ==
    ASSUME NEW k, Sound(k), NEW m \in Users, NEW n, NEW pool, NEW treasury,
           CoinTypes(n, pool, treasury), NEW j, j = Paid(k, m, n, pool, treasury)
    PROVE  Sound(j) /\ SameSet(k, j) /\ CoinsMoved(k, j, m, n, pool, treasury)
  <1> USE DEF CoinTypes
  <1>1. PICK bal, p, t, i : bal = [k.bal EXCEPT ![m] = n] /\ p = pool /\ t = treasury /\ i = j
    BY Zenon
  <1>2. i = With(k, bal, k.sub, p, t, k.alloc, k.masters, k.due)
    BY <1>1, ZenonT(60) DEF Sound, Ledger, With, Paid
  <1>3. StakeTypes(bal, k.sub, p, t, k.alloc, k.masters, k.due)
    BY <1>1 DEF Sound, Ledger, StakeTypes
  <1>4. /\ Ledger(j) /\ SameSet(k, j) /\ j.due = k.due /\ j.bal = bal /\ j.sub = k.sub
        /\ j.pool = pool /\ j.treasury = treasury /\ j.alloc = k.alloc /\ j.masters = k.masters
    <2>1. /\ Ledger(i) /\ SameSet(k, i) /\ i.due = k.due /\ i.bal = bal /\ i.sub = k.sub
          /\ i.pool = p /\ i.treasury = t /\ i.alloc = k.alloc /\ i.masters = k.masters
      BY <1>2, <1>3, StakeRows, SMTT(30) DEF Sound
    <2> QED  BY <1>1, <2>1, SMTT(30)
  <1>5. Backed(j)
    BY <1>4 DEF Sound, Backed, Allocated, Held, Master
  <1>6. SumOf(bal, Users) + k.bal[m] = SumOf(k.bal, Users) + n
    BY <1>1, BalanceChange, SMTT(30) DEF Sound
  <1>7. /\ SumOf(bal, Users) \in Nat /\ SumOf(k.bal, Users) \in Nat
        /\ SumOf(k.sub, Validators) \in Nat
    BY <1>4, SumsAreNat DEF Sound
  <1>8. k.pool \in Nat /\ k.treasury \in Nat /\ k.bal[m] \in Nat
    BY DEF Sound, Ledger
  <1>9. Money(j) + k.bal[m] + k.pool + k.treasury = Money(k) + n + pool + treasury
    <2>1. PICK a, b, c, d, e, x : /\ a = SumOf(bal, Users) /\ b = SumOf(k.bal, Users)
                                  /\ c = SumOf(k.sub, Validators) /\ d = k.pool
                                  /\ e = k.treasury /\ x = k.bal[m]
      BY SMTT(30)
    <2>2. Money(j) = a + c + pool + treasury /\ Money(k) = b + c + d + e
      BY <1>4, <2>1, SMTT(30) DEF Money
    <2>3. a \in Nat /\ b \in Nat /\ c \in Nat /\ d \in Nat /\ e \in Nat /\ x \in Nat /\ a + x = b + n
      BY <1>6, <1>7, <1>8, <2>1
    <2>4. a + c + pool + treasury + x + d + e = b + c + d + e + n + pool + treasury
      BY <2>3, SMTT(30)
    <2> QED  BY <2>1, <2>2, <2>4
  <1>10. \A v \in Validators : total_stake(j, v) = total_stake(k, v)
    BY <1>4, SMTT(30) DEF total_stake, ActiveStake, Allocated
  <1> QED  BY <1>1, <1>4, <1>5, <1>9, <1>10 DEF Sound, CoinsMoved

\* One status row is written, and nothing else of the validators.
StatusWritten(k, j, v) ==
    /\ j.candidates = k.candidates /\ j.set = k.set
    /\ \A u \in Validators \ {v} : j.status[u] = k.status[u]

WithStatus(k, v, st) == [k EXCEPT !.status[v] = st]

LEMMA StatusRow ==
    ASSUME NEW k, Sound(k), NEW v \in Validators, NEW st, st \in Statuses,
           NEW j, j = WithStatus(k, v, st)
    PROVE  /\ Sound(j) /\ SameStakes(k, j) /\ Money(j) = Money(k)
           /\ StatusWritten(k, j, v) /\ j.status[v] = st
           /\ \A u \in Validators : total_stake(j, u) = total_stake(k, u)
  <1>1. PICK status, i : status = [k.status EXCEPT ![v] = st] /\ i = j
    BY Zenon
  <1>2. i = WithSet(k, status, k.candidates, k.set, k.operator, k.evidence, k.markers)
    BY <1>1, Zenon DEF Sound, Ledger, WithSet, WithStatus
  <1>3. SetTypes(status, k.candidates, k.set, k.operator, k.evidence, k.markers)
    BY <1>1, SMTT(30) DEF Sound, Ledger, SetTypes
  <1>4. /\ Sound(i) /\ SameStakes(k, i) /\ Money(i) = Money(k) /\ i.due = k.due
        /\ i.status = status /\ i.candidates = k.candidates /\ i.set = k.set
        /\ \A u \in Validators : total_stake(i, u) = total_stake(k, u)
    BY <1>2, <1>3, SetRows, SMTT(30)
  <1>5. StatusWritten(k, j, v) /\ j.status[v] = st
    BY <1>1, <1>4 DEF StatusWritten, Sound, Ledger
  <1> QED  BY <1>1, <1>4, <1>5

LEMMA FaultSlashIsSound ==
    ASSUME NEW k, Sound(k), NEW v \in Validators, k.masters[v] # {}, NEW c \in Users
    PROVE  LET j == fault_slash(k, v, c)
           IN  Sound(j) /\ Money(j) = Money(k) /\ StatusWritten(k, j, v)
  <1>1. PICK amount, x : /\ amount = Bps(Total(k.alloc[<<Master(k, v), v>>]), Params.equivocation_slash_bps)
                         /\ x = apply_slash(k, v, amount)
    OBVIOUS
  <1>2. amount \in Nat
    <2>1. Master(k, v) \in Users /\ Allocated(k, Master(k, v), v)
      <3>1. k.masters[v] = {n \in Users : Allocated(k, n, v)}
        BY DEF Sound, Backed
      <3>2. Master(k, v) \in k.masters[v]
        BY SMTT(30) DEF Master
      <3> QED  BY <3>1, <3>2, SMTT(30)
    <2>2. k.sub[v] = Total(k.alloc[<<Master(k, v), v>>]) /\ k.sub[v] \in Nat
      BY <2>1, OneMaster, SMTT(30)
    <2> QED  BY <1>1, <2>2, BpsType, ParamsAssumption, SMTT(30)
  <1>3. Sound(x) /\ SameSet(k, x) /\ Money(x) = Money(k) /\ x.pool >= k.pool
    BY <1>1, <1>2, SlashIsSound, SMTT(30)
  <1>4. x.pool \in Nat /\ k.pool \in Nat /\ x.treasury \in Nat /\ x.bal[c] \in Nat
    BY <1>3, SMTT(30) DEF Sound, Ledger
  <1>5. PICK r : r = Bps(x.pool - k.pool, Params.challenger_reward_bps)
    OBVIOUS
  <1>6. r \in Nat /\ r <= x.pool - k.pool
    <2>1. x.pool - k.pool \in Nat
      BY <1>3, <1>4
    <2> QED  BY <1>5, <2>1, BpsType, ParamsAssumption
  <1>7. PICK p, b : p = x.pool - r /\ b = x.bal[c] + r
    OBVIOUS
  <1>8. p \in Nat /\ b \in Nat
    BY <1>3, <1>4, <1>6, <1>7
  <1>9. PICK y : y = Paid(x, c, b, p, x.treasury)
    OBVIOUS
  <1>10. /\ Sound(y) /\ SameSet(x, y)
         /\ Money(y) + x.bal[c] + x.pool + x.treasury = Money(x) + b + p + x.treasury
    <2>1. CoinTypes(b, p, x.treasury)
      BY <1>4, <1>8, SMTT(30) DEF CoinTypes
    <2>2. Sound(y) /\ SameSet(x, y) /\ CoinsMoved(x, y, c, b, p, x.treasury)
      BY <1>3, <1>9, <2>1, CoinRows
    <2> QED  BY <2>2 DEF CoinsMoved
  <1>11. Money(y) = Money(k)
    <2>1. Money(x) \in Nat /\ Money(y) \in Nat
      BY <1>3, <1>10, MoneyType DEF Sound
    <2> QED  BY <1>3, <1>4, <1>6, <1>7, <1>10, <2>1
  <1>12. PICK j : j = fault_slash(k, v, c)
    OBVIOUS
  <1>13. j = WithStatus(y, v, Tombstoned)
    <2>1. j = [x EXCEPT !.pool = @ - r, !.bal[c] = @ + r, !.status[v] = Tombstoned]
      BY <1>1, <1>5, <1>12 DEF fault_slash
    <2> QED  BY <1>3, <1>7, <1>9, <2>1, Zenon DEF Sound, Ledger, Paid, WithStatus
  <1>14. Sound(j) /\ Money(j) = Money(y) /\ StatusWritten(y, j, v)
    <2>1. PICK st : st = Tombstoned
      OBVIOUS
    <2>2. st \in Statuses /\ j = WithStatus(y, v, st)
      BY <1>13, <2>1 DEF Statuses
    <2> QED  BY <1>10, <2>2, StatusRow
  <1>15. StatusWritten(k, j, v)
    BY <1>3, <1>10, <1>14, SMTT(30) DEF StatusWritten, SameSet
  <1> QED  BY <1>11, <1>12, <1>14, <1>15

LEMMA RewardIsSound ==
    ASSUME NEW k, Sound(k), NEW p \in Users, NEW collected \in Nat
    PROVE  LET j == apply_block_reward(k, p, collected)
           IN  /\ Sound(j) /\ SameSet(k, j)
               /\ Money(j) = Money(k) + Bps(collected, Params.fee_proposer_bps)
                                     + Bps(collected, Params.fee_treasury_bps)
               /\ \A v \in Validators : total_stake(j, v) = total_stake(k, v)
  <1>1. PICK r, f, g : /\ r = Smaller(Params.reward_per_block, k.pool)
                       /\ f = Bps(collected, Params.fee_proposer_bps)
                       /\ g = Bps(collected, Params.fee_treasury_bps)
    OBVIOUS
  <1>2. k.pool \in Nat /\ k.treasury \in Nat /\ k.bal[p] \in Nat
    BY DEF Sound, Ledger
  <1>3. r \in Nat /\ r <= k.pool
    BY <1>1, <1>2, ParamsAssumption DEF Smaller
  <1>4. f \in Nat /\ g \in Nat
    BY <1>1, BpsType, ParamsAssumption
  <1>5. PICK pool, b, t : pool = k.pool - r /\ b = k.bal[p] + r + f /\ t = k.treasury + g
    OBVIOUS
  <1>6. pool \in Nat /\ b \in Nat /\ t \in Nat
    BY <1>2, <1>3, <1>4, <1>5
  <1>7. PICK j : j = apply_block_reward(k, p, collected)
    OBVIOUS
  <1>8. j = Paid(k, p, b, pool, t)
    BY <1>1, <1>5, <1>7 DEF apply_block_reward, Sound, Ledger, Paid
  <1>9. /\ Sound(j) /\ SameSet(k, j)
        /\ Money(j) + k.bal[p] + k.pool + k.treasury = Money(k) + b + pool + t
        /\ \A v \in Validators : total_stake(j, v) = total_stake(k, v)
    <2>1. CoinTypes(b, pool, t)
      BY <1>6 DEF CoinTypes
    <2>2. Sound(j) /\ SameSet(k, j) /\ CoinsMoved(k, j, p, b, pool, t)
      BY <1>8, <2>1, CoinRows
    <2> QED  BY <2>2 DEF CoinsMoved
  <1>10. Money(k) \in Nat /\ Money(j) \in Nat
    BY <1>9, MoneyType DEF Sound
  <1>11. Money(j) = Money(k) + f + g
    <2>1. PICK a, c, d, e, q : a = Money(j) /\ c = Money(k) /\ d = k.pool /\ e = k.treasury /\ q = k.bal[p]
      OBVIOUS
    <2>2. /\ a \in Nat /\ c \in Nat /\ d \in Nat /\ e \in Nat /\ q \in Nat
          /\ a + q + d + e = c + (q + r + f) + (d - r) + (e + g)
      BY <1>2, <1>5, <1>9, <1>10, <2>1
    <2>3. a = c + f + g
      BY <1>3, <1>4, <2>2
    <2> QED  BY <2>1, <2>3
  <1> QED  BY <1>1, <1>7, <1>9, <1>11

LEMMA ProposerIsMember ==
    ASSUME NEW set \in (SUBSET Validators) \ {{}}, NEW h \in Nat, NEW round \in Nat
    PROVE  eligible_proposer(set, h, round) \in set
  <1>1. set \in SUBSET Nat /\ IsFiniteSet(set)
    BY UsersAreFinite, StakingAssumption, FS_Subset, ZenonT(60)
  <1>2. Cardinality(set) \in Nat /\ Cardinality(set) # 0
    BY <1>1, FS_CardinalityType, FS_EmptySet
  <1>3. PICK n, x : n = Cardinality(set) /\ x = (h + round) % n
    OBVIOUS
  <1>4. x \in Nat /\ x < n
    BY <1>2, <1>3
  <1>5. \E v \in set : Rank(v, set) = x
    BY <1>1, <1>3, <1>4, RankIsTaken
  <1> QED  BY <1>3, <1>5 DEF eligible_proposer

LEMMA EpochType ==
    ASSUME NEW h \in Nat
    PROVE  epoch_of(h) \in Nat
  BY ParamsAssumption DEF epoch_of

\* Whoever the downtime slash jails is out of the set that starts at the same block.
LEMMA DowntimeIsSound ==
    ASSUME NEW k, Sound(k), NEW v \in Validators, NEW h \in Nat
    PROVE  LET j == apply_downtime_slash(k, v, h)
           IN  /\ Sound(j) /\ Money(j) = Money(k) /\ j.set = k.set /\ j.candidates = k.candidates
               /\ \A u \in Validators : \/ j.status[u] = k.status[u]
                                        \/ j.status[u] = Jailed(epoch_of(h) + 2)
  <1>1. PICK amount, j : amount = DowntimeSlash(k, v) /\ j = apply_downtime_slash(k, v, h)
    OBVIOUS
  <1>2. CASE amount = 0
    BY <1>1, <1>2 DEF apply_downtime_slash
  <1>3. CASE amount # 0
    <2>1. k.masters[v] # {} /\ amount \in Nat
      <3>1. k.masters[v] # {}
        BY <1>1, <1>3 DEF DowntimeSlash
      <3>2. Master(k, v) \in Users /\ Allocated(k, Master(k, v), v)
        <4>1. k.masters[v] = {n \in Users : Allocated(k, n, v)}
          BY DEF Sound, Backed
        <4>2. Master(k, v) \in k.masters[v]
          BY <3>1, SMTT(30) DEF Master
        <4> QED  BY <4>1, <4>2
      <3>3. k.sub[v] = Total(k.alloc[<<Master(k, v), v>>]) /\ k.sub[v] \in Nat
        BY <3>2, OneMaster
      <3>4. PICK t, bps : t = Total(k.alloc[<<Master(k, v), v>>]) /\ bps = Params.downtime_slash_bps
        OBVIOUS
      <3>5. t \in Nat /\ bps \in Nat
        BY <3>3, <3>4, ParamsAssumption
      <3>6. Bps(t, bps) \in Nat
        BY <3>5, BpsType
      <3>7. amount = Bps(t, bps)
        BY <1>1, <3>1, <3>4 DEF DowntimeSlash
      <3> QED  BY <3>1, <3>6, <3>7
    <2>2. PICK x : x = apply_slash(k, v, amount)
      BY SMTT(30)
    <2>3. Sound(x) /\ SameSet(k, x) /\ Money(x) = Money(k)
      BY <2>1, <2>2, SlashIsSound
    <2>4. PICK st : st = IF k.status[v] = Tombstoned \/ IsJailed(k.status[v]) THEN k.status[v]
                         ELSE Jailed(epoch_of(h) + 2)
      OBVIOUS
    <2>5. st \in Statuses
      <3>1. k.status[v] \in Statuses
        BY DEF Sound, Ledger
      <3>2. epoch_of(h) + 2 \in Nat
        BY EpochType
      <3>3. Jailed(epoch_of(h) + 2) \in Statuses
        BY <3>2 DEF Statuses, Jailed
      <3> QED  BY <2>4, <3>1, <3>3
    <2>6. j = WithStatus(x, v, st)
      BY <1>1, <1>3, <2>2, <2>4 DEF apply_downtime_slash, WithStatus
    <2>7. Sound(j) /\ Money(j) = Money(x) /\ StatusWritten(x, j, v) /\ j.status[v] = st
      BY <2>3, <2>5, <2>6, StatusRow, SMTT(30)
    <2>8. \A u \in Validators : j.status[u] = k.status[u] \/ j.status[u] = Jailed(epoch_of(h) + 2)
      BY <2>3, <2>4, <2>7, SMTT(30) DEF StatusWritten, SameSet
    <2> QED  BY <1>1, <2>3, <2>7, <2>8 DEF StatusWritten, SameSet
  <1> QED  BY <1>2, <1>3

\* The set a boundary makes: everybody in it has the stake, was eligible, and is
\* active from now on.
LEMMA BoundaryIsSound ==
    ASSUME NEW k, Sound(k), NEW wrote \in SUBSET Validators, NEW h \in Nat
    PROVE  LET j == boundary_hook(k, wrote, h)
           IN  /\ Sound(j) /\ Money(j) = Money(k) /\ j.candidates = k.candidates
               /\ \A v \in Validators : total_stake(j, v) = total_stake(k, v)
               /\ j.set # k.set =>
                     /\ is_boundary(h)
                     /\ \A v \in DOMAIN j.set :
                           /\ total_stake(k, v) >= Params.min_validator_stake
                           /\ k.status[v] # None /\ j.status[v] = Active
                           /\ eligible_for(k.status[v], epoch_of(h) + 1)
  <1>1. PICK epoch, rows, j : /\ epoch = epoch_of(h) + 1
                              /\ rows = {v \in k.candidates \cup wrote : k.status[v] # None}
                              /\ j = boundary_hook(k, wrote, h)
    BY ZenonT(60)
  <1>2. PICK top : top = TopByStake(k, Eligible(k, rows, epoch))
    OBVIOUS
  <1>3. CASE ~is_boundary(h) \/ Cardinality(top) < Params.min_validator_set
    BY <1>1, <1>2, <1>3, Zenon DEF boundary_hook
  <1>4. CASE ~(~is_boundary(h) \/ Cardinality(top) < Params.min_validator_set)
    <2>1. rows \subseteq Validators
      BY <1>1 DEF Sound, Ledger
    <2>2. top \subseteq Eligible(k, rows, epoch)
      BY <1>2 DEF TopByStake
    <2>3. /\ top \subseteq rows
          /\ \A v \in top : /\ eligible_for(k.status[v], epoch)
                             /\ total_stake(k, v) >= Params.min_validator_stake
      BY <2>2 DEF Eligible
    <2>4. top # {}
      <3>1. ~(Cardinality(top) < Params.min_validator_set) /\ Params.min_validator_set \in Nat \ {0}
        BY <1>4, ParamsAssumption
      <3>2. Cardinality({}) = 0
        BY FS_EmptySet
      <3> QED  BY <3>1, <3>2
    <2>5. PICK set : set = assign_voting_power([v \in top |-> total_stake(k, v)])
      OBVIOUS
    <2>6. DOMAIN set = top
      BY <2>5 DEF assign_voting_power
    <2>7. PICK status : status = [v \in Validators |-> IF v \in rows THEN NextStatus(k, v, top, epoch)
                                                      ELSE k.status[v]]
      BY Zenon
    <2>8. \A v \in Validators : NextStatus(k, v, top, epoch) \in Statuses
      BY DEF NextStatus, Statuses, Sound, Ledger
    <2>9. status \in [Validators -> Statuses]
      BY <2>7, <2>8 DEF Sound, Ledger
    <2>10. \A v \in top : status[v] = Active
      BY <2>1, <2>3, <2>7 DEF NextStatus
    <2>11. SetTypes(status, k.candidates, set, k.operator, k.evidence, k.markers)
      BY <2>1, <2>3, <2>4, <2>6, <2>9 DEF Sound, Ledger, SetTypes
    <2>12. j = WithSet(k, status, k.candidates, set, k.operator, k.evidence, k.markers)
      <3>1. j = [k EXCEPT !.set = set, !.status = status]
        BY <1>1, <1>2, <1>4, <2>5, <2>7 DEF boundary_hook
      <3> QED  BY <3>1, ZenonT(60) DEF Sound, Ledger, WithSet
    <2>13. /\ Sound(j) /\ Money(j) = Money(k) /\ j.candidates = k.candidates
           /\ j.status = status /\ j.set = set
           /\ \A v \in Validators : total_stake(j, v) = total_stake(k, v)
      BY <2>11, <2>12, SetRows, SMTT(30)
    <2>14. \A v \in DOMAIN j.set : /\ total_stake(k, v) >= Params.min_validator_stake
                                  /\ k.status[v] # None /\ j.status[v] = Active
                                  /\ eligible_for(k.status[v], epoch)
      BY <1>1, <2>3, <2>6, <2>10, <2>13
    <2> QED  BY <1>1, <1>4, <2>13, <2>14, Zenon
  <1> QED  BY <1>3, <1>4, SMTT(30)

\* What eligibility says of a status.
LEMMA Eligibility ==
    ASSUME NEW st, NEW e \in Nat, eligible_for(st, e)
    PROVE  st # Tombstoned /\ (IsJailed(st) => st[2] <= e) /\ st # Jailed(e + 1)
  <1>1. st # Tombstoned
    <2> SUFFICES ASSUME st = Tombstoned PROVE FALSE
      OBVIOUS
    <2>1. st[1] = "Tombstoned"
      BY DEF Tombstoned
    <2> QED  BY <2>1 DEF eligible_for, IsJailed, IsLeaving
  <1>2. IsJailed(st) => e >= st[2]
    <2>1. IsJailed(st) => ~IsLeaving(st)
      BY DEF IsJailed, IsLeaving
    <2> QED  BY <2>1 DEF eligible_for
  <1>3. st # Jailed(e + 1)
    <2> SUFFICES ASSUME st = Jailed(e + 1) PROVE FALSE
      OBVIOUS
    <2>1. st \in {"Jailed"} \X Nat /\ st[1] = "Jailed" /\ st[2] = e + 1
      BY DEF Jailed
    <2>2. IsJailed(st)
      BY <2>1, StakingAssumption DEF IsJailed
    <2> QED  BY <1>2, <2>1, <2>2
  <1>4. IsJailed(st) => st[2] <= e
    BY <1>2, SMTT(30)
  <1> QED  BY <1>1, <1>3, <1>4

\* The seal as a whole.  Everybody with a row whom the block did not touch is a
\* candidate already; the seal lists the others.
LEMMA SealIsSound ==
    ASSUME NEW k, Sound(k), NEW wrote \in SUBSET Validators, NEW proposer \in Validators,
           NEW collected \in Nat, NEW h \in Nat,
           \A v \in Validators : k.status[v] # None /\ v \notin wrote => v \in k.candidates
    PROVE  LET j == seal(k, wrote, proposer, collected, h)
           IN  /\ Sound(j)
               /\ Money(j) = Money(k) + Bps(collected, Params.fee_proposer_bps)
                                     + Bps(collected, Params.fee_treasury_bps)
               /\ \A v \in Validators : j.status[v] # None => v \in j.candidates
               /\ j.set # k.set =>
                     /\ is_boundary(h)
                     /\ \A v \in DOMAIN j.set :
                           /\ total_stake(j, v) >= Params.min_validator_stake
                           /\ j.status[v] = Active
                           /\ k.status[v] # None /\ k.status[v] # Tombstoned
                           /\ IsJailed(k.status[v]) => k.status[v][2] <= epoch_of(h) + 1
  <1>1. PICK primary, rewarded, j : /\ primary = eligible_proposer(DOMAIN k.set, h, 0)
                                    /\ rewarded = apply_block_reward(k, proposer, collected)
                                    /\ j = seal(k, wrote, proposer, collected, h)
    OBVIOUS
  <1>2. PICK slashed : slashed = IF primary = proposer THEN rewarded
                                 ELSE apply_downtime_slash(rewarded, primary, h)
    OBVIOUS
  <1>3. PICK bounded : bounded = boundary_hook(slashed, wrote, h)
    OBVIOUS
  <1>4. PICK candidates : candidates = Candidates(bounded, k.status, wrote)
    OBVIOUS
  <1>5. primary \in Validators
    <2>1. DOMAIN k.set \in (SUBSET Validators) \ {{}}
      BY DEF Sound, Ledger
    <2>2. primary \in DOMAIN k.set
      BY <1>1, <2>1, ProposerIsMember, ZenonT(60)
    <2> QED  BY <2>1, <2>2
  <1>6. /\ Sound(rewarded) /\ SameSet(k, rewarded)
        /\ Money(rewarded) = Money(k) + Bps(collected, Params.fee_proposer_bps)
                                      + Bps(collected, Params.fee_treasury_bps)
    <2>1. proposer \in Users
      BY StakingAssumption, SMTT(30)
    <2> QED  BY <1>1, <2>1, RewardIsSound
  <1>7. /\ Sound(slashed) /\ Money(slashed) = Money(rewarded)
        /\ slashed.set = k.set /\ slashed.candidates = k.candidates
        /\ \A u \in Validators : \/ slashed.status[u] = k.status[u]
                                 \/ slashed.status[u] = Jailed(epoch_of(h) + 2)
    <2>1. CASE primary = proposer
      BY <1>2, <1>6, <2>1, SMTT(30) DEF SameSet
    <2>2. CASE primary # proposer
      <3>1. slashed = apply_downtime_slash(rewarded, primary, h)
        BY <1>2, <2>2, SMTT(30)
      <3>2. /\ Sound(slashed) /\ Money(slashed) = Money(rewarded)
            /\ slashed.set = rewarded.set /\ slashed.candidates = rewarded.candidates
            /\ \A u \in Validators : \/ slashed.status[u] = rewarded.status[u]
                                     \/ slashed.status[u] = Jailed(epoch_of(h) + 2)
        BY <1>5, <1>6, <3>1, DowntimeIsSound, Zenon
      <3> QED  BY <1>6, <3>2, SMTT(30) DEF SameSet
    <2> QED  BY <2>1, <2>2, SMTT(30)
  <1>8. /\ Sound(bounded) /\ Money(bounded) = Money(slashed) /\ bounded.candidates = k.candidates
        /\ \A v \in Validators : total_stake(bounded, v) = total_stake(slashed, v)
        /\ bounded.set # k.set =>
              /\ is_boundary(h)
              /\ \A v \in DOMAIN bounded.set :
                    /\ total_stake(slashed, v) >= Params.min_validator_stake
                    /\ slashed.status[v] # None /\ bounded.status[v] = Active
                    /\ eligible_for(slashed.status[v], epoch_of(h) + 1)
    BY <1>3, <1>7, BoundaryIsSound, Zenon
  <1>9. candidates \in SUBSET Validators
    BY <1>4, <1>8 DEF Candidates, Sound, Ledger
  <1>10. j = WithSet(bounded, bounded.status, candidates, bounded.set, bounded.operator,
                     bounded.evidence, bounded.markers)
    <2>1. j = [bounded EXCEPT !.candidates = candidates]
      BY <1>1, <1>2, <1>3, <1>4 DEF seal
    <2> QED  BY <1>8, <2>1, Zenon DEF Sound, Ledger, WithSet
  <1>11. SetTypes(bounded.status, candidates, bounded.set, bounded.operator, bounded.evidence,
                  bounded.markers)
    BY <1>8, <1>9, SMTT(30) DEF Sound, Ledger, SetTypes
  <1>12. /\ Sound(j) /\ Money(j) = Money(bounded) /\ j.status = bounded.status
         /\ j.candidates = candidates /\ j.set = bounded.set
         /\ \A v \in Validators : total_stake(j, v) = total_stake(bounded, v)
    <2>1. PICK st, se, op, ev, mk :
              /\ st = bounded.status /\ se = bounded.set /\ op = bounded.operator
              /\ ev = bounded.evidence /\ mk = bounded.markers
      BY Zenon
    <2>2. Sound(bounded) /\ SetTypes(st, candidates, se, op, ev, mk)
          /\ j = WithSet(bounded, st, candidates, se, op, ev, mk)
      BY <1>8, <1>10, <1>11, <2>1, Zenon
    <2>3. /\ Sound(j) /\ Money(j) = Money(bounded) /\ j.status = st
          /\ j.candidates = candidates /\ j.set = se
          /\ \A v \in Validators : total_stake(j, v) = total_stake(bounded, v)
      BY <2>2, SetRows, SMTT(60)
    <2> QED  BY <2>1, <2>3, Zenon
  <1>13. ASSUME NEW v \in Validators, j.status[v] # None PROVE v \in j.candidates
    <2>1. CASE v \in wrote \/ bounded.status[v] # k.status[v]
      BY <1>4, <1>12, <1>13, <2>1, SMTT(30) DEF Candidates
    <2>2. CASE v \notin wrote /\ bounded.status[v] = k.status[v]
      BY <1>4, <1>8, <1>12, <1>13, <2>2, SMTT(30) DEF Candidates
    <2> QED  BY <2>1, <2>2
  <1>14. ASSUME j.set # k.set, NEW v \in DOMAIN j.set
         PROVE  /\ total_stake(j, v) >= Params.min_validator_stake
                /\ j.status[v] = Active
                /\ k.status[v] # None /\ k.status[v] # Tombstoned
                /\ IsJailed(k.status[v]) => k.status[v][2] <= epoch_of(h) + 1
    <2>1. v \in Validators
      BY <1>12, <1>14, SMTT(30) DEF Sound, Ledger
    <2>2. /\ total_stake(slashed, v) >= Params.min_validator_stake
          /\ slashed.status[v] # None /\ bounded.status[v] = Active
          /\ eligible_for(slashed.status[v], epoch_of(h) + 1)
      BY <1>8, <1>12, <1>14, SMTT(30)
    <2>3. PICK e, st : e = epoch_of(h) + 1 /\ st = slashed.status[v]
      OBVIOUS
    <2>4. e \in Nat /\ e + 1 = epoch_of(h) + 2
      BY <2>3, EpochType, SMTT(30)
    <2>5. st # Tombstoned /\ (IsJailed(st) => st[2] <= e) /\ st # Jailed(e + 1)
      BY <2>2, <2>3, <2>4, Eligibility, SMTT(30)
    <2>6. slashed.status[v] = k.status[v]
      BY <1>7, <2>1, <2>3, <2>4, <2>5
    <2> QED  BY <1>8, <1>12, <2>1, <2>2, <2>3, <2>5, <2>6, SMTT(30)
  <1> QED  BY <1>1, <1>6, <1>7, <1>8, <1>12, <1>13, <1>14, ZenonT(60)

=============================================================================
