-------------------------- MODULE ProductionProof --------------------------
(***************************************************************************)
(* The proposer's slashing protection, proved for every mempool, ledger,   *)
(* number of rounds, crashes and restored databases.                       *)
(***************************************************************************)
EXTENDS Production, TLAPS

\* Elements of a sequence, and of one with another element at its end.
LEMMA SequenceElements ==
    ASSUME NEW R, NEW s \in Seq(R), NEW x \in R, NEW t, t = Append(s, x)
    PROVE  /\ \A i \in DOMAIN s : s[i] \in R /\ t[i] = s[i]
           /\ t \in Seq(R) /\ DOMAIN t = DOMAIN s \cup {Len(s) + 1}
           /\ Len(s) + 1 \notin DOMAIN s /\ t[Len(s) + 1] = x
  <1>1. Len(s) \in Nat /\ DOMAIN s = 1 .. Len(s)
    OBVIOUS
  <1>2. t \in Seq(R) /\ Len(t) = Len(s) + 1
    OBVIOUS
  <1>3. DOMAIN t = 1 .. Len(s) + 1
    BY <1>1, <1>2
  <1>4. t[Len(s) + 1] = x
    OBVIOUS
  <1>5. \A i \in DOMAIN s : s[i] \in R /\ t[i] = s[i]
    BY <1>1
  <1> QED  BY <1>1, <1>2, <1>3, <1>4, <1>5

\* A step that signs nothing and claims nothing: what was signed stays below the
\* file, and the block being built is the same or given up.
LEMMA SigningRests ==
    ASSUME SigningInv, tip' \in Nat, round' \in Nat,
           unfinal' # None => tip' > 0 /\ unfinal'.round \in Nat,
           signed' = signed, claimed' = claimed, last' = last,
           build' = None \/ (build' = build /\ tip' = tip)
    PROVE  SigningInv'
  BY DEF SigningInv, NeverSignsTwice

\* SignedHeight::claim admits only pairs above everything signed.
LEMMA ClaimIsAbove ==
    ASSUME SigningInv, ProduceClaim
    PROVE  SigningInv'
  <1>1. PICK new : new = <<tip + 1, round>>
    BY Zenon
  <1>2. /\ last' = new /\ claimed' = new /\ build'.round = round
        /\ UNCHANGED <<tip, round, unfinal, signed>>
    BY <1>1 DEF ProduceClaim
  <1>3. new \in Nat \X Nat /\ last \in Nat \X Nat
    BY <1>1 DEF SigningInv
  <1>4. Above(new, last)
    BY <1>1, <1>3 DEF ProduceClaim, CanClaim, Above, SigningInv
  <1>5. \A i \in DOMAIN signed : Faithful(signed[i]) => Above(new, SlotOf(signed[i]))
    <2> SUFFICES ASSUME NEW i \in DOMAIN signed, Faithful(signed[i])
                 PROVE  Above(new, SlotOf(signed[i]))
      OBVIOUS
    <2>1. signed[i] \in [height : Nat, round : Nat, claim : Nat]
      <3>1. PICK R : R = [height : Nat, round : Nat, claim : Nat]
        BY Zenon
      <3>2. signed \in Seq(R)
        BY <3>1 DEF SigningInv
      <3>3. signed[i] \in R
        BY <3>2
      <3> QED  BY <3>1, <3>3
    <2>2. SlotOf(signed[i]) \in Nat \X Nat
      BY <2>1 DEF SlotOf
    <2>3. SlotOf(signed[i]) = last \/ Above(last, SlotOf(signed[i]))
      BY DEF SigningInv
    <2> QED  BY <1>3, <1>4, <2>2, <2>3 DEF Above
  <1> QED  BY <1>1, <1>2, <1>3, <1>5, ZenonT(60) DEF SigningInv, NeverSignsTwice

LEMMA SignsUnderItsClaim ==
    ASSUME SigningInv, ProduceFinish
    PROVE  SigningInv'
  <1>1. PICK new : new = [height |-> tip + 1, round |-> round, claim |-> build.round]
    BY Zenon
  <1>2. /\ signed' = Append(signed, new) /\ build' = None /\ tip' = tip + 1 /\ round' = 0
        /\ unfinal'.round = round /\ UNCHANGED <<claimed, last>>
    BY <1>1 DEF ProduceFinish, Produced
  <1>3. /\ build # None /\ build.round \in Nat /\ last = <<tip + 1, build.round>>
        /\ \A i \in DOMAIN signed : Faithful(signed[i]) => Above(last, SlotOf(signed[i]))
    BY DEF SigningInv, ProduceFinish
  <1>4. new \in [height : Nat, round : Nat, claim : Nat]
    BY <1>1, <1>3 DEF SigningInv
  <1>5. Faithful(new) => SlotOf(new) = last
    BY <1>1, <1>3 DEF Faithful, SlotOf
  <1>6. signed \in Seq([height : Nat, round : Nat, claim : Nat])
    BY DEF SigningInv
  <1>7. /\ signed' \in Seq([height : Nat, round : Nat, claim : Nat])
        /\ DOMAIN signed' = DOMAIN signed \cup {Len(signed) + 1}
        /\ Len(signed) + 1 \notin DOMAIN signed
        /\ signed'[Len(signed) + 1] = new
        /\ \A i \in DOMAIN signed : signed'[i] = signed[i]
    <2>1. PICK R : R = [height : Nat, round : Nat, claim : Nat]
      BY Zenon
    <2>2. signed \in Seq(R) /\ new \in R
      BY <1>4, <1>6, <2>1
    <2>3. /\ \A i \in DOMAIN signed : signed'[i] = signed[i]
          /\ signed' \in Seq(R) /\ DOMAIN signed' = DOMAIN signed \cup {Len(signed) + 1}
          /\ Len(signed) + 1 \notin DOMAIN signed /\ signed'[Len(signed) + 1] = new
      BY <1>2, <2>2, SequenceElements
    <2> QED  BY <2>1, <2>3
  <1>8. \A i \in DOMAIN signed' : Faithful(signed'[i]) =>
           SlotOf(signed'[i]) = last \/ Above(last, SlotOf(signed'[i]))
    BY <1>3, <1>5, <1>7, Zenon
  <1>9. \A i \in DOMAIN signed : Faithful(signed[i]) => SlotOf(signed[i]) # last
    <2> SUFFICES ASSUME NEW i \in DOMAIN signed, Faithful(signed[i]), SlotOf(signed[i]) = last
                 PROVE  FALSE
      OBVIOUS
    <2>1. Above(last, last) /\ last \in Nat \X Nat
      BY <1>3, Zenon DEF SigningInv
    <2> QED  BY <2>1 DEF Above
  <1>10. NeverSignsTwice'
    <2> SUFFICES ASSUME NEW i \in DOMAIN signed', NEW j \in DOMAIN signed', i # j,
                        Faithful(signed'[i]), Faithful(signed'[j])
                 PROVE  SlotOf(signed'[i]) # SlotOf(signed'[j])
      BY DEF NeverSignsTwice, Faithful, SlotOf
    <2>1. CASE i \in DOMAIN signed /\ j \in DOMAIN signed
      BY <1>7, <2>1, ZenonT(60) DEF SigningInv, NeverSignsTwice, Faithful, SlotOf
    <2>2. CASE i \in DOMAIN signed /\ j = Len(signed) + 1
      BY <1>5, <1>7, <1>9, <2>2
    <2>3. CASE j \in DOMAIN signed /\ i = Len(signed) + 1
      BY <1>5, <1>7, <1>9, <2>3
    <2> QED  BY <1>7, <2>1, <2>2, <2>3
  <1>11. /\ tip' \in Nat /\ round' \in Nat /\ tip' > 0 /\ unfinal'.round \in Nat
         /\ last' \in Nat \X Nat /\ claimed' = last'
    BY <1>2 DEF SigningInv
  <1> QED  BY <1>2, <1>7, <1>8, <1>10, <1>11, Zenon DEF SigningInv

LEMMA SigningStep ==
    ASSUME SigningInv, [Next]_vars
    PROVE  SigningInv'
  <1>1. CASE ProduceClaim
    BY <1>1, ClaimIsAbove
  <1>2. CASE ProduceFinish
    BY <1>2, SignsUnderItsClaim, SMTT(30)
  <1>3. ASSUME NEW a \in Submissions, Submit(a) PROVE SigningInv'
    BY <1>3, SigningRests, SMTT(30) DEF Submit, SigningInv
  <1>4. CASE sign_fault_action
    BY <1>4, SigningRests, SMTT(30) DEF sign_fault_action, SigningInv
  <1>5. CASE PushReport
    BY <1>5, SigningRests, SMTT(30) DEF PushReport, SigningInv
  <1>6. CASE ProduceFail
    BY <1>6, SigningRests, SMTT(30) DEF ProduceFail, SigningInv
  <1>7. CASE RoundTimeout
    BY <1>7, SigningRests DEF RoundTimeout, SigningInv
  <1>8. CASE unwind_dead_tip
    <2>1. tip' \in Nat /\ round' \in Nat /\ unfinal' = None
      BY <1>8 DEF unwind_dead_tip, SigningInv
    <2>2. build = None /\ UNCHANGED <<build, signed, claimed, last>>
      BY <1>8 DEF unwind_dead_tip
    <2> QED  BY <2>1, <2>2, SigningRests
  <1>9. CASE Certify
    BY <1>9, SigningRests DEF Certify, SigningInv
  <1>10. ASSUME NEW s, build_on_block(s) PROVE SigningInv'
    <2>1. /\ build = None /\ tip' = tip + 1 /\ round' = 0 /\ unfinal'.round = round
          /\ UNCHANGED <<build, signed, claimed, last>>
      BY <1>10, Zenon DEF build_on_block, PeerBlock
    <2>2. tip' \in Nat /\ round' \in Nat /\ tip' > 0 /\ unfinal'.round \in Nat
      BY <2>1, SMTT(30) DEF SigningInv
    <2> QED  BY <2>1, <2>2, SigningRests
  <1>11. CASE Restart
    BY <1>11, SigningRests, SMTT(30) DEF Restart, SigningInv
  <1>12. CASE RestoreDatabase
    BY <1>12, SigningRests, SMTT(30) DEF RestoreDatabase, SigningInv
  <1>13. CASE UNCHANGED vars
    BY <1>13, SigningRests DEF vars, SigningInv
  <1> QED  BY <1>1, <1>2, <1>3, <1>4, <1>5, <1>6, <1>7, <1>8, <1>9, <1>10, <1>11, <1>12, <1>13
              DEF Next

\* The inductive invariant of the signed-height file (SignedHeight, produce_loop,
\* produce_block).
THEOREM SigningInvHolds == Spec => []SigningInv
  <1>1. Init => SigningInv
    BY DEF Init, SigningInv, NeverSignsTwice
  <1> QED  BY <1>1, SigningStep, PTL DEF Spec

\* For any mempool, ledger, schedule of proposers, and any number of rounds,
\* failed builds, crashes and restored databases: of the blocks signed in the
\* round they were claimed for, no two are for one height and round
\* (SignedHeight::claim, produce_loop).
THEOREM NeverSignsTwiceHolds == Spec => []NeverSignsTwice
  <1>1. SigningInv => NeverSignsTwice
    BY DEF SigningInv
  <1> QED  BY <1>1, SigningInvHolds, PTL

============================================================================
