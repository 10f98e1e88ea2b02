------------------------------ MODULE MCAssets ------------------------------
(***************************************************************************)
(* Assets for TLC: an issuer and two investors, one regulated asset, which *)
(* also pays its own dividends, one token, one attestor.                   *)
(***************************************************************************)
EXTENDS Assets

MCLeaf == [good |-> [claims |-> {"KYC"}, country |-> "CH", expires |-> 2],
           bare |-> [claims |-> {}, country |-> "CH", expires |-> 9]]

MCSkeleton == [Bank |-> "bank", BANK |-> "bank"]

MCOwner == [bond |-> 1, tok |-> 1]

Meta(c, claims, allowed, cap) ==
    [compliance_required |-> c, required_claims |-> claims, allowed |-> allowed,
     max_supply |-> cap]

MCMetas == {Meta(FALSE, {}, None, 6), Meta(TRUE, {"KYC"}, {"CH"}, None)}

MCGenesisNames == [a \in {10} |-> "Bank"]

MCGrants == {[hash |-> "good", topics |-> {"KYC"}, jurisdiction |-> "CH"],
             [hash |-> "bare", topics |-> {}, jurisdiction |-> None]}

MCLimits == {[holders |-> 1, balance |-> 2, age |-> 1]}

MCRatios == {<<2, 1>>, <<1, 2>>}

Budget(m, i, l1, c, cl, t, b) ==
    [Moves |-> m, Issuer |-> i, Locks |-> l1, Corporate |-> c, Claims |-> cl,
     Token |-> t, Blocks |-> b]

MCBudgets == {Budget(3, 1, 2, 0, 0, 0, 0), Budget(2, 1, 2, 0, 0, 0, 1),
              Budget(4, 2, 0, 0, 0, 0, 0), Budget(2, 1, 1, 2, 0, 0, 1),
              Budget(2, 2, 0, 2, 0, 0, 1), Budget(0, 2, 0, 0, 3, 0, 2),
              Budget(2, 1, 0, 0, 2, 0, 1), Budget(0, 0, 0, 0, 0, 4, 1)}
=============================================================================
