---- MODULE MCAdjudication ----
(* Bounds for Adjudication: a trie of three levels with six of its eight keys  *)
(* in use, so that rows share prefixes of every length and some are alone in   *)
(* their subtree.                                                              *)
EXTENDS Adjudication

MCHashKey == [r \in Rows |->
    CASE r = "sender"   -> <<0, 0, 0>>
      [] r = "proposer" -> <<0, 0, 1>>
      [] r = "attestor" -> <<0, 1, 0>>
      [] r = "next_set" -> <<0, 1, 1>>
      [] r = "due"      -> <<1, 0, 0>>
      [] r = "params"   -> <<1, 1, 0>>]

\* One action of every kind, and one whose signature does not verify.
MCActions == [kind : {"transfer", "block_attestor", "remove_attestor", "fault_submission"},
              signed : {TRUE}]
             \cup {[kind |-> "transfer", signed |-> FALSE]}

\* All proofs, all but one of them, the block's reads only, or none.
MCProofSets == {{}, Rows \ {"attestor", "next_set"}} \cup {rows \in SUBSET Rows : Cardinality(rows) >= 5}

MCGenesis == [r \in {"sender", "params"} |-> IF r = "sender" THEN 4 ELSE 2]

\* Earlier blocks: an account appears, unbonding falls due, an attestor is
\* registered and removed, a row changes twice.
MCCommits ==
    { "proposer" :> 1,
      "due" :> 1,
      "due" :> None,
      "attestor" :> 1,
      "attestor" :> None,
      ("sender" :> 1) @@ ("proposer" :> 2),
      ("attestor" :> 1) @@ ("due" :> 1),
      "params" :> 1 }

====
