------------------------------ MODULE Artifact ------------------------------
(* Evidence that can be checked without the chain (core/artifact) and the    *)
(* pair of blocks submitted for a double signature (core/evidence).          *)
(*                                                                           *)
(* A message is a record of the fields its signing bytes encode, the domain  *)
(* tag and the chain's genesis hash included; two messages are the same      *)
(* bytes exactly when they are the same record.  Signed[key] is the set of   *)
(* messages a key has signed: a signature verifies if and only if its key    *)
(* signed the message.                                                       *)
EXTENDS Naturals

CONSTANTS
    Signed,     \* key -> the messages it has signed
    NoVerdict   \* an artifact that does not verify

check_sig(key, message) == message \in Signed[key]

\* One vote as an artifact cites it, and a validator's word on a block's root.
PrecommitAttestation(h, r, hash, ep) == [height |-> h, round |-> r, hash |-> hash, ep |-> ep]

DissentAttestation(h, root, commitment) ==
    [height |-> h, root |-> root, commitment |-> commitment]

\* The header a proposer signs.  The certificate that justifies a later round
\* travels with the block and is not part of it.
signing_bytes_for(genesis, b) ==
    [tag |-> "header", genesis |-> genesis, height |-> b.height, round |-> b.round,
     proposer |-> b.proposer, root |-> b.root]

prevote_signing_bytes(genesis, v) ==
    [tag |-> "prevote", genesis |-> genesis, height |-> v.height, round |-> v.round,
     hash |-> v.hash]

precommit_signing_bytes(genesis, v) ==
    [tag |-> "precommit", genesis |-> genesis, height |-> v.height, round |-> v.round,
     hash |-> v.hash, ep |-> v.ep]

dissent_signing_bytes(genesis, d) ==
    [tag |-> "dissent", genesis |-> genesis, height |-> d.height, root |-> d.root,
     commitment |-> d.commitment]

action_claim_signing_bytes(genesis, height, index, action, claim) ==
    [tag |-> "claim", genesis |-> genesis, height |-> height, index |-> index,
     action |-> action, pre |-> claim.pre, post |-> claim.post]

\* xc_evidence::verify_equivocation: the proposer of two blocks of one height
\* and round.  The blocks are told apart by the hash of the whole record.
verify_equivocation(genesis, a, b) ==
    IF /\ a.height = b.height
       /\ a.round = b.round
       /\ a.proposer = b.proposer
       /\ a # b
       /\ check_sig(a.proposer, signing_bytes_for(genesis, a))
       /\ check_sig(b.proposer, signing_bytes_for(genesis, b))
    THEN a.proposer ELSE NoVerdict


\* Two votes, or two blocks, are for the slot the artifact is about.
SameSlot(height, a, b) == a.height = b.height /\ a.height = height /\ a.round = b.round

\* Two different messages of one slot under one key.
verify_vote_equivocation(key, height, a, b) ==
    IF SameSlot(height, a, b) /\ check_sig(key, a) /\ check_sig(key, b) /\ a # b
    THEN key ELSE NoVerdict

verify_precommit_equivocation(f) ==
    verify_vote_equivocation(f.voter, f.height,
        precommit_signing_bytes(f.genesis, f.items[1]),
        precommit_signing_bytes(f.genesis, f.items[2]))

\* The artifact's own check of two blocks: told apart by the bytes signed.
verify_block_equivocation(f) ==
    verify_vote_equivocation(f.proposer, f.height,
        signing_bytes_for(f.genesis, f.items[1]),
        signing_bytes_for(f.genesis, f.items[2]))

\* A proposer's block and a validator's signed word that its root is wrong:
\* the two disagree, nobody is named.
verify_execution_disagreement(f) ==
    LET bytes == signing_bytes_for(f.genesis, f.items[1])
        d     == f.items[2]
    IN  /\ f.items[1].height = f.height /\ d.height = f.height
        /\ check_sig(f.items[1].proposer, bytes)
        /\ d.commitment = bytes
        /\ d.root # f.items[1].root
        /\ check_sig(f.voter, dissent_signing_bytes(f.genesis, d))

verify_action_divergence(f) ==
    LET Claim(i) == action_claim_signing_bytes(f.genesis, f.height, f.index, f.action, f.items[i])
    IN  /\ f.items[1].pre = f.items[2].pre
        /\ f.items[1].post # f.items[2].post
        /\ check_sig(f.proposer, Claim(1))
        /\ check_sig(f.voter, Claim(2))

\* An artifact.  items are the attestations or claims its kind cites, and a
\* kind reads the fields it has.
Fault(kind, h, proposer, voter, genesis, items, index, action, header, build, outcome) ==
    [kind |-> kind, height |-> h, proposer |-> proposer, voter |-> voter,
     genesis |-> genesis, items |-> items, index |-> index, action |-> action,
     header |-> header, build |-> build, outcome |-> outcome]

\* verify: the key an artifact proves guilty, "disagreement", or NoVerdict.
\* A block divergence is judged by replaying the block (Adjudication); its
\* outcome is a field of the artifact here.
verify(f) ==
    CASE f.kind = "PrevoteEquivocation" ->
            verify_vote_equivocation(f.voter, f.height,
                prevote_signing_bytes(f.genesis, f.items[1]),
                prevote_signing_bytes(f.genesis, f.items[2]))
      [] f.kind = "PrecommitEquivocation" -> verify_precommit_equivocation(f)
      [] f.kind = "Equivocation" -> verify_block_equivocation(f)
      [] f.kind = "ExecutionDisagreement" ->
            IF verify_execution_disagreement(f) THEN "disagreement" ELSE NoVerdict
      [] f.kind = "ActionDivergence" ->
            IF verify_action_divergence(f) THEN "disagreement" ELSE NoVerdict
      [] f.kind = "BlockDivergence" -> f.outcome

\* What a key must have done for a double signature to be its fault: two
\* different messages of one kind for one height and round of this chain.
DoubleSigned(genesis, key) ==
    \E a, b \in Signed[key] :
        /\ a # b
        /\ a.tag = b.tag
        /\ a.tag \in {"header", "prevote", "precommit"}
        /\ a.genesis = genesis /\ b.genesis = genesis
        /\ a.height = b.height /\ a.round = b.round
=============================================================================
