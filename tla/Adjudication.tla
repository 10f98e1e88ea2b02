------------------------------ MODULE Adjudication ------------------------------
(***************************************************************************)
(* A block whose execution two nodes disagree on, and the replay from      *)
(* proofs that names who is wrong: the database's state trie               *)
(* (core/storage/src/lib.rs), the block's execution (core/executor/src/    *)
(* lib.rs), the dissenter's claim (arxd/node/src/lib.rs), the artifact's   *)
(* verification (core/artifact/src/lib.rs) and the adjudicator             *)
(* (arxd/runtime/src/adjudicate.rs).                                       *)
(*                                                                         *)
(* The ledger has the rows a block can touch: two accounts (the sender's   *)
(* and the proposer's), the unbonding due at this height, an attestor      *)
(* record, the chain parameters (here: the block weight) and the           *)
(* validator-set row that an epoch's last block writes.  An action pays a  *)
(* fee of 1 from its sender's account and weighs 1.                        *)
(***************************************************************************)
EXTENDS StateTrie, FiniteSetsExt

CONSTANTS HashKey,     \* the key hash of every row
          Genesis,     \* the rows of the genesis state
          Commits,     \* changes that earlier blocks may commit
          Actions,     \* the actions a disputed block may hold: [kind, signed]
          Boundary,    \* whether the disputed block ends an epoch
          ProofSets,   \* the sets of rows a false dissent may prove
          Budget,      \* bound on commits plus actions of the disputed block
          Refused      \* an action that dispatch rejects

Rows == {"sender", "proposer", "due", "attestor", "params", "next_set"}

ASSUME HashIsInjective ==
    \A r, s \in Rows : HashKey[r] = HashKey[s] => r = s

VARIABLES ledger,   \* committed rows
          store,    \* CF_MERKLE
          root,     \* the committed trie root
          past,     \* every root the database has held, with the rows it committed to
          block,    \* the disputed block, or None
          claim,    \* the dissenter's artifact, or None
          verdict,  \* what the adjudicator answered, or None
          spent     \* commits and actions so far

vars == <<ledger, store, root, past, block, claim, verdict, spent>>

\* A change of rows as a change of trie keys.
Keyed(changes) ==
    [k \in {HashKey[r] : r \in DOMAIN changes} |->
        changes[CHOOSE r \in DOMAIN changes : HashKey[r] = k]]

compute_state_root(changes) == trie_root_after(store, root, Keyed(changes)).root

Val(v) == IF v = None THEN 0 ELSE v

--------------------------------------------------------------------------------
(* Execution.  A view answers reads; an action's updates are the writes of *)
(* the typed overlays (early) and of the governance rows (late).           *)

NoUpdates == [early |-> <<>>, late |-> <<>>]

SeedReads(view) == {"due"} \cup (IF view["due"] \in {None, Unproven} THEN {} ELSE {"sender"})

\* The unbonding due at this height goes back to its owner, and the due row is
\* dropped with the governance rows.
resolve_matured_unbonding(view) ==
    IF \E r \in SeedReads(view) : view[r] = Unproven THEN Unproven
    ELSE IF view["due"] = None THEN NoUpdates
    ELSE [early |-> ("sender" :> Val(view["sender"]) + view["due"]),
          late  |-> ("due" :> None)]

ActionReads(a) == {"sender"} \cup
    CASE a.kind = "transfer" -> {"proposer"}
      [] a.kind = "fault_submission" -> {}
      [] OTHER -> {"attestor"}

\* One action: a transfer of 1 to the proposer, an attestor blocking itself (a
\* governance row) or a passed removal deleting the attestor (its own overlay,
\* written before the governance rows).  Every action pays the fee; of a fault
\* submission nothing else is modelled here (see Governance).
dispatch(a, view) ==
    LET cost == IF a.kind = "transfer" THEN 2 ELSE 1
        paid == "sender" :> view["sender"] - cost
    IN  IF \E r \in ActionReads(a) : view[r] = Unproven THEN Unproven
        ELSE IF Val(view["sender"]) < cost THEN Refused
        ELSE IF "attestor" \in ActionReads(a) /\ view["attestor"] = None THEN Refused
        ELSE CASE a.kind = "transfer" ->
                    [early |-> paid @@ ("proposer" :> Val(view["proposer"]) + 1), late |-> <<>>]
               [] a.kind = "block_attestor" -> [early |-> paid, late |-> ("attestor" :> 2)]
               [] a.kind = "remove_attestor" -> [early |-> paid @@ ("attestor" :> None), late |-> <<>>]
               [] OTHER -> [early |-> paid, late |-> <<>>]

SealReads == {"proposer", "params"}

\* The fees go to the proposer, and an epoch's last block writes the validator
\* set of the next height.
seal(view, fees) ==
    IF \E r \in SealReads : view[r] = Unproven THEN Unproven
    ELSE [early |-> ("proposer" :> Val(view["proposer"]) + fees)
                        @@ (IF Boundary THEN ("next_set" :> 1) ELSE <<>>),
          late  |-> <<>>]

\* A block's writes as committed: every typed overlay first, then every
\* governance row.
Overlay(x) == x.late @@ x.early

\* A block's actions on top of the committed rows: what execute_actions applies,
\* drops and defers, its overlays and the keys its recording view saw.
ExecuteOne(x, a, updates) ==
    IF x.deferred THEN x
    ELSE IF ~ a.signed THEN [x EXCEPT !.touched = @ \cup {"sender"}]
    ELSE IF x.weight + 1 > ledger["params"] THEN [x EXCEPT !.deferred = TRUE]
    ELSE IF updates = Refused THEN [x EXCEPT !.touched = @ \cup ActionReads(a)]
    ELSE [x EXCEPT !.view    = Overlay(updates) @@ @,
                   !.early   = updates.early @@ @,
                   !.late    = updates.late @@ @,
                   !.applied = @ + 1,
                   !.weight  = @ + 1,
                   !.touched = @ \cup ActionReads(a) \cup DOMAIN Overlay(updates)]

Seeded(seed) ==
    [view |-> Overlay(seed) @@ ledger, early |-> seed.early, late |-> seed.late, applied |-> 0,
     weight |-> 0, deferred |-> FALSE, touched |-> SeedReads(ledger) \cup DOMAIN Overlay(seed)]

execute_actions(actions) ==
    FoldLeft(LAMBDA x, a : ExecuteOne(x, a, dispatch(a, x.view)),
             Seeded(resolve_matured_unbonding(ledger)), actions)

\* The overlays after the seal, which reads the block's state as committed.
SealedOverlay(x) ==
    x.late @@ seal(Overlay(x) @@ ledger, x.applied).early @@ x.early

\* Only what the recording views read is reported, not what the block wrote.
touched_keysMutant(x) == x.touched \cup SealReads

\* The keys a StateRootMismatch reports: everything the three phases read, and
\* every key the block writes.
touched_keys(x) == x.touched \cup SealReads \cup DOMAIN SealedOverlay(x)

\* What accept_block answers for the execution x of b: "ok", or the disagreement
\* with the root this node computed and the keys it touched.
Judge(b, x, computed) ==
    IF x.deferred THEN [why |-> "over_weight"]
    ELSE IF x.applied # Len(b.actions)
    THEN [why |-> "action_mismatch", root |-> compute_state_root(x.early), touched |-> x.touched]
    ELSE IF b.header.state_root # computed
    THEN [why |-> "state_root_mismatch", root |-> computed, touched |-> touched_keys(x)]
    ELSE [why |-> "ok"]

JudgeExecution(b, x) == Judge(b, x, compute_state_root(SealedOverlay(x)))

accept_block(b) == JudgeExecution(b, execute_actions(b.actions))

\* A writer uses one row through two overlays in this block.
MixesOverlays(b) ==
    LET Both(x) == DOMAIN x.early \cap DOMAIN x.late IN Both(execute_actions(b.actions)) # {}

--------------------------------------------------------------------------------
(* tx_root: RFC 6962, an odd node is promoted. *)

RECURSIVE PairUp(_)
PairUp(level) ==
    IF Len(level) = 1 THEN level[1]
    ELSE PairUp([i \in 1 .. (Len(level) + 1) \div 2 |->
                    IF 2 * i <= Len(level) THEN <<"pair", level[2 * i - 1], level[2 * i]>>
                                           ELSE level[2 * i - 1]])

tx_root(actions) ==
    IF actions = <<>> THEN <<"zero">>
    ELSE PairUp([i \in 1 .. Len(actions) |-> <<"action", actions[i]>>])

--------------------------------------------------------------------------------
(* The artifact and the adjudicator. *)

Header(actions, state_root) ==
    [parent_state_root |-> root, tx_root |-> tx_root(actions), state_root |-> state_root]

\* The wire proofs of a set of rows against the parent root of b.
Proofs(b, rows) == {compress(prove(store, b.header.parent_state_root, HashKey[r])) : r \in rows}

\* The artifact's own check of a wire proof, with its own expansion of it.
verify_state_proof(state_root, p) == verify_proof(state_root, decode_proof(p))

\* verify_block_divergence: signatures hold, the two roots differ, and every
\* proof verifies against the parent root the proposer signed.
verify_block_divergence(b, c) ==
    /\ c.signed = b.header
    /\ b.header.state_root # c.computed_state_root
    /\ \A p \in c.proofs : verify_state_proof(b.header.parent_state_root, p)

\* One action's writes into the proof-backed trie, the governance rows last;
\* Unproven as soon as a key is not covered.
apply_entries(trie, updates) ==
    LET Put(changes, acc) ==
            FoldSet(LAMBDA r, t : IF t = Unproven THEN Unproven
                                  ELSE pbt_apply(t, HashKey[r], changes[r]),
                    acc, DOMAIN changes)
    IN  Put(updates.late, Put(updates.early, trie))

\* What the trie proves of every row.
ProofBackedView(trie) == [r \in Rows |-> pbt_get(trie, HashKey[r])]

\* The replay of one action on the trie: who is to blame already, or the trie
\* after it.
Blame(x, a, view, updates) ==
    IF a.kind = "fault_submission" \/ view["sender"] = Unproven THEN "disagreement"
    ELSE IF ~ a.signed \/ x.weight + 1 > view["params"] THEN "proposer"
    ELSE IF updates = Unproven THEN "disagreement"
    ELSE IF updates = Refused THEN "proposer"
    ELSE None

Advance(x, blame, trie) ==
    IF blame # None THEN [x EXCEPT !.outcome = blame]
    ELSE IF trie = Unproven THEN [x EXCEPT !.outcome = "disagreement"]
    ELSE [x EXCEPT !.trie = trie, !.weight = @ + 1]

ReplayOn(x, a, view, updates) == Advance(x, Blame(x, a, view, updates), apply_entries(x.trie, updates))

ReplayViewed(x, a, view) == ReplayOn(x, a, view, dispatch(a, view))

ReplayAction(x, a) ==
    IF x.outcome # None THEN x ELSE ReplayViewed(x, a, ProofBackedView(x.trie))

\* Who is wrong, once the replay has a root.
Decide(replayed, proposed, dissent) ==
    IF replayed = proposed
    THEN IF replayed = dissent THEN "disagreement" ELSE "voter"
    ELSE "proposer"

\* One phase's writes (the unbonding release, the seal) into the trie.
ReplayPhase(x, updates) ==
    IF updates = Unproven THEN [x EXCEPT !.outcome = "disagreement"]
    ELSE Advance(x, None, apply_entries(x.trie, updates))

ReplaySeed(x) ==
    IF x.outcome # None THEN x
    ELSE ReplayPhase(x, resolve_matured_unbonding(ProofBackedView(x.trie)))

\* proven_validators: the replay needs the parameters and the validator set.
proven_validators(x) ==
    IF x.outcome # None THEN x
    ELSE IF pbt_get(x.trie, HashKey["params"]) = Unproven THEN [x EXCEPT !.outcome = "disagreement"]
    ELSE [x EXCEPT !.weight = 0]

ReplaySeal(x) ==
    IF x.outcome # None THEN x
    ELSE ReplayPhase(x, seal(ProofBackedView(x.trie), x.weight))

Verdict(x, b, c) ==
    IF x.outcome # None THEN x.outcome
    ELSE Decide(x.trie.root, b.header.state_root, c.computed_state_root)

\* The checks before the replay starts, and the trie it starts from.
OpenReplay(b, c, trie) ==
    [trie    |-> trie,
     weight  |-> 0,
     outcome |-> IF ~ verify_block_divergence(b, c) THEN "invalid"
                 ELSE IF tx_root(c.actions) # b.header.tx_root \/ trie = Unproven
                 THEN "disagreement" ELSE None]

\* The whole of accept_block's state transition, on a trie known only through
\* the dissenter's proofs.
replay_block_divergence(b, c) ==
    LET start == OpenReplay(b, c, from_proofs(b.header.parent_state_root,
                                              {decode_proof(p) : p \in c.proofs}))
    IN  Verdict(ReplaySeal(FoldLeft(ReplayAction, proven_validators(ReplaySeed(start)), c.actions)), b, c)

--------------------------------------------------------------------------------
(* One action both parties signed a claim on: its effect on one state.  A claim  *)
(* proof reads the block's timestamp, which is not in the claim: none is replayed *)
(* here, as none is among the actions.                                           *)

ActionClaim(pre, post, rows) ==
    [pre |-> pre, post |-> post,
     proofs |-> {compress(prove(store, pre, HashKey[r])) : r \in rows}]

verify_action_claims(p, d) ==
    /\ p.pre = d.pre /\ p.post # d.post
    /\ \A q \in p.proofs \cup d.proofs : verify_state_proof(p.pre, q)

\* The root of the action's updates on the proven trie: a refused action leaves
\* the root it found.
RootAfter(pre, trie, updates) ==
    IF updates = Unproven THEN Unproven
    ELSE IF updates = Refused THEN pre
    ELSE LET after == apply_entries(trie, updates)
         IN  IF after = Unproven THEN Unproven ELSE after.root

ReplayClaim(a, c, trie) ==
    IF a.kind = "fault_submission" \/ trie = Unproven THEN Unproven
    ELSE RootAfter(c.pre, trie, dispatch(a, ProofBackedView(trie)))

replay(a, c) == ReplayClaim(a, c, from_proofs(c.pre, {decode_proof(p) : p \in c.proofs}))

\* Whose claimed root the replays of the two claims give.
ActionVerdict(p, d, proposed, dissent) ==
    IF Unproven \in {p, d} THEN "disagreement"
    ELSE CASE p = proposed /\ d # dissent -> "voter"
           [] p # proposed /\ d = dissent -> "proposer"
           [] OTHER -> "disagreement"

--------------------------------------------------------------------------------
Seed(db) == store = db.store /\ root = db.root /\ past = {[root |-> db.root, ledger |-> ledger]}

Init ==
    /\ ledger = [r \in Rows |-> IF r \in DOMAIN Genesis THEN Genesis[r] ELSE None]
    /\ Seed(trie_root_after(<<>>, default_hashes[Depth], Keyed(Genesis)))
    /\ block = None
    /\ claim = None
    /\ verdict = None
    /\ spent = 0

\* write_block_batches: an earlier block's rows and the trie's new nodes land in
\* one write.
WriteBatch(changes, db) ==
    /\ store' = db.store
    /\ root' = db.root
    /\ past' = past \cup {[root |-> db.root, ledger |-> changes @@ ledger]}

write_block_batches(changes) ==
    /\ block = None /\ claim = None
    /\ spent < Budget
    /\ spent' = spent + 1
    /\ ledger' = changes @@ ledger
    /\ WriteBatch(changes, trie_root_after(store, root, Keyed(changes)))
    /\ UNCHANGED <<block, claim, verdict>>

\* A proposer signs a block: the root its execution gives, or another one.
Propose(actions, honest) ==
    /\ block = None /\ claim = None
    /\ spent + Len(actions) <= Budget
    /\ spent' = spent + Len(actions)
    /\ block' = [actions |-> actions,
                 header  |-> Header(actions,
                     IF honest THEN compute_state_root(SealedOverlay(execute_actions(actions)))
                               ELSE default_hashes[Depth])]
    /\ UNCHANGED <<ledger, store, root, past, claim, verdict>>

\* dissent_on_execution_disagreement: a node that rejects the block for its
\* execution proves every key its rejection touched, and the parameters.
Dissent(answer) ==
    /\ answer.why \in {"action_mismatch", "state_root_mismatch"}
    /\ claim' = [honest |-> TRUE, signed |-> block.header, actions |-> block.actions,
                 computed_state_root |-> answer.root,
                 proofs |-> Proofs(block, answer.touched \cup {"params"})]

dissent_on_execution_disagreement ==
    /\ block # None /\ claim = None
    /\ Dissent(accept_block(block))
    /\ UNCHANGED <<ledger, store, root, past, block, verdict, spent>>

\* A validator dissents from a block it could have accepted, or with fewer
\* proofs, another action list, a proof of a value that is not there, or a
\* signature that binds another header.
FalseDissent(rows, actions, tampered, header) ==
    LET right == Proofs(block, rows)
        wrong == {[p EXCEPT !.value = 3] : p \in Proofs(block, tampered)}
    IN  /\ claim = None
        /\ claim' = [honest |-> FALSE, signed |-> header, actions |-> actions,
                     computed_state_root |-> block.header.parent_state_root,
                     proofs |-> wrong \cup {p \in right : \A q \in wrong : q.key # p.key}]
        /\ UNCHANGED <<ledger, store, root, past, block, verdict, spent>>

adjudicate_block_divergence ==
    /\ claim # None /\ verdict = None
    /\ verdict' = replay_block_divergence(block, claim)
    /\ UNCHANGED <<ledger, store, root, past, block, claim, spent>>

\* What an honest party claims: the root of the action on the committed rows.
RootOn(updates) == IF updates = Refused THEN root ELSE compute_state_root(updates.late @@ updates.early)
HonestRoot(a) == RootOn(dispatch(a, ledger))

\* The two parties claim a root each, and prove the same rows.
adjudicate_action_divergence(a, p, d, rows) ==
    /\ spent' = spent + 1
    /\ verify_action_claims(p, d)
    /\ claim' = [action |-> a, rows |-> rows, proposed |-> p.post, dissent |-> d.post]
    /\ verdict' = ActionVerdict(replay(a, p), replay(a, d), p.post, d.post)
    /\ UNCHANGED <<ledger, store, root, past, block>>

ActionDispute(a, rows) ==
    /\ block = None /\ claim = None /\ spent < Budget
    /\ \E p, d \in {HonestRoot(a), default_hashes[Depth], default_hashes[0]} :
          /\ p # d
          /\ adjudicate_action_divergence(a, ActionClaim(root, p, rows), ActionClaim(root, d, rows), rows)

Next ==
    \/ \E a \in Actions, rows \in ProofSets : ActionDispute(a, rows)
    \/ \E changes \in Commits : write_block_batches(changes)
    \/ \E n \in 0 .. Budget : \E actions \in [1 .. n -> Actions], honest \in BOOLEAN :
           Propose(actions, honest)
    \/ dissent_on_execution_disagreement
    \/ /\ block # None
       /\ \/ \E rows \in ProofSets : FalseDissent(rows, block.actions, {}, block.header)
          \/ FalseDissent(Rows, block.actions, {"sender"}, block.header)
          \/ \E actions \in {<<>>} \cup [1 .. 1 -> Actions] :
                 FalseDissent(Rows, actions, {}, block.header)
          \/ FalseDissent(Rows, block.actions, {}, [block.header EXCEPT !.tx_root = root])
    \/ adjudicate_block_divergence

Spec == Init /\ [][Next]_vars

--------------------------------------------------------------------------------
(* Properties. *)

\* Every root the database ever held is the root of its rows computed from
\* nothing, although it is kept up to date key by key, with shortcuts, in the
\* order of the writes; and it stays provable: prove finds every row's value as
\* of that root, and the proof survives the wire and verifies (trie_root_after,
\* compute_state_root, shortcut records, prove, compress, decode_proofs).
EveryRootStaysProvable ==
    block = None /\ claim = None =>
        /\ root = root_of(Keyed(ledger))
        /\ \A old \in past, r \in Rows :
            LET Shows(proof) == /\ proof # Unproven
                                /\ proof.value = old.ledger[r]
                                /\ decode_proof(compress(proof)) = proof
                                /\ verify_proof(old.root, proof)
            IN  Shows(prove(store, old.root, HashKey[r]))

\* Whatever proofs, action list and root a dissenter supplies, the adjudicator
\* names the proposer only for a block that accept_block rejects, and the voter
\* only when the dissent was false; and the keys that accept_block reports on a
\* rejection are enough: the dissent a node builds from them convicts the
\* proposer, unless the block carries a fault submission or the proposer signed
\* the very root the node reports.  Blocks that write one row through both a
\* typed overlay and the governance rows are left out.  Of two claims on one
\* signed action (replay checks no signature), the party that claimed the root
\* the action really leads to is never the culprit, and with every row proven
\* the other one always is (replay_block_divergence, adjudicate_action_divergence).
VerdictIsJust ==
    /\ verdict # None /\ block = None /\ claim.action.signed =>
        /\ verdict = "proposer" => claim.proposed # HonestRoot(claim.action)
        /\ verdict = "voter" => claim.dissent # HonestRoot(claim.action)
        /\ claim.rows = Rows /\ claim.action.kind # "fault_submission" =>
              /\ claim.dissent = HonestRoot(claim.action) => verdict = "proposer"
              /\ claim.proposed = HonestRoot(claim.action) => verdict = "voter"
    /\ verdict # None /\ block # None /\ ~ MixesOverlays(block) =>
        /\ verdict = "proposer" => accept_block(block).why # "ok"
        /\ verdict = "voter" => ~ claim.honest
        /\ (/\ claim.honest
            /\ claim.computed_state_root # block.header.state_root
            /\ \A i \in DOMAIN block.actions : block.actions[i].kind # "fault_submission")
           => verdict = "proposer"

================================================================================
