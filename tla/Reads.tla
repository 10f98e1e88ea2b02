------------------------------- MODULE Reads -------------------------------
(***************************************************************************)
(* The routes of the RPC server (core/rpc) that read the live chain        *)
(* database, where every read is a step of its own and blocks commit and   *)
(* are reverted, certified and pruned in between.                          *)
(*                                                                         *)
(* The identity routes (identity.rs: GET /identity/root, /leaves and       *)
(* /context, POST /identity/verify) share a cache of the anonymity tree and*)
(* of the roots observed at recent tips.  An account row's value names the *)
(* block that wrote it; Grants says which credential hash that block left in*)
(* the row.  The block, action, proof and status routes follow.  Disputes  *)
(* belong to Governance; the reads of a dispute row return any answer.     *)
(***************************************************************************)
EXTENDS ChainStore, Claims

CONSTANTS Clients,      \* concurrent requests
          Accounts,     \* the state keys that are account rows
          Attestor,     \* the state key of the one attestor's registry record
          Grants,       \* payload -> account -> credential leaf, or NoHash
          NoHash,       \* an account row without an identity_hash
          AccountSeq,   \* the accounts in key order
          RootLife,     \* 64: blocks an observed root stays acceptable
          Asks,         \* the claim lists that askers send
          Today,        \* credential day of every request
          ChallengeWindow   \* challenge_window_blocks

ASSUME ReadsAssumption ==
    /\ Accounts \cup {Attestor} = StateKeys /\ Attestor \notin Accounts
    /\ RootLife \in Nat
    /\ ToSet(AccountSeq) = Accounts
    /\ ChallengeWindow \in Nat

VARIABLES roots,    \* IdentityRoots
          holder,   \* the client that holds its lock, else Absent
          req,      \* client -> the request it is running
          torn      \* history: the last reconciliation straddled a revert

rpcVars == <<roots, holder, req, torn>>

Idle == [kind |-> "idle", pc |-> "idle"]

With(r, fields) == fields @@ r

\* The request ends with its answer; `torn` remembers what cache it came from.
Answer(c, valid) ==
    req' = [req EXCEPT ![c] = [kind |-> @.kind, pc |-> "done", valid |-> valid,
                               live |-> @.live, torn |-> torn]]

Goto(c, pc) == req' = [req EXCEPT ![c].pc = pc]

-----------------------------------------------------------------------------
(* What a scan of the database sees *)

\* The persisted trie root, or the empty trie's.
compute_state_root(s) == IF RootKey \in DOMAIN s THEN s[RootKey] ELSE <<>>

\* The identity_hash of an account row.
IdentityHash(s, a) ==
    IF StateKey(a) \notin DOMAIN s \/ s[StateKey(a)] = <<>> THEN NoHash
    ELSE Grants[Last(s[StateKey(a)])][a]

Registered(s) == StateKey(Attestor) \in DOMAIN s

\* live_identity_hashes: the hashes of accounts whose attestor is registered, in
\* key order.
live_identity_hashes(s, registered) ==
    IF ~registered THEN <<>>
    ELSE LET live == SelectSeq(AccountSeq, LAMBDA a : IdentityHash(s, a) # NoHash)
         IN  [i \in DOMAIN live |-> IdentityHash(s, live[i])]

\* A leaf held by two accounts cannot tell which of them was revoked: both are
\* disabled.
DistinctLeaves(raw) ==
    [i \in DOMAIN raw |-> IF \E j \in DOMAIN raw \ {i} : raw[j] = raw[i] THEN Zero ELSE raw[i]]

LeavesOf(s) == DistinctLeaves(live_identity_hashes(s, Registered(s)))

IsLive(leaf, s) == leaf \in ToSet(LeavesOf(s))

-----------------------------------------------------------------------------
(* IdentityRoots *)

NoRoots == [last_leaves |-> <<>>, history |-> <<>>, state_root |-> Absent, tree |-> Absent]

\* The last entry moves up, or a new root is appended; roots RootLife blocks old
\* go from the front.
refresh(history, height, top) ==
    LET kept == IF history # <<>> /\ Last(history).root = top
                THEN [history EXCEPT ![Len(history)].at = height]
                ELSE Append(history, [at |-> height, root |-> top])
        fresh == {i \in DOMAIN kept : saturating_sub(height, kept[i].at) <= RootLife}
    IN  SubSeq(kept, Min(fresh), Len(kept))

\* Mutant of observe: a removed leaf leaves the earlier roots in place.
observeMutant(cache, height, leaves, top) ==
    [cache EXCEPT !.last_leaves = leaves, !.history = refresh(cache.history, height, top)]

\* A leaf that is gone invalidates every earlier root.
observe(cache, height, leaves, top) ==
    LET removed == ToSet(cache.last_leaves) \ ToSet(leaves) # {}
        earlier == IF removed THEN <<>> ELSE cache.history
    IN  [cache EXCEPT !.last_leaves = leaves, !.history = refresh(earlier, height, top)]

\* The cached tree with each changed leaf replaced, or a tree built anew when the
\* number of leaves changed.
UpdatedTree(cache, leaves) ==
    LET replaced[i \in 0..Len(leaves)] ==
            IF i = 0 THEN cache.tree
            ELSE IF cache.last_leaves[i] = leaves[i] THEN replaced[i - 1]
            ELSE replace_leaf(replaced[i - 1], i, leaves[i])
    IN  IF cache.tree # Absent /\ Len(cache.last_leaves) = Len(leaves)
        THEN replaced[Len(leaves)]
        ELSE from_leaves(leaves)

Accepted(cache, top) == \E i \in DOMAIN cache.history : cache.history[i].root = top

-----------------------------------------------------------------------------
(* live_tree, under the cache lock *)

\* The state root is read; when it is the cached one only the tip height is read
\* again.
live_tree_before(c) ==
    /\ req[c].pc = "before"
    /\ holder = Absent
    /\ holder' = c
    /\ LET before == compute_state_root(db)
           hit == roots.state_root = before
       IN  req' = [req EXCEPT ![c].pc = IF hit THEN "refresh" ELSE "registry",
                              ![c].scan = [before |-> before],
                              ![c].torn = FALSE,
                              ![c].live = req[c].pass = 2 /\ IsLive(req[c].leaf, db)]
    /\ UNCHANGED <<roots, torn>>

\* live_tree returns, and its locals with it.
Reconciled(c) ==
    /\ holder' = Absent
    /\ req' = [req EXCEPT ![c].pc = "reconciled", ![c].scan = <<>>, ![c].torn = FALSE]

live_tree_cached(c) ==
    /\ req[c].pc = "refresh"
    /\ roots.tree # Absent
    /\ roots' = [roots EXCEPT !.history = refresh(@, Tip(db), root(roots.tree))]
    /\ Reconciled(c)
    /\ UNCHANGED torn

live_tree_registry(c) ==
    /\ req[c].pc = "registry"
    /\ req' = [req EXCEPT ![c].pc = "accounts",
                          ![c].scan = With(@, [registered |-> Registered(db)])]
    /\ UNCHANGED <<roots, holder, torn>>

live_tree_accounts(c) ==
    /\ req[c].pc = "accounts"
    /\ req' = [req EXCEPT ![c].pc = "after",
                          ![c].scan = [before |-> @.before,
                                       leaves |-> DistinctLeaves(live_identity_hashes(db, @.registered))]]
    /\ UNCHANGED <<roots, holder, torn>>

\* The state root is read again: a scan that a block ran into is given up.
live_tree_after(c) ==
    LET scan == req[c].scan
    IN  /\ req[c].pc = "after"
        /\ IF scan.before # compute_state_root(db) \/ ~Fits(scan.leaves)
           THEN /\ holder' = Absent
                /\ Answer(c, FALSE)
           ELSE Goto(c, "observe") /\ UNCHANGED holder
        /\ UNCHANGED <<roots, torn>>

\* The tip height is read and the cache brought up to date.
live_tree_observe(c) ==
    LET scan == req[c].scan
        tree == UpdatedTree(roots, scan.leaves)
    IN  /\ req[c].pc = "observe"
        /\ roots' = [observe(roots, Tip(db), scan.leaves, root(tree))
                       EXCEPT !.state_root = scan.before, !.tree = tree]
        /\ torn' = req[c].torn
        /\ Reconciled(c)

live_tree(c) ==
    \/ live_tree_before(c)
    \/ live_tree_cached(c)
    \/ live_tree_registry(c)
    \/ live_tree_accounts(c)
    \/ live_tree_after(c)
    \/ live_tree_observe(c)

-----------------------------------------------------------------------------
(* Requests *)

\* The public inputs that identity_context derives for an asker's claims over the
\* tree of `leaves`.
ContextInputs(q, leaves, leaf) ==
    [sub |-> derive_sub(Secret[leaf], asker_scope("asker")), scope |-> asker_scope("asker"),
     mask |-> q.mask, age |-> q.age, countries |-> q.countries, group |-> q.group,
     merkle_root |-> root(from_leaves(leaves)), today |-> Today,
     cutoff |-> IF q.age = 0 THEN 0 ELSE age_cutoff(Today, q.age)]

\* Every leaf sequence a chain of blocks can leave live, which a wallet may have
\* been served at some time.
ServedLeaves == {LeavesOf(Replay[b]) : b \in Chains}

\* `live` and `torn` are history: whether the leaf was live at some time since the
\* second reconciliation began, and whether a scan straddled a revert.
Request(kind, leaf, top, member) ==
    [kind |-> kind, pc |-> "before", pass |-> 1, leaf |-> leaf, root |-> top,
     member |-> member, scan |-> <<>>, live |-> FALSE, torn |-> FALSE]

\* GET /identity/root, /identity/leaves or /identity/context.
identity_context(c) ==
    /\ req[c] = Idle
    /\ req' = [req EXCEPT ![c] = Request("context", Zero, <<>>, FALSE)]
    /\ UNCHANGED <<roots, holder, torn>>

\* POST /identity/verify: a wallet's proof, made with `leaf` against leaves it was
\* served.  A proof whose statement has no witness is refused whatever the tree,
\* so only provable ones are sent.
verify_identity(c, claims, leaves, i) ==
    LET q == parse_claims(claims)
        p == ContextInputs(q, leaves, leaves[i])
        w == [leaf |-> leaves[i], leaf_index |-> i, leaf_path |-> path(from_leaves(leaves), i)]
    IN  /\ req[c] = Idle
        /\ leaves[i] # Zero
        /\ q # Refused
        /\ PredicateHolds(p, w)
        /\ req' = [req EXCEPT ![c] = Request("verify", leaves[i], p.merkle_root,
                                             MEMBERSHIP \in p.mask)]
        /\ UNCHANGED <<roots, holder, torn>>

\* valid_group_signature: the signing attestor must be registered.
valid_group_signature(r) == r.member => Registered(db)

\* After each reconciliation the proof's root must be a remembered one and the
\* group's attestor registered; the proof is checked between the two.
verify_claim_payload(c) ==
    LET r == req[c]
        good == Accepted(roots, r.root) /\ valid_group_signature(r)
    IN  /\ r.pc = "reconciled" /\ r.kind = "verify"
        /\ holder = Absent
        /\ IF good /\ r.pass = 1
           THEN req' = [req EXCEPT ![c].pc = "before", ![c].pass = 2]
           ELSE Answer(c, good)
        /\ UNCHANGED <<roots, holder, torn>>

context_answer(c) ==
    /\ req[c].pc = "reconciled" /\ req[c].kind = "context"
    /\ Answer(c, TRUE)
    /\ UNCHANGED <<roots, holder, torn>>

\* The client has its answer.
finish(c) ==
    /\ req[c].pc = "done"
    /\ req' = [req EXCEPT ![c] = Idle]
    /\ UNCHANGED <<roots, holder, torn>>

VerifyStep(c) ==
    \/ \E claims \in Asks, leaves \in ServedLeaves :
           \E i \in DOMAIN leaves : verify_identity(c, claims, leaves, i)
    \/ verify_claim_payload(c)

LiveTreeStep(c) ==
    \/ live_tree(c)
    \/ context_answer(c)
    \/ finish(c)

-----------------------------------------------------------------------------
(* Blocks, actions, proofs and status *)

\* The settled height: the watermark less the challenge window, and below the
\* lowest open dispute.
get_settled_height(s, lowest_open_dispute) ==
    Min({saturating_sub(get_final_watermark(s), ChallengeWindow),
         saturating_sub(lowest_open_dispute, 1)})

ReadsUnchanged == UNCHANGED <<roots, holder, torn>>

Reply(c, fields) == req' = [req EXCEPT ![c] = With(@, fields)]

NotFound(c) == Reply(c, [pc |-> "done", kind |-> "not_found"])

-----------------------------------------------------------------------------
(* GET /blocks/{height} and /blocks/by-hash/{hash} *)

get_block_by_height(c, h) ==
    /\ req[c] = Idle
    /\ req' = [req EXCEPT ![c] = [kind |-> "block", pc |-> "body", height |-> h,
                                  asked |-> Absent, torn |-> FALSE]]
    /\ ReadsUnchanged

\* The hash index is read first.
get_block_by_hash(c, b) ==
    /\ req[c] = Idle
    /\ HashKey(b) \in DOMAIN db
    /\ req' = [req EXCEPT ![c] = [kind |-> "block", pc |-> "body", height |-> db[HashKey(b)],
                                  asked |-> b, torn |-> FALSE]]
    /\ ReadsUnchanged

get_block(c) ==
    /\ req[c].kind = "block" /\ req[c].pc = "body"
    /\ IF BlockKey(req[c].height) \in DOMAIN db
       THEN Reply(c, [pc |-> "certificate", block |-> db[BlockKey(req[c].height)]])
       ELSE NotFound(c)
    /\ ReadsUnchanged

\* block_with_finality: the certificate of the height, then the dispute row and
\* the settled height.
block_finalized(c) ==
    /\ req[c].kind = "block" /\ req[c].pc = "certificate"
    /\ Reply(c, [pc |-> "settlement", finalized |-> FinalityKey(req[c].height) \in DOMAIN db])
    /\ ReadsUnchanged

\* Mutant of settlement: a certificate at the height is enough.
settlementMutant(r, settled, disputed) ==
    IF disputed THEN "disputed"
    ELSE IF r.finalized THEN "final"
    ELSE "pending"

settlement(r, settled, disputed) ==
    IF disputed THEN "disputed"
    ELSE IF r.height <= settled THEN "final"
    ELSE IF r.finalized THEN "attested"
    ELSE "pending"

block_with_finality(c, disputed, lowest) ==
    /\ req[c].kind = "block" /\ req[c].pc = "settlement"
    /\ Reply(c, [pc |-> "done",
                 settlement |-> settlement(req[c], get_settled_height(db, lowest), disputed)])
    /\ ReadsUnchanged

-----------------------------------------------------------------------------
(* GET /accounts/{address}/proof *)

\* Served against the final watermark.
ProofHeight(s) == get_final_watermark(s)

state_proof(c, k) ==
    /\ req[c] = Idle
    /\ req' = [req EXCEPT ![c] = [kind |-> "proof", pc |-> "body", key |-> k,
                                  height |-> ProofHeight(db)]]
    /\ ReadsUnchanged

proof_block(c) ==
    /\ req[c].kind = "proof" /\ req[c].pc = "body"
    /\ IF BlockKey(req[c].height) \in DOMAIN db
       THEN Reply(c, [pc |-> "parent", block |-> db[BlockKey(req[c].height)]])
       ELSE NotFound(c)
    /\ ReadsUnchanged

\* parent_state_root: empty at genesis or when the parent's body is not held.
proof_parent(c) ==
    LET parent == BlockKey(req[c].height - 1)
    IN  /\ req[c].kind = "proof" /\ req[c].pc = "parent"
        /\ Reply(c, [pc |-> "certificate",
                     parent |-> IF parent \in DOMAIN db THEN state_root(db[parent]) ELSE Absent])
        /\ ReadsUnchanged

\* The path under the block's own root, whose trie nodes outlive it, and the
\* certificate of the height.
proof_answer(c) ==
    LET r == req[c]
    IN  /\ r.kind = "proof" /\ r.pc = "certificate"
        /\ Reply(c, [pc |-> "done", value |-> Get(state_root(r.block), StateKey(r.key)),
                     finality |-> Get(db, FinalityKey(r.height))])
        /\ ReadsUnchanged

-----------------------------------------------------------------------------
(* GET /actions/{signature} *)

\* The action index: its rows leave with their block's revert but not with its
\* pruning, and a snapshot carries none.
get_action_block_height(s, p) ==
    LET chain == s[BlockKey(Tip(s))]
        at == {h \in (base + 1)..Tip(s) : chain[h] = p}
    IN  IF at = {} THEN {} ELSE {Max(at)}

\* Not on the chain: the queue and the ring of dropped actions answer.
get_action_status(c, p) ==
    /\ req[c] = Idle
    /\ Ready
    /\ \/ /\ get_action_block_height(db, p) = {}
          /\ \E status \in {"pending", "dropped", "not_found"} :
                req' = [req EXCEPT ![c] = [kind |-> "action", pc |-> "done", status |-> status]]
       \/ \E h \in get_action_block_height(db, p) :
             req' = [req EXCEPT ![c] = [kind |-> "action", pc |-> "body", height |-> h, action |-> p,
                                        torn |-> FALSE]]
    /\ ReadsUnchanged

action_block(c) ==
    LET body == Get(db, BlockKey(req[c].height))
        found == body # Absent /\ body # <<>> /\ Last(body) = req[c].action
    IN  /\ req[c].kind = "action" /\ req[c].pc = "body"
        /\ Reply(c, [pc |-> "done", status |-> IF found THEN "confirmed" ELSE "error"])
        /\ ReadsUnchanged

-----------------------------------------------------------------------------
(* GET /status and GET /finality, and the administrator's checkpoint *)

\* The highest certificate, with or without a gap below it.
get_finalized_height(s) == Max({0} \cup {h \in 1..MaxHeight : FinalityKey(h) \in DOMAIN s})

StatusFloor(s) == get_final_watermark(s)

get_status(c) ==
    /\ req[c] = Idle
    /\ req' = [req EXCEPT ![c] = [kind |-> "status", pc |-> "tip", height |-> Tip(db)]]
    /\ ReadsUnchanged

\* The tip's body is gone when it was reverted since.
status_block(c) ==
    /\ req[c].kind = "status" /\ req[c].pc = "tip"
    /\ IF BlockKey(req[c].height) \in DOMAIN db THEN Goto(c, "certified") ELSE NotFound(c)
    /\ ReadsUnchanged

status_certified(c) ==
    /\ req[c].kind = "status" /\ req[c].pc = "certified"
    /\ Reply(c, [pc |-> "floor", certified |-> get_finalized_height(db)])
    /\ ReadsUnchanged

status_floor(c) ==
    /\ req[c].kind = "status" /\ req[c].pc = "floor"
    /\ Reply(c, [pc |-> "done", floor |-> StatusFloor(db)])
    /\ ReadsUnchanged

\* The certificate is read at the height found before.
get_finality(c) ==
    /\ req[c] = Idle
    /\ req' = [req EXCEPT ![c] = [kind |-> "finality", pc |-> "record",
                                  height |-> get_finalized_height(db)]]
    /\ ReadsUnchanged

finality_record(c) ==
    /\ req[c].kind = "finality" /\ req[c].pc = "record"
    /\ Reply(c, [pc |-> "done", record |-> Get(db, FinalityKey(req[c].height)),
                 floor |-> get_final_watermark(db)])
    /\ ReadsUnchanged

\* The height is read, then the copy taken: what it holds may be another tip.
admin_checkpoint(c) ==
    /\ req[c] = Idle
    /\ req' = [req EXCEPT ![c] = [kind |-> "checkpoint", pc |-> "export", height |-> Tip(db)]]
    /\ ReadsUnchanged

export_checkpoint(c) ==
    /\ req[c].kind = "checkpoint" /\ req[c].pc = "export"
    /\ Reply(c, [pc |-> "done", copied |-> Tip(db)])
    /\ ReadsUnchanged

ReadStep(c) ==
    \/ \E h \in 0..MaxHeight : get_block_by_height(c, h)
    \/ \E b \in Chains : get_block_by_hash(c, b)
    \/ get_block(c)
    \/ block_finalized(c)
    \/ \E disputed \in BOOLEAN, lowest \in 1..(MaxHeight + 1) : block_with_finality(c, disputed, lowest)
    \/ \E k \in StateKeys : state_proof(c, k)
    \/ proof_block(c)
    \/ proof_parent(c)
    \/ proof_answer(c)
    \/ \E p \in Payloads : get_action_status(c, p)
    \/ action_block(c)
    \/ get_status(c) \/ status_block(c) \/ status_certified(c) \/ status_floor(c)
    \/ get_finality(c) \/ finality_record(c)
    \/ admin_checkpoint(c) \/ export_checkpoint(c)
    \/ finish(c)

=============================================================================
