----------------------------- MODULE MCServices -----------------------------
(***************************************************************************)
(* The node's services beside consensus, over one chain database: the RPC   *)
(* server's identity, block and proof routes, its request budget, operator  *)
(* pairing, the evidence watcher, and gossip.  The services share nothing   *)
(* but the database, which none of them writes, so a behaviour runs one.    *)
(* A small instance follows.                                               *)
(***************************************************************************)
EXTENDS Reads, RpcSessions, EvidenceWatcher, Gossip

CONSTANTS Routes,       \* client -> the routes it calls
          MaxWrites     \* service -> bound on the database steps of a behaviour

VARIABLES service,      \* the service this behaviour runs
          writes        \* bound: database steps so far

servicesVars ==
    <<vars, rpcVars, pairingVars, limiterVars, evidenceVars, gossipVars, service, writes>>

RpcInit ==
    /\ roots = NoRoots
    /\ holder = Absent
    /\ req = [c \in Clients |-> Idle]
    /\ torn = FALSE

ServicesInit ==
    /\ Init
    /\ RpcInit
    /\ PairingInit
    /\ LimiterInit
    /\ EvidenceInit
    /\ GossipInit
    /\ writes = 0
    /\ service \in {"identity", "reads", "pairing", "limiter", "evidence", "outbound", "inbound"}
    /\ service # "evidence" => disk

-----------------------------------------------------------------------------
(* The chain underneath *)

\* The database steps a reader can see.  Certificates and pruning touch no row
\* that the identity routes read.
Commits ==
    \/ Ready /\ \E p \in Payloads : write_block_batches(Append(db[BlockKey(Tip(db))], p), TRUE)
    \/ service = "reads" /\ \E h \in Heights : write_certificate(h)
    \/ service = "reads" /\ \E h \in Heights : prune(h)
    \/ \E b \in Chains : import_wipe(b)
    \/ ~Ready /\ import_entries({})

\* What the requests in flight remember of a database step: that it was a revert,
\* and whether their leaf is live after it.
Straddled(r, reverts) ==
    LET tears == reverts /\ r.pc \in {"registry", "accounts", "after"}
        lives == r.pass = 2 /\ IsLive(r.leaf, db')
    IN  IF r.pc = "done" THEN r
        ELSE CASE r.kind \in {"verify", "context"} ->
                    [r EXCEPT !.live = @ \/ lives, !.torn = @ \/ tears]
               [] r.kind \in {"block", "action"} -> [r EXCEPT !.torn = @ \/ reverts]
               [] OTHER -> r

Remember(reverts) ==
    /\ req' = [c \in Clients |-> Straddled(req[c], reverts)]
    /\ UNCHANGED <<roots, holder, torn>>

Reverts == \E h \in 0..MaxHeight : revert_to(h)

\* The process restarts: the cache and the requests in flight are gone.
RpcRestart ==
    /\ Restart
    /\ roots' = NoRoots /\ holder' = Absent /\ torn' = FALSE
    /\ req' = [c \in Clients |-> Idle]

Others == <<pairingVars, limiterVars, evidenceVars, gossipVars, service>>

ChainStep ==
    /\ service \in {"identity", "reads"}
    /\ writes < MaxWrites[service]
    /\ writes' = writes + 1
    /\ \/ Commits /\ Remember(FALSE)
       \/ Reverts /\ Remember(TRUE)
       \/ RpcRestart
    /\ UNCHANGED Others

RpcStep ==
    /\ \E c \in Clients :
          \/ service = "identity" /\ "verify" \in Routes[c] /\ VerifyStep(c)
          \/ service = "identity" /\ "context" \in Routes[c] /\ identity_context(c)
          \/ service = "identity" /\ LiveTreeStep(c)
          \/ service = "reads" /\ "reads" \in Routes[c] /\ ReadStep(c)
    /\ UNCHANGED <<vars, Others, writes>>

PairingStep ==
    /\ service = "pairing"
    /\ PairingNext
    /\ UNCHANGED <<vars, rpcVars, limiterVars, evidenceVars, gossipVars, service, writes>>

LimiterStep ==
    /\ service = "limiter"
    /\ LimiterNext
    /\ UNCHANGED <<vars, rpcVars, pairingVars, evidenceVars, gossipVars, service, writes>>

EvidenceStep ==
    /\ service = "evidence"
    /\ EvidenceNext
    /\ UNCHANGED <<vars, rpcVars, pairingVars, limiterVars, gossipVars, service, writes>>

GossipStep ==
    /\ \/ service = "outbound" /\ OutboundNext
       \/ service = "inbound" /\ InboundNext
    /\ UNCHANGED <<vars, rpcVars, pairingVars, limiterVars, evidenceVars, service, writes>>

ServicesNext ==
    \/ ChainStep
    \/ RpcStep
    \/ PairingStep
    \/ LimiterStep
    \/ EvidenceStep
    \/ GossipStep

ServicesSpec == ServicesInit /\ [][ServicesNext]_servicesVars

-----------------------------------------------------------------------------
(* Properties *)

\* A claim that is answered as valid belongs to a credential that was live at some
\* time after its proof had been checked, however old the root it was made
\* against and whoever refreshed the cache in between; and what the answers stand
\* on, the cached anonymity tree, is the tree of the leaves of the one committed
\* state whose root the cache is keyed by, although blocks commit between the
\* scans and leaves are replaced one by one.  The exception to both is a block
\* committed and reverted while a scan ran, which leaves the state root as it was
\* (live_tree, observe, AttestedTree::replace_leaf, verify_claim_payload).
ClaimAnswersAreLive ==
    /\ roots.tree # Absent =>
          /\ roots.tree = from_leaves(roots.last_leaves)
          /\ torn \/ roots.last_leaves = LeavesOf(roots.state_root)
    /\ \A c \in Clients :
          (req[c].kind = "verify" /\ req[c].pc = "done" /\ req[c].valid) =>
              req[c].torn \/ req[c].live

BlockAnswerIsTrue(r) ==
    (r.kind = "block" /\ ~r.torn) =>
        /\ r.settlement = "final" => r.block = Ancestor(Decided, r.height)
        /\ r.asked \in {Absent, r.block}

ActionAnswerIsTrue(r) ==
    (r.kind = "action" /\ r.status = "error") =>
        r.torn \/ r.height < get_final_watermark(db)

FloorAnswerHolds(r) ==
    r.kind \in {"status", "finality"} =>
        \A h \in 1..r.floor :
            BlockKey(h) \in DOMAIN db => db[BlockKey(h)] = Ancestor(Decided, h)

ProofAnswerIsCheckable(r) ==
    r.kind = "proof" =>
        /\ r.height > 0 => r.finality = r.block
        /\ r.parent # Absent => r.parent = state_root(Front(r.block))

\* What the read routes answer is true although each puts its answer together
\* from several reads that commits, reverts and pruning may come between.  A block
\* served as final is the one the network decided, and one asked for by hash is
\* the one served, unless it was reverted meanwhile; an action's status is an
\* error only when its block was pruned or reverted; the floor that status and
\* finality report is never retracted while the client acts on it; a state
\* proof's certificate names the block whose root it is proved under, and its
\* parent root is the parent's or missing (get_block_by_hash,
\* block_with_finality, get_action_status, get_status, get_finality, state_proof).
AnswersAreTrue ==
    \A c \in Clients :
        req[c].pc = "done" =>
            /\ BlockAnswerIsTrue(req[c])
            /\ ActionAnswerIsTrue(req[c])
            /\ FloorAnswerHolds(req[c])
            /\ ProofAnswerIsCheckable(req[c])

\* What the server keeps in memory for its clients is not disturbed by other
\* clients, by expiry or by sweeps: a pairing ends with the first operator its
\* session accepted, and no address is served more than twice its budget within
\* the span of a window (PairingStore, RateLimiter::allow).
SessionsAndBudgetsHold == PairsWithTheFirst /\ BudgetHolds

-----------------------------------------------------------------------------
(* The instance *)

CONSTANTS p1, p2, p3, alice, bob, registry, credA, credB, c1, c2, ch, de,
          club, secretA, secretB, val1, val2, me, other, ip1, ip2, op1, op2,
          peer1, peer2

\* p1 registers the attestor and grants Alice's account, p2 grants both accounts
\* the other way round, p3 removes the attestor.
MCPuts == (p1 :> {alice, registry}) @@ (p2 :> {alice, bob}) @@ (p3 :> {})
MCDeletes == (p1 :> {}) @@ (p2 :> {}) @@ (p3 :> {registry})
MCDecided == <<p1, p2>>
MCGrants == (p1 :> (alice :> credA @@ bob :> NoHash)) @@ (p2 :> (alice :> credB @@ bob :> credA))
              @@ (p3 :> (alice :> NoHash @@ bob :> NoHash))
MCAccountSeq == <<alice, bob>>
MCRoutes == (c1 :> {"verify", "reads"}) @@ (c2 :> {"context"})
MCMaxWrites == [identity |-> 4, reads |-> 6]

MCSecret == (credA :> secretA) @@ (credB :> secretB)
MCToday == 46000
MCOpening ==
    (credA :> [kyc |-> TRUE, aml |-> TRUE, accredited |-> FALSE, expiry |-> 47000, birth |-> 30000,
               country |-> ch, membership |-> club]) @@
    (credB :> [kyc |-> TRUE, aml |-> FALSE, accredited |-> TRUE, expiry |-> 47000, birth |-> 40000,
               country |-> de, membership |-> NoGroup])
MCMembers == club :> {secretA}
MCAsks == {<<Flag(KYC), member_of(club)>>}
MCClaimLists ==
    LET claims == {Flag(KYC), Flag(ACCREDITED), age_gte(18), age_gte(14), age_gte(21),
                   resident_in_any({ch}), resident_in_any({ch, de}), member_of(club)}
    IN  UNION {[1..n -> claims] : n \in 1..3}

\* The calendar over 1968 to 2105, claim lists of up to three claims, and an
\* asset gate's masks.
ASSUME PureParts ==
    /\ CalendarIsExact(-800..49400)
    /\ ParsedMeansAll(MCClaimLists, MCToday)
    /\ WalletAgrees(SUBSET {KYC, AML, ACCREDITED, RESIDENCY}, SUBSET {ch, de}, MCToday)

MCMaxMade == [precommits |-> 2, round_timeouts |-> 1, actions |-> 1, blocks |-> 1, dissents |-> 1]
MCMaxBudget == (TRUE :> 1) @@ (FALSE :> 1)
=============================================================================
