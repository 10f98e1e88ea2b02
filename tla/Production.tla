----------------------------- MODULE Production -----------------------------
(* One validator's block production: actions are admitted into the mempool,  *)
(* drained into a block the node claims in its signed-height file, executed, *)
(* signed and committed, while round timeouts, peers' blocks, crashes and a  *)
(* restored database interleave with it (arxd/node produce.rs, validator.rs  *)
(* and lib.rs, core/executor execute_actions, core/mempool).                 *)
(*                                                                           *)
(* produce_loop holds the chain lock from reading the tip to committing the  *)
(* block, so accepting a peer's block and unwinding the tip never happen     *)
(* inside a build; submissions and round certificates take no chain lock and *)
(* do.  A build is therefore two steps, ProduceClaim and ProduceFinish (or   *)
(* ProduceFail), with `build` set in between.                                *)
EXTENDS AccountPolicy, Mempool

CONSTANTS
  Me,               \* this validator's own account
  GenesisLedger,    \* the ledger of the genesis block
  Submissions,      \* the signed actions clients may submit
  PeerActions,      \* the actions other proposers may put in their blocks
  Mine(_, _),       \* eligible_proposer: is (height, round) this node's turn
  max_block_weight, max_actions, MaxBlockBytes,
  MaxHeight, MaxRound, MaxInputs, MaxRestarts   \* bounds of the model

VARIABLES
  ledger,     \* the committed state: [acct, log] (log: see Logged)
  tip,        \* the tip's height
  unfinal,    \* None while the tip is final, else its round and the state
              \*   its undo record leads back to
  round,      \* current_round(tip + 1)
  pool,       \* the mempool
  build,      \* None, or the block being built
  report,     \* None, or a fault report signed and not yet queued
  claimed,    \* the signed-height file
  last,       \* SignedHeight.last, its copy in memory
  signed,     \* ghost: the blocks signed, oldest first
  inputs,     \* ghost: how many actions have entered the system
  restarts    \* ghost: how often the node has restarted

vars == <<ledger, tip, unfinal, round, pool, build, report, claimed, last,
          signed, inputs, restarts>>

----------------------------------------------------------------------------
(* Execution.                                                                *)

\* A ghost record of every applied action, for the properties: what it was,
\* when, what it debited and the limits it ran under.
Logged(log, before, after, a, h) ==
  LET e == before[a.sender]
  IN  IF e.prog = None THEN log
      ELSE Append(log, [kind |-> a.kind, sender |-> a.sender, height |-> h,
                        debit |-> [x \in DOMAIN e.bal |->
                                     IF e.bal[x] > after[a.sender].bal[x]
                                     THEN e.bal[x] - after[a.sender].bal[x] ELSE 0],
                        limits |-> e.prog.policy.limits,
                        delay |-> IF e.prog.policy.recovery = None THEN 0
                                  ELSE e.prog.policy.recovery.delay])

\* One action of the loop.  x is [acct, log, applied, dropped, deferred, weight].
Executed(x, a, h, after) ==
  CASE x.deferred # <<>> -> [x EXCEPT !.deferred = Append(@, a)]
    [] verify_account_signature(x.acct[a.sender], a) = None ->
         [x EXCEPT !.dropped = Append(@, a)]
    [] x.weight + Weight[a.kind] > max_block_weight ->
         [x EXCEPT !.deferred = Append(@, a)]
    [] after = None -> [x EXCEPT !.dropped = Append(@, a)]
    [] OTHER -> [x EXCEPT !.acct = after,
                          !.log = Logged(@, x.acct, after, a, h),
                          !.applied = Append(@, a),
                          !.weight = @ + Weight[a.kind]]

\* execute_actions: each action is verified against the policy the earlier
\* actions of the block left; the first one past the weight cap, and all
\* behind it, are deferred.
execute_actions(k, s, h) ==
  FoldLeft(LAMBDA x, a : Executed(x, a, h, dispatch(x.acct, a, h)),
           [acct |-> k.acct, log |-> k.log, applied |-> <<>>, dropped |-> <<>>,
            deferred |-> <<>>, weight |-> 0], s)

State(x) == [acct |-> x.acct, log |-> x.log]

----------------------------------------------------------------------------
Init ==
  /\ ledger = [acct |-> GenesisLedger, log |-> <<>>]
  /\ tip = 0
  /\ unfinal = None
  /\ round = 0
  /\ pool = EmptyPool
  /\ build = None
  /\ report = None
  /\ claimed = <<0, 0>>
  /\ last = <<0, 0>>
  /\ signed = <<>>
  /\ inputs = 0
  /\ restarts = 0

\* validate_action and admission_precheck, against the committed state.
Admitted(a) ==
  LET e == ledger.acct[a.sender]
  IN  /\ verify_account_signature(e, a) # None
      /\ a.nonce >= e.nonce
      /\ a.nonce - e.nonce <= max_nonce_gap
      /\ authorization(e, a, tip + 1) # None
      /\ Weight[a.kind] <= max_block_weight
      /\ e.bal["Native"] >= Fee

\* A client's (or a gossiping peer's) action is admitted and queued.
Submit(a) ==
  /\ inputs < MaxInputs
  /\ Admitted(a)
  /\ CanPush(pool, a)
  /\ pool' = push(pool, a)
  /\ inputs' = inputs + 1
  /\ UNCHANGED <<ledger, tip, unfinal, round, build, report, claimed, last,
                 signed, restarts>>

\* sign_fault_action: the node reads its next nonce and signs a report ...
sign_fault_action ==
  /\ report = None
  /\ inputs < MaxInputs
  /\ report' = [sender |-> Me, kind |-> "Report",
                nonce |-> next_nonce(pool, Me, ledger.acct[Me].nonce),
                sig |-> [mode |-> "address", key |-> ledger.acct[Me].address,
                         by |-> ledger.acct[Me].address.members]]
  /\ inputs' = inputs + 1
  /\ UNCHANGED <<ledger, tip, unfinal, round, pool, build, claimed, last,
                 signed, restarts>>

\* ... and the evidence watcher queues it later; a taken slot loses it.
PushReport ==
  /\ report # None
  /\ report' = None
  /\ pool' = IF CanPush(pool, report) THEN push(pool, report) ELSE pool
  /\ UNCHANGED <<ledger, tip, unfinal, round, build, claimed, last, signed,
                 inputs, restarts>>

----------------------------------------------------------------------------
(* Producing a block.                                                        *)

\* Mutant of CanClaim: only the height is compared.
CanClaimMutant(h, r) == h >= last[1]

\* SignedHeight::claim admits only pairs above the last one.
CanClaim(h, r) == h > last[1] \/ (h = last[1] /\ r > last[2])

\* The gates of produce_loop, then the claim (on disk first, then in memory)
\* and the drain of the mempool.
ProduceClaim ==
  LET h == tip + 1
      n == DrainCount(pool.pending, max_actions, MaxBlockBytes)
  IN  /\ build = None
      /\ tip < MaxHeight
      /\ unfinal = None
      /\ Mine(h, round)
      /\ CanClaim(h, round)
      /\ claimed' = <<h, round>>
      /\ last' = <<h, round>>
      /\ build' = [round |-> round, actions |-> SubSeq(pool.pending, 1, n)]
      /\ pool' = drain_pending_within(pool, n)
      /\ UNCHANGED <<ledger, tip, unfinal, round, report, signed, inputs,
                     restarts>>

\* produce_block: execute what was drained, stamp and sign the block with the
\* round as it is NOW, commit it with its state in one batch, note what was
\* dropped and queue again what was deferred.
Produced(x) ==
  /\ ledger' = State(x)
  /\ tip' = tip + 1
  /\ unfinal' = [round |-> round, before |-> ledger]
  /\ round' = 0
  /\ signed' = Append(signed, [height |-> tip + 1, round |-> round,
                               claim |-> build.round])
  /\ pool' = requeue_front(note_dropped(pool, x.dropped), x.deferred)
  /\ build' = None
  /\ UNCHANGED <<report, claimed, last, inputs, restarts>>

ProduceFinish ==
  /\ build # None
  /\ Produced(execute_actions(ledger, build.actions, tip + 1))

\* Building or committing fails: the error is logged and the drained actions
\* are not put back.
ProduceFail ==
  /\ build # None
  /\ build' = None
  /\ UNCHANGED <<ledger, tip, unfinal, round, pool, report, claimed, last,
                 signed, inputs, restarts>>

----------------------------------------------------------------------------
(* What happens around it.                                                   *)

\* tally_round_timeout: a certificate ends the round at the height after the
\* final one.  Its write takes no chain lock; with no block there the next
\* round begins ...
RoundTimeout ==
  /\ unfinal = None
  /\ round < MaxRound
  /\ round' = round + 1
  /\ UNCHANGED <<ledger, tip, unfinal, pool, build, report, claimed, last,
                 signed, inputs, restarts>>

\* ... and unwind_dead_tip takes back a tip proposed in the round that died.
\* Its actions do not return to the queue.
unwind_dead_tip ==
  /\ unfinal # None
  /\ build = None
  /\ unfinal.round < MaxRound
  /\ ledger' = unfinal.before
  /\ tip' = tip - 1
  /\ unfinal' = None
  /\ round' = unfinal.round + 1
  /\ UNCHANGED <<pool, build, report, claimed, last, signed, inputs, restarts>>

\* A quorum finalizes the tip.
Certify ==
  /\ unfinal # None
  /\ unfinal' = None
  /\ UNCHANGED <<ledger, tip, round, pool, build, report, claimed, last, signed,
                 inputs, restarts>>

\* build_on_block: a block of another proposer is executed, committed and its
\* actions' slots purged.  Every action of an accepted block applied.  After a
\* restored database the node's own earlier blocks come back this way too.
PeerBlock(s, x) ==
  /\ x.applied = s
  /\ ledger' = State(x)
  /\ tip' = tip + 1
  /\ unfinal' = [round |-> round, before |-> ledger]
  /\ round' = 0
  /\ pool' = FoldLeft(LAMBDA p, a : purge_stale(p, a.sender, a.nonce + 1), pool, s)
  /\ inputs' = inputs + Len(s)
  /\ UNCHANGED <<build, report, claimed, last, signed, restarts>>

build_on_block(s) ==
  /\ build = None
  /\ tip < MaxHeight
  /\ unfinal = None
  /\ \/ ~ Mine(tip + 1, round)
     \/ \E i \in DOMAIN signed : signed[i].height = tip + 1 /\ signed[i].round = round
  /\ inputs + Len(s) <= MaxInputs
  /\ PeerBlock(s, execute_actions(ledger, s, tip + 1))

\* The process dies and comes back: the queue, a build in progress and an
\* unqueued report are lost, the signed height is read back from its file.
Restart ==
  /\ restarts < MaxRestarts
  /\ restarts' = restarts + 1
  /\ pool' = EmptyPool
  /\ build' = None
  /\ report' = None
  /\ last' = claimed
  /\ UNCHANGED <<ledger, tip, unfinal, round, claimed, signed, inputs>>

\* The same, on a database restored from before the first block.  The
\* signed-height file is not part of the database and stays.
RestoreDatabase ==
  /\ restarts < MaxRestarts
  /\ restarts' = restarts + 1
  /\ ledger' = [acct |-> GenesisLedger, log |-> <<>>]
  /\ tip' = 0
  /\ unfinal' = None
  /\ round' = 0
  /\ pool' = EmptyPool
  /\ build' = None
  /\ report' = None
  /\ last' = claimed
  /\ UNCHANGED <<claimed, signed, inputs>>

Next ==
  \/ \E a \in Submissions : Submit(a)
  \/ sign_fault_action
  \/ PushReport
  \/ ProduceClaim
  \/ ProduceFinish
  \/ ProduceFail
  \/ RoundTimeout
  \/ unwind_dead_tip
  \/ Certify
  \/ \E s \in {<<>>} \cup {<<a>> : a \in PeerActions} : build_on_block(s)
  \/ Restart
  \/ RestoreDatabase

Spec == Init /\ [][Next]_vars

----------------------------------------------------------------------------
(* Properties.                                                               *)

\* Total debited from asset x by the entries J of the log.
Spent(log, x, J) ==
  FoldSet(LAMBDA j, n : n + log[j].debit[x], 0, J)

LimitHolds(log) ==
  LET Same(i, j, x) ==
        /\ log[j].sender = log[i].sender
        /\ \A m \in j .. i : log[m].sender = log[i].sender =>
             x \in DOMAIN log[m].limits /\ log[m].limits[x] = log[i].limits[x]
        /\ log[j].height \div log[i].limits[x].period = log[i].height \div log[i].limits[x].period
      Spend(j) == log[j].kind \notin PolicyKinds
  IN  \A i \in DOMAIN log : \A x \in DOMAIN log[i].limits :
        Spent(log, x, {j \in 1 .. i : Spend(j) /\ Same(i, j, x)})
          <= log[i].limits[x].amount

RecoveryIsTimelocked(log) ==
  LET Ends == {"CancelRecovery", "RotateMembers", "SetPolicy", "ExecuteRecovery", "StartRecovery"}
  IN  \A i \in DOMAIN log : log[i].kind = "ExecuteRecovery" =>
        \E j \in 1 .. i - 1 :
          /\ log[j].kind = "StartRecovery" /\ log[j].sender = log[i].sender
          /\ log[i].height >= log[j].height + log[j].delay
          /\ \A m \in j + 1 .. i - 1 :
               ~ (log[m].sender = log[i].sender /\ log[m].kind \in Ends)

\* An account's policy holds over its history.  Whatever owners and sessions
\* spend in one window, through member rotations, recoveries and a policy
\* submitted again with the same limit, is at most the limit: only replacing the
\* limit itself starts a new count.  And guardians take an account over only
\* after its owners had the whole delay to object: an executed recovery was
\* started at least the delay before, under the same policy, and nothing in
\* between cancelled it, rotated the members or replaced the policy.
PolicyHolds == LimitHolds(ledger.log) /\ RecoveryIsTimelocked(ledger.log)

\* Slashing protection: over crashes, restarts and a restored database the
\* validator never signs two blocks for one height and round.  Blocks whose
\* round moved on between the claim and the signature are left out: for those
\* the file does not protect (produce.rs reads the round twice).
NeverSignsTwice ==
  \A i, j \in DOMAIN signed :
    /\ i # j
    /\ signed[i].round = signed[i].claim /\ signed[j].round = signed[j].claim
    => <<signed[i].height, signed[i].round>> # <<signed[j].height, signed[j].round>>

\* The order of SignedHeight::claim.
Above(p, q) == p[1] > q[1] \/ (p[1] = q[1] /\ p[2] > q[2])

\* A block signed in the round it was claimed for.
Faithful(b) == b.round = b.claim

SlotOf(b) == <<b.height, b.round>>

\* The inductive invariant behind it.  The file and its copy in memory agree; what
\* was signed as claimed is at or below them; and the claim of a block being built
\* is the last one, with nothing signed under it yet.
SigningInv ==
  /\ tip \in Nat /\ round \in Nat
  /\ unfinal # None => tip > 0 /\ unfinal.round \in Nat
  /\ last \in Nat \X Nat /\ claimed = last
  /\ signed \in Seq([height : Nat, round : Nat, claim : Nat])
  /\ \A i \in DOMAIN signed : Faithful(signed[i]) =>
       SlotOf(signed[i]) = last \/ Above(last, SlotOf(signed[i]))
  /\ build # None =>
       /\ build.round \in Nat /\ last = <<tip + 1, build.round>>
       /\ \A i \in DOMAIN signed : Faithful(signed[i]) => Above(last, SlotOf(signed[i]))
  /\ NeverSignsTwice

\* The actions the node has taken on and not yet settled.
Waiting == Range(pool.pending) \cup (IF build = None THEN {} ELSE Range(build.actions))

\* A running node forgets no action it admitted: one that leaves the queue and
\* the block being built was applied (or its nonce used up), is listed with the
\* reason it was dropped for, or gave way to another action in its slot.  The
\* exception is a block whose production fails, whose actions are lost, and a
\* tip that is unwound gives none back.
ActionsAreNotForgotten ==
  [][restarts' = restarts =>
       \A a \in Waiting \ Waiting' :
         \/ ledger'.acct[a.sender].nonce > a.nonce
         \/ a \in Range(pool'.dropped)
         \/ \E b \in Range(pool'.pending) : Slot(b) = Slot(a)
         \/ build # None /\ build' = None /\ tip' = tip]_vars

\* The mempool's indexes agree with its queue in every state: one queued
\* action per sender and nonce, the byte count and the per-sender counts
\* exact, and the queue above its cap only by what a block deferred.
PoolIsConsistent ==
  LET senders == {a.sender : a \in Range(pool.pending)}
  IN  /\ Cardinality({Slot(a) : a \in Range(pool.pending)}) = Len(pool.pending)
      /\ pool.seen = {Slot(a) : a \in Range(pool.pending)}
      /\ pool.signatures = Range(pool.pending)
      /\ pool.total_bytes = Bytes(pool.pending)
      /\ DOMAIN pool.per_sender = senders
      /\ \A s \in senders :
           pool.per_sender[s] = Len(SelectSeq(pool.pending, LAMBDA a : a.sender = s))
      /\ Len(pool.pending) <= max_pending + max_actions
=============================================================================
