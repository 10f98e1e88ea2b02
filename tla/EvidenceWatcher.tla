-------------------------- MODULE EvidenceWatcher --------------------------
(***************************************************************************)
(* A validator's evidence watcher (core/evidence spawn_evidence_watcher)    *)
(* and what feeds and drains it (arxd/node): rejected blocks, dissents and  *)
(* double votes become events on its queue; it reports a fault with an      *)
(* action of this node's own account, whose nonce it reads before it pushes.*)
(* The same account is used by the operator through RPC, and blocks commit  *)
(* and unwind meanwhile.                                                    *)
(***************************************************************************)
EXTENDS Integers, FiniteSets, Sequences, SequencesExt, TLC

CONSTANTS Proposers,    \* validators that may be culprits, this node included
          Self,         \* this node's validator
          Keyed,        \* validators with a BLS key at the heights in question
          FaultHeights, \* heights at which faults are seen
          BacklogCap,   \* PEER_EVENT_BACKLOG_CAP, of the finality thread's queue
          MaxEvents,    \* bound: sightings of a behaviour
          MaxOwnNonce,  \* bound: actions of this account on the chain
          PoolCap,      \* per-sender mempool cap
          None

ASSUME EvidenceWatcherAssumption ==
    /\ Self \in Proposers /\ Keyed \subseteq Proposers
    /\ {BacklogCap, MaxEvents, MaxOwnNonce, PoolCap} \subseteq Nat

VARIABLES stored,       \* height -> the block this node holds there, else None
          sealed,       \* heights with a finality record
          inbox,        \* dissents queued for the finality thread
          dissents,     \* DissentRecord rows: (height, voter)
          recorded,     \* dissent_recorded channel of the finality thread
          events,       \* the watcher's channel
          sent,         \* bound: sightings so far
          watcher,      \* its thread: idle, or a built action not yet pushed
          attempted,    \* fault_attempted
          pool,         \* this account's queued actions: nonce -> its content
          nonce,        \* this account's on-chain nonce
          marked,       \* EvidenceMarker rows on the chain
          disk,         \* whether the evidence directory can be written
          artifacts,    \* evidence_dir: the names of its files
          handled,      \* history: faults whose event the watcher accepted
          lost          \* history: faults whose report was not queued

dissentVars == <<inbox, dissents, recorded>>
accountVars == <<pool, nonce, marked>>
watcherVars == <<watcher, attempted, artifacts, handled, lost>>
evidenceVars == <<disk, stored, sealed, dissentVars, events, sent, accountVars, watcherVars>>

\* The blocks a proposer signed at a height and round: the one this node may have
\* committed and the one it may see beside it.
SignedBlocks(id) == [height : FaultHeights, proposer : Proposers, round : {0, 1}, id : {id}]

Operator == [fault |-> None]

EvidenceInit ==
    /\ stored = [h \in FaultHeights |-> None] /\ sealed = {}
    /\ inbox = <<>> /\ dissents = {} /\ recorded = <<>>
    /\ events = <<>> /\ sent = 0
    /\ watcher = None /\ disk \in BOOLEAN
    /\ attempted = {}
    /\ pool = <<>> /\ nonce = 0
    /\ marked = {} /\ artifacts = {}
    /\ handled = {} /\ lost = {}

-----------------------------------------------------------------------------
(* Dissents *)

Sighting == sent < MaxEvents /\ sent' = sent + 1

Dissent(h, voter) == [height |-> h, voter |-> voter]

\* PeerEvents::send: past the backlog's cap the event is dropped.
PeerEvents(d) == inbox' = IF Len(inbox) >= BacklogCap THEN inbox ELSE Append(inbox, d)

\* A peer's dissent arrives.
on_dissent(h, voter) ==
    /\ voter # Self
    /\ Sighting
    /\ PeerEvents(Dissent(h, voter))
    /\ UNCHANGED <<disk, stored, sealed, dissents, recorded, events, accountVars, watcherVars>>

\* The finality thread: a dissent is kept once per height and validator, while
\* the height has no finality record.
handle_dissent ==
    LET d == Head(inbox)
        kept == d.height \notin sealed /\ d.voter \in Keyed /\ <<d.height, d.voter>> \notin dissents
    IN  /\ inbox # <<>>
        /\ inbox' = Tail(inbox)
        /\ IF kept THEN /\ dissents' = dissents \cup {<<d.height, d.voter>>}
                        /\ recorded' = Append(recorded, d)
           ELSE UNCHANGED <<dissents, recorded>>
        /\ UNCHANGED <<disk, stored, sealed, events, sent, accountVars, watcherVars>>

\* The bridge: the disputed block is whatever block this node holds there.
dissent_record_to_evidence_event ==
    LET d == Head(recorded)
    IN  /\ recorded # <<>>
        /\ recorded' = Tail(recorded)
        /\ events' = IF stored[d.height] = None \/ d.voter \notin Keyed THEN events
                     ELSE Append(events, [kind |-> "disagreement", height |-> d.height, voter |-> d.voter])
        /\ UNCHANGED <<disk, stored, sealed, inbox, dissents, sent, accountVars, watcherVars>>

-----------------------------------------------------------------------------
(* What this node sees *)

\* Why accept_block may refuse a block.
AcceptBlockError ==
    {"Signature", "TxRootMismatch", "WrongProposer", "RoundCertificate", "NotNextHeight",
     "ContradictsCertificate", "ContradictsLock", "DeadRound", "ParentMismatch", "Timestamp",
     "Storage", "Execution", "BlockOverWeight", "ActionMismatch", "StateRootMismatch"}

\* Of a block of a height this node has, or of the next.
Refusals(b) ==
    IF stored[b.height] \notin {None, b} THEN {"NotNextHeight"}
    ELSE IF stored[b.height] = b THEN {}
    ELSE AcceptBlockError \ {"NotNextHeight"}

\* The block of a round or of a lock the height has left; a block behind the tip
\* is the third kind, and is none of FaultHeights.
is_routine_reject(err) == err \in {"DeadRound", "ContradictsLock"}

is_execution_disagreement(err) == err \in {"StateRootMismatch", "ActionMismatch"}

\* A proof of every key the refused block touched, against its parent's root.
block_dissent_claim(b, culprit) ==
    [kind |-> "divergence", height |-> b.height, proposer |-> b.proposer, culprit |-> culprit]

\* The dissent goes to the finality thread and to the watcher, with a fraud proof
\* where the touched keys can still be proved; the replay of that proof names the
\* proposer or this node.
dissent_on_execution_disagreement(b) ==
    /\ PeerEvents(Dissent(b.height, Self))
    /\ \E provable \in BOOLEAN, culprit \in {b.proposer, Self} :
          LET plain == [kind |-> "disagreement", height |-> b.height, voter |-> Self]
              proofs == IF provable THEN <<block_dissent_claim(b, culprit)>> ELSE <<>>
          IN  events' = IF Self \in Keyed THEN events \o <<plain>> \o proofs ELSE events

\* A second block for a height committed, or certified for another, is the
\* watcher's.
handle_rejected_block(b) ==
    /\ Sighting
    /\ \E err \in Refusals(b) :
          CASE is_routine_reject(err) -> UNCHANGED <<events, inbox>>
            [] is_execution_disagreement(err) -> dissent_on_execution_disagreement(b)
            [] err \in {"NotNextHeight", "ContradictsCertificate"} ->
                  events' = Append(events, [kind |-> "block", block |-> b]) /\ UNCHANGED inbox
            [] OTHER -> UNCHANGED <<events, inbox>>
    /\ UNCHANGED <<disk, stored, sealed, dissents, recorded, accountVars, watcherVars>>

\* The finality thread counted two votes of one validator: the bridge needs the
\* validator's key of that height.
vote_equivocation_bridge(h, voter, kind) ==
    /\ voter \in Keyed
    /\ Sighting
    /\ events' = Append(events, [kind |-> kind, height |-> h, proposer |-> voter, culprit |-> voter])
    /\ UNCHANGED <<disk, stored, sealed, dissentVars, accountVars, watcherVars>>

-----------------------------------------------------------------------------
(* The watcher *)

\* verify_equivocation, on blocks whose signatures verify.
verify_equivocation(a, b) ==
    a.height = b.height /\ a.round = b.round /\ a.proposer = b.proposer /\ a # b

\* Past the on-chain nonce and every queued one.
next_own_nonce == Max({nonce} \cup {n + 1 : n \in DOMAIN pool})

\* The artifacts, each under its own file name; a second one under a name
\* replaces the first.
File(name) == artifacts' = IF disk THEN artifacts \cup {name} ELSE artifacts

write_equivocation_artifact(b) == File(<<"equivocation", b.height, b.proposer>>)

write_disagreement_artifact(e) == File(<<"disagreement", e.height, e.voter>>)

write_vote_equivocation_artifact(e) == File(<<e.kind, e.height, e.proposer>>)

write_block_divergence_artifact(e) == File(<<"divergence", e.height, Self>>)

\* sign_fault_action and build_evidence_action: the nonce is read now and the
\* action pushed later.
sign_fault_action(key) == watcher' = [fault |-> key, nonce |-> next_own_nonce]

\* A block competing with the stored one: reported unless the chain has a marker.
on_block(b) ==
    LET a == stored[b.height]
        key == <<b.height, b.proposer>>
    IN  IF a = None \/ ~verify_equivocation(a, b) \/ key \in marked THEN UNCHANGED watcherVars
        ELSE /\ write_equivocation_artifact(b)
             /\ sign_fault_action(key)
             /\ handled' = handled \cup {key}
             /\ UNCHANGED <<attempted, lost>>


\* One attempt per height and culprit, the chain's own marker key.
AttemptKey(e) == <<e.height, e.proposer>>

\* A divergence is not reported when its artifact could not be written or the
\* local replay names this node.
build_execution_fault_action(e) ==
    LET key == <<e.height, e.proposer>>
    IN  IF e.kind # "divergence" \/ (disk /\ e.culprit # Self)
        THEN sign_fault_action(key) /\ UNCHANGED lost
        ELSE lost' = lost \cup {key} /\ UNCHANGED watcher

\* A divergence or a double vote: the first event of its key is attempted.
on_fault(e) ==
    /\ attempted' = attempted \cup {AttemptKey(e)}
    /\ handled' = handled \cup {<<e.height, e.proposer>>}
    /\ IF e.kind = "divergence" THEN write_block_divergence_artifact(e)
       ELSE write_vote_equivocation_artifact(e)
    /\ IF AttemptKey(e) \in attempted THEN UNCHANGED <<watcher, lost>>
       ELSE build_execution_fault_action(e)

spawn_evidence_watcher ==
    /\ watcher = None /\ events # <<>>
    /\ events' = Tail(events)
    /\ LET e == Head(events)
       IN  CASE e.kind = "block" -> on_block(e.block)
             [] e.kind = "disagreement" ->
                    /\ write_disagreement_artifact(e)
                    /\ UNCHANGED <<watcher, attempted, handled, lost>>
             [] OTHER -> on_fault(e)
    /\ UNCHANGED <<disk, stored, sealed, dissentVars, sent, accountVars>>

\* The push fails when the nonce was taken meanwhile or the sender's share of the
\* queue is full; nothing tries again.
push ==
    LET free == watcher.nonce \notin DOMAIN pool /\ Cardinality(DOMAIN pool) < PoolCap
    IN  /\ watcher # None
        /\ IF free THEN pool' = (watcher.nonce :> watcher) @@ pool /\ UNCHANGED lost
           ELSE lost' = lost \cup {watcher.fault} /\ UNCHANGED pool
        /\ watcher' = None
        /\ UNCHANGED <<disk, stored, sealed, dissentVars, events, sent, nonce, marked, attempted,
                       artifacts, handled>>

-----------------------------------------------------------------------------
(* The account, and the chain *)

\* sign_and_submit (arxd pair): the on-chain nonce alone is read.
operator_submits ==
    /\ nonce \notin DOMAIN pool /\ Cardinality(DOMAIN pool) < PoolCap
    /\ nonce < MaxOwnNonce
    /\ pool' = (nonce :> Operator) @@ pool
    /\ UNCHANGED <<disk, stored, sealed, dissentVars, events, sent, nonce, marked, watcherVars>>

\* A block includes the account's next action; a report marks its fault, and one
\* for a marked fault fails without advancing the nonce.
include ==
    LET a == pool[nonce]
        again == a.fault # None /\ a.fault \in marked
    IN  /\ nonce \in DOMAIN pool
        /\ nonce < MaxOwnNonce
        /\ pool' = [n \in DOMAIN pool \ {nonce} |-> pool[n]]
        /\ marked' = IF a.fault = None THEN marked ELSE marked \cup {a.fault}
        /\ nonce' = IF again THEN nonce ELSE nonce + 1
        /\ UNCHANGED <<disk, stored, sealed, dissentVars, events, sent, watcherVars>>

\* A peer's report is included first.
marked_by_peer(h, culprit) ==
    /\ <<h, culprit>> \in handled \ marked
    /\ marked' = marked \cup {<<h, culprit>>}
    /\ UNCHANGED <<disk, stored, sealed, dissentVars, events, sent, pool, nonce, watcherVars>>

\* This node commits a block at a height, or unwinds it while it is not final.
commit_or_unwind(h, b) ==
    /\ (stored[h] = None) # (b = None)
    /\ h \notin sealed
    /\ sent < MaxEvents
    /\ stored' = [stored EXCEPT ![h] = b]
    /\ UNCHANGED <<disk, sealed, dissentVars, events, sent, accountVars, watcherVars>>

seal(h) ==
    /\ stored[h] # None /\ h \notin sealed
    /\ inbox # <<>>
    /\ sealed' = sealed \cup {h}
    /\ UNCHANGED <<disk, stored, dissentVars, events, sent, accountVars, watcherVars>>

EvidenceNext ==
    \/ \E b \in SignedBlocks(2) : handle_rejected_block(b)
    \/ \E h \in FaultHeights, v \in Proposers : on_dissent(h, v)
    \/ handle_dissent
    \/ dissent_record_to_evidence_event
    \/ \E h \in FaultHeights, v \in Proposers, k \in {"prevote", "precommit"} :
          vote_equivocation_bridge(h, v, k)
    \/ spawn_evidence_watcher
    \/ push
    \/ operator_submits
    \/ include
    \/ \E h \in FaultHeights, c \in Proposers : marked_by_peer(h, c)
    \/ \E h \in FaultHeights : commit_or_unwind(h, None) \/ seal(h)
    \/ \E b \in SignedBlocks(1) : commit_or_unwind(b.height, b)

-----------------------------------------------------------------------------

=============================================================================
