------------------------------ MODULE Mempool ------------------------------
(* The queue of pending actions (core/mempool).  A pool is a record          *)
(*   [pending, seen, signatures, total_bytes, per_sender, dropped]           *)
(* and each method of Mempool an operator on it.  The four indexes are kept  *)
(* by hand beside the queue, as in the code, so that what ties them to it is *)
(* a property and not a definition.  An action stands for its signature too. *)
EXTENDS Naturals, Sequences, SequencesExt, FiniteSets, FiniteSetsExt, Functions, TLC

CONSTANTS
  Size,            \* encoded_size: a function of the action's kind
  max_pending, max_pending_bytes, max_per_sender,
  DROPPED_RING,    \* how many reasons of dropped actions are remembered
  max_nonce_gap

encoded_size(a) == Size[a.kind]

Slot(a) == <<a.sender, a.nonce>>

Bytes(s) == FoldLeft(LAMBDA n, a : n + encoded_size(a), 0, s)

EmptyPool == [pending |-> <<>>, seen |-> {}, signatures |-> {}, total_bytes |-> 0,
              per_sender |-> <<>>, dropped |-> <<>>]

Queued(p, sender) == IF sender \in DOMAIN p.per_sender THEN p.per_sender[sender] ELSE 0

\* The indexes after one action has taken its slot.
TakeSlot(p, a) ==
  [p EXCEPT !.seen = @ \cup {Slot(a)},
            !.signatures = @ \cup {a},
            !.total_bytes = @ + encoded_size(a),
            !.per_sender = (a.sender :> Queued(p, a.sender) + 1) @@ @]

\* release_slot and the removals around it; a sender with nothing queued
\* leaves the map.
release_slot(p, a) ==
  [p EXCEPT !.seen = @ \ {Slot(a)},
            !.signatures = @ \ {a},
            !.total_bytes = @ - encoded_size(a),
            !.per_sender = IF @[a.sender] = 1 THEN Restrict(@, DOMAIN @ \ {a.sender})
                           ELSE [@ EXCEPT ![a.sender] = @ - 1]]

\* What push refuses: a full queue, too many bytes, a sender's full share, and
\* a second action for a queued (sender, nonce).
CanPush(p, a) ==
  /\ Len(p.pending) < max_pending
  /\ p.total_bytes + encoded_size(a) <= max_pending_bytes
  /\ Queued(p, a.sender) < max_per_sender
  /\ Slot(a) \notin p.seen

push(p, a) ==
  [TakeSlot(p, a) EXCEPT !.pending = Append(@, a),
                         !.dropped = SelectSeq(@, LAMBDA d : d # a)]

\* Mutant of requeue_front: the resubmitted copy does not win, both are kept.
requeue_frontMutant(p, s) ==
  FoldLeft(LAMBDA q, a : [TakeSlot(q, a) EXCEPT !.pending = <<a>> \o @], p, Reverse(s))

\* Deferred actions go back to the front in their order, past every cap; one
\* whose slot was taken meanwhile is let go.
requeue_front(p, s) ==
  FoldLeft(LAMBDA q, a : IF Slot(a) \in q.seen THEN q
                         ELSE [TakeSlot(q, a) EXCEPT !.pending = <<a>> \o @],
           p, Reverse(s))

\* How many actions a block may take: the first always, more while both the
\* count and the bytes allow.
DrainCount(s, max, max_bytes) ==
  Max({0} \cup {n \in 1 .. Len(s) :
                  /\ n <= max
                  /\ n = 1 \/ Bytes(SubSeq(s, 1, n)) <= max_bytes})

\* Drops what is left of the queue's indexes for the actions taken out of it.
Without(p, out, left) ==
  [FoldLeft(LAMBDA q, a : release_slot(q, a), p, out) EXCEPT !.pending = left]

drain_pending_within(p, n) ==
  Without(p, SubSeq(p.pending, 1, n), SubSeq(p.pending, n + 1, Len(p.pending)))

\* Mutant of purge_stale: the action that has just become current goes too.
purge_staleMutant(p, sender, current_nonce) ==
  LET Stale(a) == a.sender = sender /\ a.nonce <= current_nonce
  IN  Without(p, SelectSeq(p.pending, Stale), SelectSeq(p.pending, LAMBDA a : ~ Stale(a)))

\* Actions of the sender below its new nonce can never apply and are dropped.
purge_stale(p, sender, current_nonce) ==
  LET Stale(a) == a.sender = sender /\ a.nonce < current_nonce
  IN  Without(p, SelectSeq(p.pending, Stale), SelectSeq(p.pending, LAMBDA a : ~ Stale(a)))

\* note_dropped: a ring of the latest refusals.
note_dropped(p, s) ==
  LET d == p.dropped \o s
  IN  [p EXCEPT !.dropped = SubSeq(d, Max({1, Len(d) - DROPPED_RING + 1}), Len(d))]

\* next_nonce: the nonce this node signs its own next action with.
next_nonce(p, sender, on_chain) ==
  Max({on_chain} \cup {a.nonce + 1 : a \in {x \in Range(p.pending) : x.sender = sender}})

=============================================================================
