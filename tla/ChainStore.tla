----------------------------- MODULE ChainStore -----------------------------
(***************************************************************************)
(* One node's RocksDB chain database (core/storage): block commits with    *)
(* their undo records, finality certificates and the contiguous final      *)
(* watermark, revert_to, block pruning, snapshot export and import, and    *)
(* what a crash keeps of writes that were not fsync'd.                     *)
(*                                                                         *)
(* The database is a function from the rows it holds to their values, a    *)
(* row being a tuple that starts with the row's prefix.  A block is the    *)
(* sequence of payloads from genesis up to it, so it stands for its hash,  *)
(* and its prefixes for its ancestors' hashes.  A state root is the state  *)
(* it commits to.  The meta:precommit and meta:roundtimeout rows are       *)
(* treated exactly as the meta:roundcert rows modelled here.               *)
(***************************************************************************)
EXTENDS Integers, Sequences, FiniteSets, TLC, SequencesExt, FiniteSetsExt

CONSTANTS Payloads,     \* what a block may carry
          StateKeys,    \* merkleized state rows
          Puts,         \* the state keys a payload writes
          Deletes,      \* the state keys a payload deletes
          Retain,       \* undo_retain: undo records kept below the watermark
          MaxHeight,    \* bound: the highest block of a behaviour
          MaxUnsynced,  \* bound: writes not yet fsync'd (a sync page)
          Decided,      \* the chain the network's quorums finalize
          Absent        \* the value of a row the database does not hold

ASSUME ChainStoreAssumption ==
    /\ Payloads # {}
    /\ Puts \in [Payloads -> SUBSET StateKeys]
    /\ Deletes \in [Payloads -> SUBSET StateKeys]
    /\ Retain \in Nat
    /\ MaxHeight \in Nat \ {0}
    /\ MaxUnsynced \in Nat
    /\ Decided \in [1..MaxHeight -> Payloads]

VARIABLES db,       \* the rows, as every reader in this process sees them
          wal,      \* the database images a crash may come back with
          wiped,    \* the block of a snapshot import between its two writes
          base      \* height of the snapshot this node joined from, else 0

vars == <<db, wal, wiped, base>>

Chains == UNION {[1..n -> Payloads] : n \in 0..MaxHeight}

Ancestor(b, h) == SubSeq(b, 1, h)

-----------------------------------------------------------------------------
(* Rows *)

BlockKey(h) == <<"block", h>>
HashKey(b) == <<"block_hash", b>>
StateKey(k) == <<"state", k>>
UndoKey(h) == <<"undo", h>>
FinalityKey(h) == <<"finality", h>>
RoundKey(h) == <<"roundcert", h>>
PolKey(h) == <<"pol", h>>
TipKey == <<"tip_height">>
RootKey == <<"merkle_root">>
WatermarkKey == <<"final_watermark">>

Get(s, k) == IF k \in DOMAIN s THEN s[k] ELSE Absent

\* A write batch: rows put and rows deleted, applied at once.
Batch(s, puts, dels) ==
    puts @@ [k \in DOMAIN s \ dels |-> s[k]]

Tip(s) == IF TipKey \in DOMAIN s THEN s[TipKey] ELSE 0

get_final_watermark(s) == IF WatermarkKey \in DOMAIN s THEN s[WatermarkKey] ELSE 0

\* The merkleized rows, which are also what their trie root commits to.
StateRows(s) ==
    LET rows == DOMAIN s \cap {StateKey(k) : k \in StateKeys}
    IN  [k \in rows |-> s[k]]

saturating_sub(a, b) == IF a > b THEN a - b ELSE 0

-----------------------------------------------------------------------------
(* What a block does to the state, and the reference: the state a chain of *)
(* blocks leaves when it is executed from genesis.                         *)

GenesisRows == [k \in {StateKey(x) : x \in StateKeys} |-> <<>>]

\* A value names the block that wrote it, so two histories never agree by chance.
BlockPuts(b) == [k \in {StateKey(x) : x \in Puts[Last(b)]} |-> b]

BlockDeletes(b) == {StateKey(x) : x \in Deletes[Last(b)] \ Puts[Last(b)]}

Replay[b \in Chains] ==
    IF b = <<>> THEN GenesisRows
    ELSE Batch(Replay[Front(b)], BlockPuts(b), BlockDeletes(b))

\* A header's state_root.
state_root(b) == Replay[b]

-----------------------------------------------------------------------------
(* The contiguous watermark *)

\* The block certified at `h` once `incoming` lands on `s`.
CertifiedAt(s, incoming, h) ==
    IF h \in DOMAIN incoming THEN incoming[h] ELSE Get(s, FinalityKey(h))

\* Mutant of AdvancesTo: whether the certified block is held is not asked.
AdvancesToMutant(s, incoming, h) == CertifiedAt(s, incoming, h) # Absent

\* The watermark moves to next only where this node indexes the certified block.
AdvancesTo(s, incoming, h) ==
    LET b == CertifiedAt(s, incoming, h)
    IN  b # Absent /\ Get(s, HashKey(b)) = h

Advanced(s, incoming) ==
    LET start == get_final_watermark(s)
    IN  Max({w \in start..MaxHeight : \A h \in (start + 1)..w : AdvancesTo(s, incoming, h)})

\* Undo records dropped as the watermark moves from start to watermark.
SpentUndo(start, watermark) ==
    {UndoKey(h) : h \in (saturating_sub(start, Retain) + 1)..saturating_sub(watermark, Retain)}

\* write_batches_opt: the rows, then what stage_watermark_advance adds to the
\* batch from the database as it was before it.
stage_watermark_advance(s, incoming, puts, dels) ==
    LET start == get_final_watermark(s)
        watermark == Advanced(s, incoming)
    IN  IF watermark = start THEN Batch(s, puts, dels)
        ELSE Batch(s, (WatermarkKey :> watermark) @@ puts,
                   dels \cup SpentUndo(start, watermark))

-----------------------------------------------------------------------------
(* Durability: a write is visible at once; until an fsync a crash may lose *)
(* it, together with every later write.                                    *)

Write(s, sync) ==
    /\ db' = s
    /\ wal' = IF sync THEN <<s>> ELSE Append(wal, s)
    /\ sync \/ Len(wal) <= MaxUnsynced

Ready == wiped = Absent

\* Mutant of UndoRecord: a row that did not exist before is not recorded.
UndoRecordMutant(s, touched) == [k \in (touched \cap DOMAIN s) \cup {RootKey} |-> Get(s, k)]

\* The undo record of a batch: the prior value of every row it touches.
UndoRecord(s, touched) == [k \in touched \cup {RootKey} |-> Get(s, k)]

\* write_block_batches: the one batch that commits a block, its state changes,
\* its indexes and its undo record.  accept_block and the producer both end
\* here, after checking the state root; the producer consults no certificate,
\* so neither does this action.
write_block_batches(b, sync) ==
    LET h == Len(b)
        rows == BlockPuts(b) @@ (BlockKey(h) :> b) @@ (HashKey(b) :> h) @@ (TipKey :> h)
        dels == BlockDeletes(b)
        root == StateRows(Batch(db, rows, dels))
        undo == UndoRecord(db, DOMAIN rows \cup dels)
        puts == rows @@ (RootKey :> root) @@ (UndoKey(h) :> undo)
    IN  /\ Ready
        /\ h <= MaxHeight
        /\ root = state_root(b)
        /\ Write(stage_watermark_advance(db, <<>>, puts, dels), sync)
        /\ UNCHANGED <<wiped, base>>

\* tally_vote's record, or one certificate fetched from a peer: for any height,
\* whether or not the certified block is held.
write_certificate(h) ==
    LET b == Ancestor(Decided, h)
    IN  /\ Ready
        /\ FinalityKey(h) \notin DOMAIN db
        /\ Write(stage_watermark_advance(db, h :> b, FinalityKey(h) :> b, {}), TRUE)
        /\ UNCHANGED <<wiped, base>>

\* The watermark backfill: a page of certificates from watermark + 1, kept as
\* far as they name the blocks this node holds.
write_certificate_page(last) ==
    LET from == get_final_watermark(db) + 1
        page == [h \in from..last |-> Ancestor(Decided, h)]
    IN  /\ Ready
        /\ from < last /\ last <= Tip(db)
        /\ \A h \in from..last : Get(db, BlockKey(h)) = page[h]
        /\ Write(stage_watermark_advance(db, page,
                     [k \in {FinalityKey(h) : h \in from..last} |-> page[k[2]]], {}), TRUE)
        /\ UNCHANGED <<wiped, base>>

\* tally_round_timeout: a round row binds the parent block this node holds.
write_round(h) ==
    /\ Ready
    /\ BlockKey(h - 1) \in DOMAIN db
    /\ RoundKey(h) \notin DOMAIN db
    /\ Write(Batch(db, RoundKey(h) :> db[BlockKey(h - 1)], {}), TRUE)
    /\ UNCHANGED <<wiped, base>>

\* tally_prevote: a lock, for a height not finalized here.
write_pol(h) ==
    /\ Ready
    /\ FinalityKey(h) \notin DOMAIN db
    /\ PolKey(h) \notin DOMAIN db
    /\ Write(Batch(db, PolKey(h) :> h, {}), TRUE)
    /\ UNCHANGED <<wiped, base>>

\* The finality thread drops locks that finality has spent.
delete_pols_through ==
    LET spent == {PolKey(h) : h \in 1..get_final_watermark(db)} \cap DOMAIN db
    IN  /\ Ready
        /\ spent # {}
        /\ Write(Batch(db, <<>>, spent), FALSE)
        /\ UNCHANGED <<wiped, base>>

\* flush_wal, at the end of a sync page.
flush_wal ==
    /\ Len(wal) > 1
    /\ wal' = <<db>>
    /\ UNCHANGED <<db, wiped, base>>

-----------------------------------------------------------------------------
(* revert_to, prune, and snapshots *)

\* The undo record that decides a row when the heights of `hs` are unwound from
\* the highest down: the lowest one that touches it writes last.
Deciding(s, k, hs) == Min({h \in hs : k \in DOMAIN s[UndoKey(h)]})

\* The prior value of every row the heights of `hs` touched.
Unwound(s, hs) ==
    [k \in UNION {DOMAIN s[UndoKey(h)] : h \in hs} |-> s[UndoKey(Deciding(s, k, hs))][k]]

\* Round and lock rows above height + 1 bind parents that are going away.
OrphanedRounds(s, height) ==
    {k \in DOMAIN s : k[1] \in {"roundcert", "pol"} /\ k[2] >= height + 2}

HasUndo(s, hs) == \A h \in hs : UndoKey(h) \in DOMAIN s

\* Whether revert_to(height) succeeds; otherwise it writes nothing.
Revertible(s, height) ==
    LET hs == (height + 1)..Tip(s)
    IN  /\ height < Tip(s)
        /\ height >= get_final_watermark(s)
        /\ BlockKey(height) \in DOMAIN s
        /\ HasUndo(s, hs)
        /\ Unwound(s, hs)[RootKey] = state_root(s[BlockKey(height)])

Reverted(s, height) ==
    LET hs == (height + 1)..Tip(s)
        prior == Unwound(s, hs)
        kept == {k \in DOMAIN prior : prior[k] # Absent}
    IN  Batch(s, [k \in kept |-> prior[k]],
              (DOMAIN prior \ kept) \cup {UndoKey(h) : h \in hs} \cup OrphanedRounds(s, height))

revert_to(height) ==
    /\ Ready
    /\ Revertible(db, height)
    /\ Write(Reverted(db, height), TRUE)
    /\ UNCHANGED <<wiped, base>>

\* Mutant of PrunedRows: the cutoff is clamped to the tip.
PrunedRowsMutant(s, cutoff) ==
    LET below == {h \in 0..(Min({cutoff, Tip(s)}) - 1) : BlockKey(h) \in DOMAIN s}
    IN  {BlockKey(h) : h \in below} \cup {HashKey(s[BlockKey(h)]) : h \in below}

\* What the `prune` command deletes: bodies and hash index strictly below the
\* cutoff, clamped to the watermark.
PrunedRows(s, cutoff) ==
    LET below == {h \in 0..(Min({cutoff, get_final_watermark(s)}) - 1) : BlockKey(h) \in DOMAIN s}
    IN  {BlockKey(h) : h \in below} \cup {HashKey(s[BlockKey(h)]) : h \in below}

prune(cutoff) ==
    /\ Ready
    /\ PrunedRows(db, cutoff) # {}
    /\ Write(Batch(db, <<>>, PrunedRows(db, cutoff)), FALSE)
    /\ UNCHANGED <<wiped, base>>

\* is_snapshot_key: the rows of `s` that a snapshot carries.
is_snapshot_key(k) == k[1] \in {"state", "pol"}

\* state_at: the snapshot rows as of `height`, or Absent when the undo records
\* that lead back to it are gone.
state_at(s, height) ==
    LET hs == (height + 1)..Tip(s)
        prior == Unwound(s, hs)
        value == [k \in {r \in DOMAIN s \cup DOMAIN prior : is_snapshot_key(r)} |->
                    IF k \in DOMAIN prior THEN prior[k] ELSE s[k]]
    IN  IF TipKey \notin DOMAIN s \/ height > Tip(s) \/ ~HasUndo(s, hs) THEN Absent
        ELSE [k \in {r \in DOMAIN value : value[r] # Absent} |-> value[k]]

\* import_snapshot, first write: a node still at genesis drops every row but
\* its blocks.  `b` is the operator's anchor, which the network finalized.
import_wipe(b) ==
    /\ Ready
    /\ Tip(db) = 0
    /\ b # <<>> /\ b = Ancestor(Decided, Len(b))
    /\ Write([k \in {r \in DOMAIN db : r[1] \in {"block", "block_hash"}} |-> db[k]], FALSE)
    /\ wiped' = b
    /\ UNCHANGED base

\* import_snapshot, second write: the downloaded rows, which include the
\* serving node's locks at the heights `pols`, and the anchor block with its
\* certificate, tip and watermark.
import_entries(pols) ==
    LET h == Len(wiped)
        entries == state_root(wiped) @@ [k \in {PolKey(x) : x \in pols} |-> k[2]]
        own == (BlockKey(h) :> wiped) @@ (HashKey(wiped) :> h) @@ (TipKey :> h)
                 @@ (FinalityKey(h) :> wiped) @@ (WatermarkKey :> h)
                 @@ (RootKey :> state_root(wiped))
    IN  /\ ~Ready
        /\ Write(Batch(db, own @@ entries, {}), TRUE)
        /\ wiped' = Absent
        /\ base' = h

\* Genesis rows are seeded again on a database that lost meta:height.
write_genesis(s) ==
    IF RootKey \in DOMAIN s THEN s
    ELSE Batch(s, (RootKey :> GenesisRows) @@ GenesisRows, {})

\* A crash keeps a prefix of the writes since the last fsync; the node then
\* boots on what is left.
Restart ==
    /\ \E i \in DOMAIN wal : db' = write_genesis(wal[i])
    /\ wal' = <<db'>>
    /\ wiped' = Absent
    /\ UNCHANGED base

-----------------------------------------------------------------------------

Init ==
    /\ db = (BlockKey(0) :> <<>>) @@ (HashKey(<<>>) :> 0) @@ (TipKey :> 0)
               @@ (RootKey :> GenesisRows) @@ GenesisRows
    /\ wal = <<db>>
    /\ wiped = Absent
    /\ base = 0

Heights == 1..MaxHeight

Next ==
    \/ \E p \in Payloads, sync \in BOOLEAN :
           Ready /\ write_block_batches(Append(db[BlockKey(Tip(db))], p), sync)
    \/ \E h \in Heights : write_certificate(h)
    \/ \E h \in Heights : write_certificate_page(h)
    \/ \E h \in Heights : write_round(h)
    \/ \E h \in Heights : write_pol(h)
    \/ delete_pols_through
    \/ flush_wal
    \/ \E h \in 0..MaxHeight : revert_to(h)
    \/ \E h \in Heights : prune(h)
    \/ \E b \in Chains : import_wipe(b)
    \/ ~Ready /\ \E pols \in SUBSET {Len(wiped) + 1} : import_entries(pols)
    \/ Restart

Spec == Init /\ [][Next]_vars

-----------------------------------------------------------------------------
(* Properties *)

\* The chain this node holds: its tip block and that block's ancestors.
Held(h) == Ancestor(db[BlockKey(Tip(db))], h)

Rows == {BlockKey(h) : h \in 0..MaxHeight} \cup {HashKey(b) : b \in Chains}
          \cup {StateKey(k) : k \in StateKeys} \cup {UndoKey(h) : h \in Heights}
          \cup {FinalityKey(h) : h \in Heights} \cup {RoundKey(h) : h \in Heights}
          \cup {PolKey(h) : h \in 1..(MaxHeight + 1)} \cup {TipKey, RootKey, WatermarkKey}

\* The database holds only rows of the schema, heights are in range, the tip
\* block is always on disk, also after a crash, and what a crash can bring back
\* ends with what the process sees.
TypeOK ==
    /\ DOMAIN db \subseteq Rows
    /\ Tip(db) \in 0..MaxHeight
    /\ get_final_watermark(db) \in 0..Tip(db)
    /\ Get(db, BlockKey(Tip(db))) \in Chains
    /\ wal # <<>> /\ Last(wal) = db
    /\ wiped \in Chains \cup {Absent}
    /\ base \in 0..MaxHeight

\* The watermark is a floor on this node's own history: up to it the node holds
\* exactly the blocks the network's quorums certified, whatever blocks it
\* diverged onto, whatever order certificates arrived in, and after any revert,
\* crash or snapshot import (stage_watermark_advance, revert_to).
FinalPrefixIsDecided ==
    LET w == get_final_watermark(db) IN w <= Tip(db) /\ Held(w) = Ancestor(Decided, w)

\* The undo log is exact: unwinding from the tip gives, at every height it still
\* reaches, the state that executing that height's chain from genesis gives;
\* and it reaches every height from undo_retain below the watermark up, so a
\* block disputed at the end of its challenge window can still be rebased
\* (write_batches_opt, stage_watermark_advance, state_at).
StateAtIsReplay ==
    LET w == get_final_watermark(db)
    IN  Ready =>
          /\ StateRows(db) = Replay[Held(Tip(db))]
          /\ TipKey \in DOMAIN db =>
               \A h \in 0..Tip(db) :
                 LET rows == state_at(db, h)
                 IN  /\ rows # Absent => StateRows(rows) = Replay[Held(h)]
                     /\ h >= base /\ h >= w - Retain => rows # Absent

\* Divergence recovery can always act: from any reachable database revert_to
\* succeeds for every height from the watermark up to the tip, pruned or not,
\* crashed or not, joined from a snapshot or not (revert_to, prune).
RecoveryIsPossible ==
    Ready => \A h \in get_final_watermark(db)..(Tip(db) - 1) : Revertible(db, h)

=============================================================================
