-------------------------------- MODULE Boot --------------------------------
(***************************************************************************)
(* From `arxd` on the command line to a node that serves: the data          *)
(* directory and its genesis, the key files, and the slashing-protection    *)
(* record, on one base path.  A process runs the steps of its command in    *)
(* order and may be killed between any two; the node and a subcommand may   *)
(* run at once; and between runs the operator wipes or restores a data      *)
(* directory, boots another chain, or takes a network through a genesis     *)
(* reset.                                                                   *)
(*                                                                          *)
(* A genesis is named by its state root.  A root stands for the rows that   *)
(* hash to it, so `rows` is both what was installed and what                *)
(* compute_state_root answers at height 0.                                  *)
(***************************************************************************)
EXTENDS Naturals, Sequences, SequencesExt

CONSTANTS ChainNames,     \* the data directories under the base path
          Genesis,        \* chain name -> its genesis roots, one per reset of the network
          Formats,        \* chain name -> how --chain may name it: "plain", "raw", "stale"
          Stale,          \* a root that nothing hashes to: what a stale raw spec declares
          Unset,          \* no row, no file, no record
          Processes,      \* `arxd` processes that may run at once
          Runs,           \* process -> the commands it may be started with
          MaxStarts,      \* process -> bound: how often it is started
          MaxSigned       \* bound: highest block height

VARIABLES data,           \* chain name -> its database
          checkpoint,     \* chain name -> a checkpoint an operator took of it
          key,            \* key file -> its contents
          record,         \* directory -> its signed_height file
          network,        \* chain name -> how often the network was reset
          process,        \* process -> what it is doing
          starts,         \* bound
          signed_to       \* history: genesis -> highest height signed under it

bootVars == <<data, checkpoint, key, record, network, process, starts, signed_to>>

KeyFiles == {"validator.key", "validator.bls.key", "network.key"}

Empty == [rows |-> Unset, block0 |-> Unset, hash |-> Unset, effects |-> FALSE, tip |-> 0]

Exited == [command |-> "none", todo |-> <<>>]

AllRoots == {Stale} \cup UNION {Range(Genesis[n]) : n \in ChainNames}

\* Before a node kept its record per chain it kept one file in the base path.
BootInit ==
    /\ data = [n \in ChainNames |-> Empty]
    /\ checkpoint = [n \in ChainNames |-> Empty]
    /\ key = [f \in KeyFiles |-> Unset]
    /\ \E n \in ChainNames, old \in BOOLEAN :
          LET root == Genesis[n][1]
          IN  /\ record = [d \in ChainNames \cup {"base"} |->
                              IF old /\ d = "base" THEN [genesis |-> root, last |-> 1] ELSE Unset]
              /\ signed_to = [r \in AllRoots |-> IF old /\ r = root THEN 1 ELSE 0]
    /\ network = [n \in ChainNames |-> 1]
    /\ process = [p \in Processes |-> Exited]
    /\ starts = [p \in Processes |-> 0]

-----------------------------------------------------------------------------
(* Chain specs and commands *)

\* What --chain may resolve to: the network's current genesis, as the plain spec
\* or as the raw one derived from it.  A raw spec that went stale declares a root
\* its entries do not hash to.
ChainSpec(n, f) ==
    LET root == Genesis[n][network[n]]
    IN  [name |-> n, format |-> f, root |-> IF f = "stale" THEN Stale ELSE root, entries |-> root]

Install(spec) ==
    IF spec.format = "plain" THEN <<"write_plain", "block0", "hash", "effects">>
                             ELSE <<"write_raw", "verify_raw", "hash", "effects">>

new_partial(spec) == <<"open">> \o Install(spec) \o <<"tip">>

signing_keys == <<"validator.key", "validator.bls.key">>

run_node(spec, is_validator) ==
    new_partial(spec) \o (IF is_validator THEN signing_keys \o <<"slashing">> ELSE <<>>)
                      \o <<"network.key", "serve">>

cmd_keys == signing_keys \o <<"network.key">>

cmd_node_key == <<"network.key">>

cmd_validator_key == <<"validator.key">>

cmd_bls_key == <<"validator.bls.key">>

cmd_pair == <<"validator.key", "pair">>

cmd_snapshot(spec) == <<"open_existing">> \o new_partial(spec) \o <<"export">>

cmd_prune(spec) == <<"open_existing">> \o new_partial(spec) \o <<"prune">>

\* The subcommands that only need the base path.
KeyCommand ==
    [keys |-> cmd_keys, node_key |-> cmd_node_key, validator_key |-> cmd_validator_key,
     bls_key |-> cmd_bls_key, pair |-> cmd_pair]

\* Those that open a chain.  chain-info and chain-spec open and write nothing.
ChainCommand(spec) ==
    [validator |-> run_node(spec, TRUE), observer |-> run_node(spec, FALSE),
     snapshot |-> cmd_snapshot(spec), prune |-> cmd_prune(spec)]

-----------------------------------------------------------------------------
(* The process *)

Names(p, n) ==
    process[p] # Exited /\ process[p].spec # Unset /\ process[p].spec.name = n

\* A process has the database open from "open" to its end; RocksDB admits one.
Locked(n) == \E p \in Processes : process[p].command # "none" /\ process[p].opened = n

Started(command, steps, spec) ==
    [command |-> command, todo |-> steps, spec |-> spec, opened |-> Unset, fresh |-> FALSE,
     genesis |-> Unset, drawn |-> FALSE, held |-> [f \in KeyFiles |-> Unset], last |-> 0]

run(p) ==
    /\ process[p] = Exited
    /\ starts[p] < MaxStarts[p]
    /\ \E c \in Runs[p] :
          \/ /\ c \in DOMAIN KeyCommand
             /\ process' = [process EXCEPT ![p] = Started(c, KeyCommand[c], Unset)]
          \/ \E n \in ChainNames : \E f \in Formats[n] :
                LET spec == ChainSpec(n, f)
                IN  /\ c \in DOMAIN ChainCommand(spec)
                    /\ process' = [process EXCEPT ![p] = Started(c, ChainCommand(spec)[c], spec)]
    /\ starts' = [starts EXCEPT ![p] = @ + 1]
    /\ UNCHANGED <<data, checkpoint, key, record, network, signed_to>>

At(p, step) == process[p].todo # <<>> /\ Head(process[p].todo) = step

Advance(p, with) ==
    process' = [process EXCEPT ![p] =
                   IF Len(@.todo) = 1 THEN Exited ELSE [with EXCEPT !.todo = Tail(@)]]

\* `?` in any step ends the process; so does a kill.
Exit(p) == process' = [process EXCEPT ![p] = Exited]

crash(p) ==
    /\ process[p] # Exited
    /\ Exit(p)
    /\ UNCHANGED <<data, checkpoint, key, record, network, starts, signed_to>>

FilesUnchanged == UNCHANGED <<checkpoint, key, record, network, starts, signed_to>>

-----------------------------------------------------------------------------
(* Genesis *)

is_initialized(d) == d.rows # Unset


check_same_genesis(installed, spec) == installed = spec

open(p) ==
    LET n == process[p].spec.name
    IN  /\ At(p, "open")
        /\ IF Locked(n) THEN Exit(p) ELSE Advance(p, [process[p] EXCEPT !.opened = n])
        /\ UNCHANGED data /\ FilesUnchanged

\* The handle it looks through is dropped before new_partial opens its own.
open_existing(p) ==
    LET n == process[p].spec.name
    IN  /\ At(p, "open_existing")
        /\ IF Locked(n) \/ ~is_initialized(data[n]) THEN Exit(p) ELSE Advance(p, process[p])
        /\ UNCHANGED data /\ FilesUnchanged

\* The snapshot and the validators' BLS keys, in one batch.
install_plain(d, spec) == IF is_initialized(d) THEN d ELSE [d EXCEPT !.rows = spec.root]

\* A database with a block 0 must be the spec's.
write_plain(p) ==
    LET s == process[p].spec
        d == data[s.name]
    IN  /\ At(p, "write_plain")
        /\ IF d.block0 # Unset /\ ~check_same_genesis(d.block0, s.root)
           THEN Exit(p) /\ UNCHANGED data
           ELSE Advance(p, process[p]) /\ data' = [data EXCEPT ![s.name] = install_plain(d, s)]
        /\ FilesUnchanged

\* Block 0 takes the root of the rows there are; its root is the chain's identity.
install_block_zero(p) ==
    LET n == process[p].spec.name
        root == IF data[n].block0 = Unset THEN data[n].rows ELSE data[n].block0
    IN  /\ At(p, "block0")
        /\ data' = [data EXCEPT ![n].block0 = root]
        /\ Advance(p, [process[p] EXCEPT !.genesis = root])
        /\ FilesUnchanged

\* The entries of a raw spec are a whole genesis: rows, block 0, hash and effects.
write_raw(p) ==
    LET s == process[p].spec
        fresh == ~is_initialized(data[s.name])
    IN  /\ At(p, "write_raw")
        /\ data' = IF ~fresh THEN data
                   ELSE [data EXCEPT ![s.name] = [rows |-> s.entries, block0 |-> s.root,
                                                  hash |-> s.root, effects |-> TRUE, tip |-> 0]]
        /\ Advance(p, [process[p] EXCEPT !.fresh = fresh])
        /\ FilesUnchanged

verify_raw(p) ==
    LET s == process[p].spec
        d == data[s.name]
    IN  /\ At(p, "verify_raw")
        /\ IF /\ process[p].fresh => d.rows = s.root
              /\ d.block0 # Unset
              /\ check_same_genesis(d.block0, s.root)
           THEN Advance(p, [process[p] EXCEPT !.genesis = s.root]) ELSE Exit(p)
        /\ UNCHANGED data /\ FilesUnchanged

seed_genesis_hash(p) ==
    LET n == process[p].spec.name
    IN  /\ At(p, "hash")
        /\ data' = IF data[n].hash # Unset THEN data
                   ELSE [data EXCEPT ![n].hash = data[n].block0]
        /\ Advance(p, process[p])
        /\ FilesUnchanged

seed_genesis_effects(p) ==
    /\ At(p, "effects")
    /\ data' = [data EXCEPT ![process[p].spec.name].effects = TRUE]
    /\ Advance(p, process[p])
    /\ FilesUnchanged

\* The tip's signature covers the genesis it was made under.
verify_tip(p) ==
    LET d == data[process[p].spec.name]
    IN  /\ At(p, "tip")
        /\ IF d.tip = 0 \/ d.block0 = process[p].genesis
           THEN Advance(p, process[p]) ELSE Exit(p)
        /\ UNCHANGED data /\ FilesUnchanged

-----------------------------------------------------------------------------
(* Key files *)

KeysUnchanged == UNCHANGED <<data, checkpoint, record, network, starts, signed_to>>

\* An existing file is read; a file that was created and never filled does not
\* decode.
load_or_generate_hex_seed(p, f) ==
    /\ At(p, f) /\ ~process[p].drawn
    /\ IF key[f] = Unset THEN process' = [process EXCEPT ![p].drawn = TRUE]
       ELSE IF key[f].seed = Unset THEN Exit(p)
       ELSE Advance(p, [process[p] EXCEPT !.held[f] = key[f].seed])
    /\ UNCHANGED key /\ KeysUnchanged

Creates(f, p) == key[f] = Unset

\* create_new refuses a file that appeared since it was looked for.  The file is
\* empty until it is written.
write_new_key_file(p, f) ==
    /\ At(p, f) /\ process[p].drawn
    /\ \/ /\ Creates(f, p)
          /\ key' = [key EXCEPT ![f] = [seed |-> Unset, by |-> p]]
          /\ UNCHANGED process
       \/ /\ key[f] # Unset /\ key[f].by = p /\ key[f].seed = Unset
          /\ key' = [key EXCEPT ![f].seed = p]
          /\ Advance(p, [process[p] EXCEPT !.drawn = FALSE, !.held[f] = p])
       \/ /\ key[f] # Unset /\ ~Creates(f, p) /\ key[f].by # p
          /\ Exit(p)
          /\ UNCHANGED key
    /\ KeysUnchanged

-----------------------------------------------------------------------------
(* Slashing protection *)

RecordDirMutant(n) == "base"

RecordDir(n) == n

\* The record of the older layout is moved in, if it is this genesis's; then the
\* record is read, and one of another genesis counts for nothing.
slashing_protection_dir(p) ==
    LET g == process[p].genesis
        d == RecordDir(process[p].spec.name)
        moves == record[d] = Unset /\ record["base"] # Unset /\ record["base"].genesis = g
        loaded == IF moves THEN record["base"] ELSE record[d]
    IN  /\ At(p, "slashing")
        /\ record' = IF moves THEN [record EXCEPT ![d] = loaded, !["base"] = Unset] ELSE record
        /\ Advance(p, [process[p] EXCEPT !.last =
                          IF loaded # Unset /\ loaded.genesis = g THEN loaded.last ELSE 0])
        /\ UNCHANGED <<data, checkpoint, key, network, starts, signed_to>>

Signs(p) == At(p, "serve") /\ process[p].command = "validator"

\* The record is replaced before the block is signed, and the block may be
\* committed or not.
sign(p) ==
    LET n == process[p].spec.name
        h == data[n].tip + 1
        g == process[p].genesis
    IN  /\ Signs(p)
        /\ h > process[p].last
        /\ h <= MaxSigned
        /\ record' = [record EXCEPT ![RecordDir(n)] = [genesis |-> g, last |-> h]]
        /\ process' = [process EXCEPT ![p].last = h]
        /\ signed_to' = [signed_to EXCEPT ![g] = IF h > @ THEN h ELSE @]
        /\ \E committed \in BOOLEAN : data' = IF committed THEN [data EXCEPT ![n].tip = h] ELSE data
        /\ UNCHANGED <<checkpoint, key, network, starts>>

\* A block of another proposer.
accept(p) ==
    LET n == process[p].spec.name
    IN  /\ At(p, "serve")
        /\ data[n].tip < MaxSigned
        /\ data' = [data EXCEPT ![n].tip = @ + 1]
        /\ UNCHANGED process /\ FilesUnchanged

-----------------------------------------------------------------------------
(* Subcommands and operators *)

export_snapshot(p) ==
    LET n == process[p].spec.name
    IN  /\ At(p, "export")
        /\ checkpoint' = IF data[n].tip = 0 THEN checkpoint
                         ELSE [checkpoint EXCEPT ![n] = data[n]]
        /\ Advance(p, process[p])
        /\ UNCHANGED <<data, key, record, network, starts, signed_to>>

\* Pairing talks to a node; pruning deletes bodies below the watermark.  Neither
\* touches what boot reads.
reports(p) ==
    /\ At(p, "pair") \/ At(p, "prune")
    /\ Advance(p, process[p])
    /\ UNCHANGED data /\ FilesUnchanged

wipe(n) ==
    /\ ~Locked(n) /\ data[n] # Empty
    /\ data' = [data EXCEPT ![n] = Empty]
    /\ UNCHANGED process /\ FilesUnchanged

restore(n) ==
    /\ ~Locked(n) /\ checkpoint[n] # Empty /\ data[n] # checkpoint[n]
    /\ data' = [data EXCEPT ![n] = checkpoint[n]]
    /\ UNCHANGED process /\ FilesUnchanged

\* A network starts over from another genesis while its nodes are down.
genesis_reset(n) ==
    /\ network[n] < Len(Genesis[n])
    /\ \A p \in Processes : ~Names(p, n)
    /\ network' = [network EXCEPT ![n] = @ + 1]
    /\ UNCHANGED <<data, checkpoint, key, record, process, starts, signed_to>>

BootNext ==
    \/ \E p \in Processes :
          \/ run(p) \/ crash(p) \/ open(p) \/ open_existing(p)
          \/ write_plain(p) \/ install_block_zero(p)
          \/ write_raw(p) \/ verify_raw(p)
          \/ seed_genesis_hash(p) \/ seed_genesis_effects(p) \/ verify_tip(p)
          \/ \E f \in KeyFiles : load_or_generate_hex_seed(p, f) \/ write_new_key_file(p, f)
          \/ slashing_protection_dir(p) \/ sign(p) \/ accept(p)
          \/ export_snapshot(p) \/ reports(p)
    \/ \E n \in ChainNames : wipe(n) \/ restore(n) \/ genesis_reset(n)

-----------------------------------------------------------------------------
(* Properties *)

Serving(p) == At(p, "serve")


\* Who signs, and what it has signed, survive on the machine.  Two processes on
\* one base path never hold different keys for one file, also when both found it
\* missing and both generated one; and a validator on the chain of its spec never
\* goes below what was signed under that genesis, through wipes, restored
\* checkpoints, other chains on the same base path, genesis resets and the move
\* of the older layout's record; except after blocks were signed under the root
\* of a stale raw spec (load_or_generate_hex_seed, write_new_key_file,
\* slashing_protection_dir, SignedHeight::load).
SignerIsKept ==
    \A p \in Processes :
        /\ process[p] # Exited =>
              \A f \in KeyFiles :
                  process[p].held[f] # Unset => key[f].seed = process[p].held[f]
        /\ (Signs(p) /\ process[p].genesis = process[p].spec.root) =>
              process[p].last >= signed_to[process[p].genesis] \/ signed_to[Stale] > 0

=============================================================================
