------------------------------ MODULE Blockchain ------------------------------
(***************************************************************************)
(* The chain of one full node: consensus/blockchain.rs, with the methods   *)
(* of block.rs and storage.rs it calls, as driven by consensus_thread.rs   *)
(* (BlockFetched, on_init) and by the two events it sends to               *)
(* routing_thread.rs (BlockchainUpdated, BlockFetchRequest).               *)
(*                                                                         *)
(* add_blocks_from_mempool holds the locks of the chain and of the mempool *)
(* until its batch is empty.  It is modelled statement group by statement  *)
(* group, the loops one iteration a step: pc names the place reached, and  *)
(* a crash may strike between any two steps.                               *)
(*                                                                         *)
(* A block is its hash.  What its contents decide once and for all is      *)
(* given by constants; what depends on the node is in the variables.       *)
(***************************************************************************)
EXTENDS BlockRing, FiniteSets, FiniteSetsExt

CONSTANTS
  Slip,                \* spendable outputs, the keys of the utxoset
  Parent,              \* Parent[h]: Block::previous_block_hash
  Burnfee,             \* Burnfee[h]: the work a block adds to its chain
  FirstBlock,          \* the blocks a peer may name as the one to start from
  GoldenTicketBlocks,  \* the blocks that hold a golden ticket
  Ungenerable,         \* the blocks whose generate() fails
  Unsound,             \* the blocks that fail a check of validate() that no node state sways
  BadTransactions,     \* the blocks with a transaction that fails whatever the utxoset
  Spends,              \* Spends[h]: the inputs of the transactions of a block
  Creates,             \* Creates[h]: their outputs
  SlipId,              \* SlipId[s]: the height of the block that creates a slip
  Amount,              \* Amount[S]: the tokens in a set of slips
  Reserves,            \* Reserves[h]: graveyard + treasury + unpaid + fees of a block
  Checkpoint,          \* Checkpoint[h]: the slips its checkpoint file, if any, names
  PruneAfter,          \* prune_after_blocks
  MaxStakerRecursions, \* max_staker_recursions
  MinGoldenTicketsNumerator, MinGoldenTicketsDenominator,
  MaxCrashes           \* bound: how often the node may crash

ASSUME BlockchainAssumption ==
  /\ Parent \in [Hash -> Hash \cup {NoHash}]
  /\ Burnfee \in [Hash -> Nat]
  /\ FirstBlock \subseteq Hash
  /\ GoldenTicketBlocks \subseteq Hash
  /\ Ungenerable \subseteq Hash
  /\ Unsound \subseteq Hash
  /\ BadTransactions \subseteq Hash
  /\ Spends \in [Hash -> SUBSET Slip]
  /\ Creates \in [Hash -> SUBSET Slip]
  /\ \A h \in Hash : Spends[h] \cap Creates[h] = {}
  /\ SlipId \in [Slip -> Nat]
  /\ Amount \in [SUBSET Slip -> Nat]
  /\ Reserves \in [Hash -> Nat]
  /\ Checkpoint \in [Hash -> SUBSET Slip]
  /\ PruneAfter \in Nat
  /\ MaxStakerRecursions \in Nat
  /\ MinGoldenTicketsNumerator \in Nat
  /\ MinGoldenTicketsDenominator \in Nat \ {0}
  /\ MaxCrashes \in Nat

VARIABLES
  (* struct Blockchain *)
  blocks,                \* the keys of Blockchain::blocks
  in_longest_chain,      \* the blocks with Block::in_longest_chain
  is_valid,              \* the blocks with Block::is_valid, the cached verdict
  pruned,                \* the blocks of BlockType::Pruned: no transactions in memory
  safe_to_prune,         \* the blocks with Block::safe_to_prune_transactions
  has_checkpoint,        \* the blocks with Block::has_checkpoint
  buried,                \* buried[h]: what a checkpoint added to Block::graveyard
  blockring,             \* Blockchain::blockring
  utxoset,               \* the spendable keys of Blockchain::utxoset
  last_block,            \* last_block_id and last_block_hash
  genesis_block_id,      \* Blockchain::genesis_block_id
  checkpoint_found,      \* Blockchain::checkpoint_found
  initial_token_supply,  \* Blockchain::initial_token_supply, 0 until it is known
  (* the mempool, the disk and the other threads *)
  blocks_queue,          \* Mempool::blocks_queue
  disk,                  \* the blocks that have a file in the block directory
  config,                \* what the configuration file keeps over a restart
  loaded,                \* BlockchainConfig::initial_loading_completed
  updates,               \* BlockchainUpdated events (their initial_sync) on the way
  requested,             \* the blocks named by a BlockFetchRequest
  waiting,               \* waiting_for_genesis_block of the routing thread
  crashes,               \* crashes so far
  (* the call of add_blocks_from_mempool in progress *)
  pc,                    \* where it is, "idle" when there is none
  batch,                 \* the blocks it took from the queue and has not added yet
  initial_sync,          \* the flag it took when it started
  adding,                \* the block being added, NoHash at first
  latest,                \* latest_block_hash, read when add_block started
  new_chain, old_chain,  \* from their tips down, as the code keeps them
  cursor,                \* where the walk down the old or the new chain is
  shared,                \* the shared ancestor, NoHash if there is none
  wind,                  \* the arguments of the pending WindingResult
  purge,                 \* the blocks delete_blocks has still to delete
  verdict                \* what validate() returned for the block last added

blockVars  == <<blocks, in_longest_chain, is_valid, pruned, safe_to_prune, has_checkpoint, buried>>
nodeVars   == <<blocks_queue, disk, config, loaded, updates, requested, waiting, crashes>>
callVars   == <<batch, initial_sync, adding, latest>>
chainVars  == <<new_chain, old_chain, cursor, shared>>
headVars   == <<last_block, genesis_block_id, checkpoint_found>>

vars == <<blockVars, nodeVars, callVars, chainVars, headVars, blockring, utxoset,
          initial_token_supply, pc, wind, purge, verdict>>

Max2(a, b) == IF a >= b THEN a ELSE b
Monus(a, b) == IF a >= b THEN a - b ELSE 0   \* u64::saturating_sub

WindArguments == [index: Nat, failure: BOOLEAN, slice: Nat]

Places == {"idle", "batch", "new chain", "old chain", "select", "wind", "unwind",
           "purge", "verdict", "success"}

NoWind == [index |-> 0, failure |-> FALSE, slice |-> 0]
NoHead == [id |-> 0, hash |-> NoHash]

Init ==
  /\ blocks = {} /\ in_longest_chain = {} /\ is_valid = {} /\ pruned = {}
  /\ safe_to_prune = {} /\ has_checkpoint = {} /\ buried = [h \in Hash |-> 0]
  /\ blockring = NewRing
  /\ utxoset = {}
  /\ last_block = NoHead
  /\ genesis_block_id = 0 /\ checkpoint_found = FALSE
  /\ initial_token_supply = 0
  /\ blocks_queue = {} /\ disk = {} /\ updates = <<>> /\ requested = {}
  /\ config = [last_block |-> NoHead, genesis_block_id |-> 0]
  /\ loaded = TRUE /\ waiting = TRUE
  /\ crashes = 0
  /\ pc = "idle"
  /\ batch = {} /\ initial_sync = FALSE /\ adding = NoHash /\ latest = NoHash
  /\ new_chain = <<>> /\ old_chain = <<>> /\ cursor = NoHash /\ shared = NoHash
  /\ wind = NoWind /\ purge = {} /\ verdict = FALSE

-----------------------------------------------------------------------------
(* What the methods compute.                                               *)

InChain(chain) == {chain[i] : i \in DOMAIN chain}

TotalBurnfee(chain) == MapThenSumSet(LAMBDA h : Burnfee[h], InChain(chain))

\* Mutant: a chain of the same length will do.
IsNewChainAsLong ==
  \/ blockring.empty
  \/ /\ Len(old_chain) <= Len(new_chain)
     /\ TotalBurnfee(old_chain) <= TotalBurnfee(new_chain)

\* Mutant: more work is asked for, not as much.
IsNewChainTheHeavier ==
  \/ blockring.empty
  \/ /\ LatestId(blockring) < Id[adding]
     /\ Len(old_chain) < Len(new_chain)
     /\ TotalBurnfee(old_chain) < TotalBurnfee(new_chain)

\* is_new_chain_the_longest_chain: longer by blocks, and not lighter by burnfee.
IsNewChainTheLongest ==
  \/ blockring.empty
  \/ /\ LatestId(blockring) < Id[adding]
     /\ Len(old_chain) < Len(new_chain)
     /\ TotalBurnfee(old_chain) <= TotalBurnfee(new_chain)

\* The last GenesisPeriod heights below the tip, where a block may still matter.
InWindow(id) == id > Monus(LatestId(blockring), GenesisPeriod)

\* is_golden_ticket_count_valid_: tickets among the block and its last
\* Denominator - 1 ancestors, as far as these are known.
IsGoldenTicketCountValid(h) ==
  LET Depth == MinGoldenTicketsDenominator - 1
      ancestor[n \in 1 .. Depth] ==
        IF n = 1 THEN Parent[h]
        ELSE IF ancestor[n - 1] \in blocks THEN Parent[ancestor[n - 1]] ELSE NoHash
      known    == {n \in 1 .. Depth : ancestor[n] \in blocks}
      found    == Cardinality({n \in known : ancestor[n] \in GoldenTicketBlocks})
                    + (IF h \in GoldenTicketBlocks THEN 1 ELSE 0)
      required == Monus(MinGoldenTicketsNumerator,
                        Monus(MinGoldenTicketsDenominator, Cardinality(known) + 1))
  IN  \/ Cardinality(known) < MinGoldenTicketsDenominator - MinGoldenTicketsNumerator
      \/ found >= required

HasTotalSupplyLoaded(r) ==
  \/ LongestChainHashAt(r, 1) # NoHash
  \/ /\ LatestId(r) > GenesisPeriod
     /\ LongestChainHashAt(r, LatestId(r) - GenesisPeriod) # NoHash

\* The tokens the node can account for: slips of the window, and what the tip
\* holds in reserve.
CurrentSupply ==
  LET tip == LatestHash(blockring)
  IN  Amount[{s \in utxoset : SlipId[s] >= Monus(Id[tip], GenesisPeriod)}]
        + Reserves[tip] + buried[tip]

IsSupplyValid ==
  HasTotalSupplyLoaded(blockring) => initial_token_supply \in {0, CurrentSupply}

\* validate_total_supply takes the first supply it computes for the initial one.
NoteSupply ==
  initial_token_supply' = IF HasTotalSupplyLoaded(blockring) /\ initial_token_supply = 0
                          THEN CurrentSupply ELSE initial_token_supply

\* upgrade_block_to_block_type(Full) reads the transactions back from the disk.
Upgrade(S) == pruned' = pruned \ (S \cap disk)

\* Whether a block just upgraded has its transactions in memory.
HasTransactions(h) == h \notin pruned \/ h \in disk

\* Block::validate: a verdict is kept once given, and only then; while the blocks
\* of the disk are loaded their transactions are not looked at.
ValidatesTransactions(h) ==
  loaded => /\ h \notin BadTransactions
            /\ HasTotalSupplyLoaded(blockring) => Spends[h] \subseteq utxoset

Validates(h) ==
  \/ h \in is_valid
  \/ /\ h \notin Unsound
     /\ HasTransactions(h) \/ Id[h] = 1
     /\ ValidatesTransactions(h)

\* Mutant: the inputs stay spendable.
WoundWithInputs(h) ==
  IF HasTransactions(h) THEN utxoset \cup Creates[h] ELSE utxoset

\* Block::on_chain_reorganization goes through the transactions in memory.
WoundUtxoset(h) ==
  IF HasTransactions(h) THEN (utxoset \ Spends[h]) \cup Creates[h] ELSE utxoset

UnwoundUtxoset(h) ==
  IF HasTransactions(h) THEN (utxoset \cup Spends[h]) \ Creates[h] ELSE utxoset

\* downgrade_blockchain_data: the blocks PruneAfter below the tip of ring r.
PrunedBelow(r) ==
  IF PruneAfter > LatestId(r) THEN {}
  ELSE HashesAt(r, LatestId(r) - PruneAfter) \cap blocks \cap safe_to_prune

\* update_genesis_period: what is 2 * GenesisPeriod below the tip goes, and one
\* height above that whatever is not on the longest chain.
PurgedBelow(r) ==
  LET floor == LatestId(r) - RingSize
  IN  IF floor < 1 THEN {}
      ELSE HashesAt(r, floor)
             \cup (HashesAt(r, floor + 1) \ {LongestChainHashAt(r, floor + 1)})

\* Mutant: the subtraction does not stop at the first block.
GenesisBlockIdBelowOne(r) ==
  LET id == LatestId(r) - GenesisPeriod
  IN  IF LongestChainHashAt(r, Max2(id, 1)) # NoHash THEN id ELSE genesis_block_id

\* Mutant: as far back as the ring goes.
GenesisBlockIdAtRingEnd(r) ==
  LET id == Max2(Monus(LatestId(r), RingSize), 1)
  IN  IF LongestChainHashAt(r, id) # NoHash THEN id ELSE genesis_block_id

GenesisBlockId(r) ==
  LET id == Max2(Monus(LatestId(r), GenesisPeriod), 1)
  IN  IF LongestChainHashAt(r, id) # NoHash THEN id ELSE genesis_block_id

\* Mutant: the flag is set whatever the direction.
FlagAlways(h, longest_chain) ==
  longest_chain \in BOOLEAN /\ in_longest_chain' = in_longest_chain \cup {h}

\* Block::on_chain_reorganization, the flag
Flag(h, longest_chain) ==
  in_longest_chain' = IF longest_chain THEN in_longest_chain \cup {h} ELSE in_longest_chain \ {h}

-----------------------------------------------------------------------------
(* The consensus thread: a block arrives, add_blocks_from_mempool starts.  *)

StartBatch(queue) ==
  /\ pc' = "batch"
  /\ batch' = queue
  /\ blocks_queue' = {}

\* ConsensusEvent::BlockFetched, and the bundling of an own block, which goes the
\* same way.  A node that had no block when it met its peers fetches only the one
\* a peer starts from, until it is told that it has it.
ReceiveBlock(h) ==
  /\ pc = "idle"
  /\ h \notin blocks
  /\ waiting => h \in FirstBlock
  /\ StartBatch(blocks_queue \cup {h})
  /\ initial_sync' = (genesis_block_id = 0)
  /\ UNCHANGED <<blockVars, disk, config, loaded, updates, requested, waiting, crashes, adding, latest,
                 chainVars, headVars, blockring, utxoset, initial_token_supply, wind, purge, verdict>>

\* A block the chain has already is dropped.
IgnoreBlock(h) ==
  /\ pc = "idle"
  /\ h \in blocks
  /\ UNCHANGED vars

-----------------------------------------------------------------------------
(* add_block: the tests before the block is taken in.  The batch is sorted *)
(* by height.  Blocks of one height come in the order they arrived in,     *)
(* which the outside world chooses: any order.                             *)

\* Mutant: the batch is not sorted.
InAnyOrder(h) == h \in batch

Lowest(h) == h \in batch /\ \A g \in batch : Id[h] <= Id[g]

HasParent(h) == Parent[h] \in blocks

IsOrphan(h) ==
  /\ ~blockring.empty
  /\ ~HasParent(h)
  /\ Parent[h] # NoHash
  /\ loaded \/ checkpoint_found

IsRefused(h) == h \in Ungenerable \/ Id[h] < genesis_block_id \/ h \in blocks

\* FailedNotValid and BlockAlreadyExists: nothing is kept of the block.
Refuse(h) ==
  /\ pc = "batch" /\ Lowest(h)
  /\ \/ IsRefused(h)
     \/ /\ ~IsRefused(h) /\ IsOrphan(h)
        /\ Parent[h] \notin blocks_queue
        /\ Id[h] <= Max2(1, Monus(LatestId(blockring), GenesisPeriod))
  /\ batch' = batch \ {h}
  /\ UNCHANGED <<blockVars, nodeVars, initial_sync, adding, latest, chainVars, headVars, blockring,
                 utxoset, initial_token_supply, pc, wind, purge, verdict>>

\* Mutant: the block goes to the end of the batch instead of the queue.
BackToBatch(h) == h \in batch /\ UNCHANGED <<blocks_queue, batch>>

\* handle_failed_block_to_be_retried
BackToQueue(h) ==
  /\ blocks_queue' = blocks_queue \cup {h}
  /\ batch' = batch \ {h}

\* FailedButRetry: back into the queue; the parent is asked for unless it waits
\* there itself.
Postpone(h) ==
  /\ pc = "batch" /\ Lowest(h)
  /\ ~IsRefused(h) /\ IsOrphan(h)
  /\ \/ /\ Parent[h] \in blocks_queue
        /\ UNCHANGED requested
     \/ /\ Parent[h] \notin blocks_queue
        /\ Id[h] > Max2(1, Monus(LatestId(blockring), GenesisPeriod))
        /\ requested' = requested \cup {Parent[h]}
  /\ BackToQueue(h)
  /\ UNCHANGED <<blockVars, disk, config, loaded, updates, waiting, crashes, initial_sync, adding, latest,
                 chainVars, headVars, blockring, utxoset, initial_token_supply, pc, wind, purge,
                 verdict>>

TakeIn(h) ==
  /\ pc = "batch" /\ Lowest(h)
  /\ ~IsRefused(h) /\ ~IsOrphan(h)
  /\ batch' = batch \ {h}
  /\ blocks' = blocks \cup {h}
  /\ blockring' = IF ContainsHash(blockring, h) THEN blockring ELSE AddToRing(blockring, h)
  /\ adding' = h
  /\ latest' = LatestHash(blockring)
  /\ new_chain' = <<>> /\ old_chain' = <<>>
  /\ cursor' = h /\ shared' = NoHash
  /\ pc' = "new chain"
  /\ UNCHANGED <<in_longest_chain, is_valid, pruned, safe_to_prune, has_checkpoint, buried, nodeVars,
                 initial_sync, headVars, utxoset, initial_token_supply, wind, purge, verdict>>

-----------------------------------------------------------------------------
(* add_block: the two chains from their tips to where they meet.           *)

ExtendNewChain ==
  /\ pc = "new chain"
  /\ cursor \in blocks \ in_longest_chain
  /\ new_chain' = Append(new_chain, cursor)
  /\ cursor' = Parent[cursor]
  /\ UNCHANGED <<blockVars, nodeVars, callVars, old_chain, shared, headVars, blockring, utxoset,
                 initial_token_supply, pc, wind, purge, verdict>>

FindSharedAncestor ==
  /\ pc = "new chain"
  /\ cursor \in blocks \cap in_longest_chain
  /\ shared' = cursor
  /\ cursor' = latest
  /\ pc' = "old chain"
  /\ UNCHANGED <<blockVars, nodeVars, callVars, new_chain, old_chain, headVars, blockring, utxoset,
                 initial_token_supply, wind, purge, verdict>>

\* "blocks received out-of-order": whatever the ring holds for the longest chain
\* above the tip, up to the new block, is taken off it.
Disconnected(id) ==
  {h \in Hash : LatestId(blockring) < Id[h] /\ Id[h] <= id
                /\ LongestChainHashAt(blockring, Id[h]) = h}

MissSharedAncestor ==
  /\ pc = "new chain"
  /\ cursor \notin blocks
  /\ LET gone == IF /\ ~blockring.empty /\ latest # NoHash
                    /\ latest = LatestHash(blockring) /\ InWindow(Id[adding])
                 THEN Disconnected(Id[adding]) ELSE {}
     IN  /\ blockring' = [blockring EXCEPT !.items =
                            [s \in Slots |-> IF LongestChainEntry(@[s]) \in gone
                                             THEN [@[s] EXCEPT !.lc_pos = NoPos] ELSE @[s]]]
         /\ in_longest_chain' = in_longest_chain \ gone
  /\ cursor' = latest
  /\ pc' = "old chain"
  /\ UNCHANGED <<blocks, is_valid, pruned, safe_to_prune, has_checkpoint, buried, nodeVars, callVars,
                 new_chain, old_chain, shared, headVars, utxoset, initial_token_supply, wind, purge,
                 verdict>>

\* Down to the shared ancestor; without one, one block further than the new chain
\* is long (calculate_old_chain_upto_length).
GoesOn ==
  /\ cursor \in blocks
  /\ IF shared # NoHash THEN cursor # shared ELSE Len(old_chain) <= Len(new_chain)

ExtendOldChain ==
  /\ pc = "old chain"
  /\ GoesOn
  /\ old_chain' = Append(old_chain, cursor)
  /\ cursor' = Parent[cursor]
  /\ UNCHANGED <<blockVars, nodeVars, callVars, new_chain, shared, headVars, blockring, utxoset,
                 initial_token_supply, pc, wind, purge, verdict>>

EndOldChain ==
  /\ pc = "old chain"
  /\ ~GoesOn
  /\ pc' = "select"
  /\ UNCHANGED <<blockVars, nodeVars, callVars, chainVars, headVars, blockring, utxoset,
                 initial_token_supply, wind, purge, verdict>>

-----------------------------------------------------------------------------
(* add_block: is the new chain the longest?  validate() then unwinds the   *)
(* old chain from its tip and winds the new one from its end.              *)

IsLongest == InWindow(Id[adding]) /\ IsNewChainTheLongest

SelectOther ==
  /\ pc = "select"
  /\ ~IsLongest
  /\ blockring' = [blockring EXCEPT !.empty = FALSE]
  /\ pc' = "success"
  /\ UNCHANGED <<blockVars, nodeVars, callVars, chainVars, headVars, utxoset, initial_token_supply,
                 wind, purge, verdict>>

SelectLongest ==
  /\ pc = "select"
  /\ IsLongest
  /\ blockring' = [blockring EXCEPT !.empty = FALSE]
  /\ in_longest_chain' = in_longest_chain \cup {adding}
  /\ IF ~IsGoldenTicketCountValid(adding)
     THEN pc' = "verdict" /\ verdict' = FALSE /\ UNCHANGED wind
     ELSE /\ UNCHANGED verdict
          /\ IF old_chain = <<>>
             THEN /\ pc' = "wind"
                  /\ wind' = [index |-> Len(new_chain), failure |-> FALSE, slice |-> Len(new_chain)]
             ELSE /\ pc' = "unwind"
                  /\ wind' = [index |-> 1, failure |-> FALSE, slice |-> Len(new_chain)]
  /\ UNCHANGED <<blocks, is_valid, pruned, safe_to_prune, has_checkpoint, buried, nodeVars, callVars,
                 chainVars, headVars, utxoset, initial_token_supply, purge>>

Finish(success) ==
  /\ pc' = "verdict"
  /\ verdict' = success
  /\ UNCHANGED wind

\* validate_total_supply expects the tip to be a block of the chain.
TipIsKnown == HasTotalSupplyLoaded(blockring) => LatestHash(blockring) \in blocks

CanUnwind == wind.index \in DOMAIN old_chain /\ old_chain[wind.index] \in blocks

\* Mutant: checkpoints do not hold.
IsNeverBarred(h) == h \notin Hash

\* "block has checkpoint. cannot unwind over this block", nor wind
IsBarred(h) == h \in has_checkpoint

UnwindCheckpoint ==
  /\ pc = "unwind" /\ CanUnwind
  /\ IsBarred(old_chain[wind.index])
  /\ Finish(FALSE)
  /\ UNCHANGED <<blockVars, nodeVars, callVars, chainVars, headVars, blockring, utxoset,
                 initial_token_supply, purge>>

\* unwind_chain.  The blocks below last_block_id leave no other trace; after the
\* last one, winding starts at the end of the chain the call was given.
UnwindBlock ==
  /\ pc = "unwind" /\ CanUnwind
  /\ LET h    == old_chain[wind.index]
         ring == TakeOffLongestChain(blockring, h)
     IN  /\ ~IsBarred(h)
         /\ utxoset' = UnwoundUtxoset(h)
         /\ Flag(h, FALSE)
         /\ blockring' = ring
         /\ pruned' = (pruned \ ({h} \cap disk)) \cup PrunedBelow(ring)
  /\ IF wind.index = Len(old_chain)
     THEN pc' = "wind" /\ wind' = [wind EXCEPT !.index = wind.slice]
     ELSE pc' = "unwind" /\ wind' = [wind EXCEPT !.index = @ + 1]
  /\ UNCHANGED <<blocks, is_valid, safe_to_prune, has_checkpoint, buried, nodeVars, callVars,
                 chainVars, headVars, initial_token_supply, purge, verdict>>

CanWind == /\ wind.index \in DOMAIN new_chain
           /\ new_chain[wind.index] \in blocks
           /\ TipIsKnown

\* upgrade_blocks_for_wind_chain
UpgradedForWind(h) ==
  {h} \cup {g \in blocks : /\ Id[h] - MaxStakerRecursions < Id[g] /\ Id[g] < Id[h]
                           /\ LongestChainHashAt(blockring, Id[g]) = g}

WindCheckpoint ==
  /\ pc = "wind" /\ CanWind
  /\ IsBarred(new_chain[wind.index])
  /\ Upgrade(UpgradedForWind(new_chain[wind.index]))
  /\ NoteSupply
  /\ Finish(FALSE)
  /\ UNCHANGED <<blocks, in_longest_chain, is_valid, safe_to_prune, has_checkpoint, buried, nodeVars,
                 callVars, chainVars, headVars, blockring, utxoset, purge>>

\* wind_chain with a block that validates: it enters the longest chain.  Only a
\* block above last_block_id moves the head and the window, and may purge.
WindBlock ==
  /\ pc = "wind" /\ CanWind
  /\ LET h    == new_chain[wind.index]
         ring == PutOnLongestChain(blockring, h)
     IN  /\ ~IsBarred(h)
         /\ IsSupplyValid /\ Validates(h)
         /\ Upgrade(UpgradedForWind(h))
         /\ is_valid' = IF loaded THEN is_valid \cup {h} ELSE is_valid
         /\ blockring' = ring
         /\ utxoset' = WoundUtxoset(h)
         /\ Flag(h, TRUE)
         /\ IF last_block.id >= Id[h]
            THEN purge' = {} /\ UNCHANGED headVars
            ELSE /\ last_block' = [id |-> Id[h], hash |-> h]
                 /\ genesis_block_id' = GenesisBlockId(ring)
                 /\ purge' = PurgedBelow(ring)
                 /\ UNCHANGED checkpoint_found
  /\ NoteSupply
  /\ pc' = "purge"
  /\ UNCHANGED <<blocks, safe_to_prune, has_checkpoint, buried, nodeVars, callVars, chainVars, wind,
                 verdict>>

\* wind_chain with a block that does not validate.  The longest chain is expected
\* back: at the end of the new chain the old one is wound, from its own end;
\* otherwise the blocks wound so far are unwound first.  wind_chain keeps
\* working on new_chain and unwind_chain on old_chain whatever it is asked for;
\* of the slice it is given only the length comes back.
RejectBlock ==
  /\ pc = "wind" /\ CanWind
  /\ LET h == new_chain[wind.index]
     IN  /\ ~IsBarred(h)
         /\ ~(IsSupplyValid /\ Validates(h))
         /\ Upgrade(UpgradedForWind(h))
         /\ is_valid' = IF loaded /\ Validates(h) THEN is_valid \cup {h} ELSE is_valid
  /\ NoteSupply
  /\ IF wind.index # Len(new_chain)
     THEN /\ pc' = "unwind" /\ UNCHANGED verdict
          /\ wind' = [index |-> 1, failure |-> TRUE, slice |-> Len(new_chain) - wind.index]
     ELSE IF old_chain # <<>>
     THEN /\ pc' = "wind" /\ UNCHANGED verdict
          /\ wind' = [wind EXCEPT !.index = Len(old_chain), !.failure = TRUE]
     ELSE Finish(FALSE)
  /\ UNCHANGED <<blocks, in_longest_chain, safe_to_prune, has_checkpoint, buried, nodeVars, callVars,
                 chainVars, headVars, blockring, utxoset, purge>>

\* Mutant: the block leaves the ring but not the map.
ForgetInRing(h) ==
  /\ in_longest_chain' = in_longest_chain \ {h}
  /\ blockring' = DeleteFromRing(blockring, h)
  /\ UNCHANGED <<blocks, is_valid, pruned, safe_to_prune, has_checkpoint, buried>>

\* The block leaves the map and the ring, and its flags with it.
Forget(h) ==
  /\ blocks' = blocks \ {h}
  /\ in_longest_chain' = in_longest_chain \ {h}
  /\ is_valid' = is_valid \ {h}
  /\ pruned' = pruned \ {h}
  /\ safe_to_prune' = safe_to_prune \ {h}
  /\ has_checkpoint' = has_checkpoint \ {h}
  /\ buried' = [buried EXCEPT ![h] = 0]
  /\ blockring' = DeleteFromRing(blockring, h)

\* delete_block.  The utxoset loses what the transactions in memory name, inputs
\* and outputs; the order of the deletions leaves no trace.
PurgeBlock(h) ==
  /\ pc = "purge"
  /\ h \in purge /\ h \in blocks
  /\ purge' = purge \ {h}
  /\ utxoset' = IF h \in pruned THEN utxoset ELSE utxoset \ (Spends[h] \cup Creates[h])
  /\ disk' = disk \ {h}
  /\ Forget(h)
  /\ UNCHANGED <<blocks_queue, config, loaded, updates, requested, waiting, crashes, callVars, chainVars,
                 headVars, initial_token_supply, pc, wind, verdict>>

\* The end of a wind: on to the next block, or to the verdict after the tip.  A
\* failure is remembered for one block only.
EndPurge ==
  /\ pc = "purge"
  /\ purge = {}
  /\ pruned' = pruned \cup PrunedBelow(blockring)
  /\ IF wind.index = 1
     THEN Finish(~wind.failure)
     ELSE /\ pc' = "wind" /\ UNCHANGED verdict
          /\ wind' = [wind EXCEPT !.index = @ - 1, !.failure = FALSE]
  /\ UNCHANGED <<blocks, in_longest_chain, is_valid, safe_to_prune, has_checkpoint, buried, nodeVars,
                 callVars, chainVars, headVars, blockring, utxoset, initial_token_supply, purge>>

-----------------------------------------------------------------------------
(* add_block: its two ends, and what add_blocks_from_mempool does then.    *)

Accept ==
  /\ pc = "verdict" /\ TipIsKnown
  /\ verdict /\ IsSupplyValid
  /\ NoteSupply
  /\ pc' = "success"
  /\ UNCHANGED <<blockVars, nodeVars, callVars, chainVars, headVars, blockring, utxoset, wind, purge,
                 verdict>>

\* add_block_failure: the block is forgotten, its file was never written.
Fail ==
  /\ pc = "verdict" /\ TipIsKnown
  /\ ~(verdict /\ IsSupplyValid)
  /\ NoteSupply
  /\ verdict' = FALSE
  /\ Forget(adding)
  /\ pc' = "batch"
  /\ UNCHANGED <<nodeVars, callVars, chainVars, headVars, utxoset, wind, purge>>

\* prune_blocks_after_add_block
PrunedAfterAdd ==
  LET id == LatestId(blockring) - (GenesisPeriod + 1)
  IN  IF id <= 0 THEN {} ELSE {LongestChainHashAt(blockring, id)} \ {NoHash}

CanSucceed == PrunedAfterAdd \subseteq blocks

\* add_block_success and handle_successful_block_addition, with the checkpoint
\* file of the block, if there is one.
Succeed ==
  /\ pc = "success" /\ CanSucceed
  /\ disk' = disk \cup {adding}
  /\ safe_to_prune' = safe_to_prune \cup ({FirstHashAt(blockring, Id[adding])} \cap blocks)
  /\ pruned' = pruned \cup PrunedAfterAdd
  /\ LET frozen == utxoset \cap Checkpoint[adding]
     IN  /\ utxoset' = utxoset \ frozen
         /\ buried' = [buried EXCEPT ![adding] = @ + Amount[frozen]]
         /\ has_checkpoint' = IF frozen = {} THEN has_checkpoint ELSE has_checkpoint \cup {adding}
         /\ checkpoint_found' = (checkpoint_found \/ frozen # {})
  /\ updates' = IF loaded THEN Append(updates, initial_sync) ELSE updates
  /\ pc' = "batch"
  /\ UNCHANGED <<blocks, in_longest_chain, is_valid, blocks_queue, config, loaded, requested, waiting, crashes,
                 callVars, chainVars, last_block, genesis_block_id, blockring, initial_token_supply,
                 wind, purge, verdict>>

\* The batch is done.  on_init, once the disk is loaded, clears what is left in
\* the queue, deletes the files of too old blocks (delete_old_blocks) and declares
\* the loading completed; the peers met after that are asked for their first block
\* if the node has none.
EndBatch ==
  /\ pc = "batch"
  /\ batch = {}
  /\ pc' = "idle"
  /\ IF loaded THEN UNCHANGED <<loaded, blocks_queue, disk, waiting>>
     ELSE /\ loaded' = TRUE
          /\ blocks_queue' = {}
          /\ disk' = {h \in disk : Id[h] >= Monus(LatestId(blockring), RingSize)}
          /\ waiting' = (LatestHash(blockring) = NoHash)
  /\ UNCHANGED <<blockVars, config, updates, requested, crashes, callVars, chainVars, headVars,
                 blockring, utxoset, initial_token_supply, wind, purge, verdict>>

-----------------------------------------------------------------------------
(* The routing thread, and crashes.                                        *)

\* RoutingEvent::BlockchainUpdated: it takes the lock of the chain only when the
\* consensus thread is done with its batch, however many blocks that was.
HandleUpdate ==
  /\ pc = "idle"
  /\ updates # <<>>
  /\ updates' = Tail(updates)
  /\ config' = [last_block |-> last_block, genesis_block_id |-> genesis_block_id]
  /\ genesis_block_id' = IF Head(updates) THEN LatestId(blockring) ELSE genesis_block_id
  /\ waiting' = (waiting /\ ~Head(updates))
  /\ UNCHANGED <<blockVars, blocks_queue, disk, loaded, requested, crashes, callVars, chainVars,
                 last_block, checkpoint_found, blockring, utxoset, initial_token_supply, pc, wind, purge,
                 verdict>>

\* A crash at any point, and on_init up to the first batch: the chain is empty,
\* the head is what the configuration says, the queue is what the disk holds.
Crash ==
  /\ crashes < MaxCrashes
  /\ crashes' = crashes + 1
  /\ blocks' = {} /\ in_longest_chain' = {} /\ is_valid' = {} /\ pruned' = {}
  /\ safe_to_prune' = {} /\ has_checkpoint' = {} /\ buried' = [h \in Hash |-> 0]
  /\ blockring' = NewRing
  /\ utxoset' = {}
  /\ last_block' = config.last_block
  /\ genesis_block_id' = config.genesis_block_id /\ checkpoint_found' = FALSE
  /\ initial_token_supply' = 0
  /\ updates' = <<>> /\ requested' = {} /\ waiting' = FALSE
  /\ loaded' = FALSE
  /\ StartBatch(disk)
  /\ initial_sync' = (config.genesis_block_id = 0)
  /\ adding' = NoHash /\ latest' = NoHash
  /\ new_chain' = <<>> /\ old_chain' = <<>> /\ cursor' = NoHash /\ shared' = NoHash
  /\ wind' = NoWind /\ purge' = {} /\ verdict' = FALSE
  /\ UNCHANGED <<disk, config>>

-----------------------------------------------------------------------------

\* One step of the call of add_blocks_from_mempool in progress.
AddBlocksStep ==
  \/ \E h \in batch : Refuse(h) \/ Postpone(h) \/ TakeIn(h)
  \/ ExtendNewChain \/ FindSharedAncestor \/ MissSharedAncestor
  \/ ExtendOldChain \/ EndOldChain
  \/ SelectOther \/ SelectLongest
  \/ UnwindCheckpoint \/ UnwindBlock
  \/ WindCheckpoint \/ WindBlock \/ RejectBlock
  \/ \E h \in purge : PurgeBlock(h)
  \/ EndPurge
  \/ Accept \/ Fail \/ Succeed \/ EndBatch

Next ==
  \/ \E h \in Hash : ReceiveBlock(h) \/ IgnoreBlock(h)
  \/ AddBlocksStep
  \/ HandleUpdate
  \/ Crash

\* A task that holds the locks and is never preempted for ever goes on; nothing
\* makes a peer send a block, nor a node crash.
Fairness == WF_vars(AddBlocksStep) /\ WF_vars(HandleUpdate)

Spec == Init /\ [][Next]_vars /\ Fairness

-----------------------------------------------------------------------------
(* Properties.                                                             *)

\* Every variable holds a value of its kind.
TypeOK ==
  /\ blocks \subseteq Hash /\ in_longest_chain \subseteq Hash /\ is_valid \subseteq Hash
  /\ pruned \subseteq Hash /\ safe_to_prune \subseteq Hash /\ has_checkpoint \subseteq Hash
  /\ buried \in [Hash -> Nat]
  /\ blockring \in Ring
  /\ utxoset \subseteq Slip
  /\ last_block \in [id: Nat, hash: Hash \cup {NoHash}]
  /\ genesis_block_id \in Nat /\ checkpoint_found \in BOOLEAN
  /\ initial_token_supply \in Nat
  /\ blocks_queue \subseteq Hash /\ disk \subseteq Hash
  /\ config \in [last_block: [id: Nat, hash: Hash \cup {NoHash}], genesis_block_id: Nat]
  /\ loaded \in BOOLEAN /\ waiting \in BOOLEAN
  /\ updates \in Seq(BOOLEAN)
  /\ requested \subseteq Hash \cup {NoHash}
  /\ crashes \in Nat
  /\ pc \in Places
  /\ batch \subseteq Hash
  /\ initial_sync \in BOOLEAN
  /\ adding \in Hash \cup {NoHash} /\ latest \in Hash \cup {NoHash}
  /\ new_chain \in Seq(Hash) /\ old_chain \in Seq(Hash)
  /\ cursor \in Hash \cup {NoHash} /\ shared \in Hash \cup {NoHash}
  /\ wind \in WindArguments
  /\ purge \subseteq Hash
  /\ verdict \in BOOLEAN

\* Between two calls of add_block, and when no call is under way.
Settled == pc \in {"idle", "batch"}

Tip == LatestHash(blockring)

\* The map and the ring hold the same blocks, the ring each of them once: every
\* path that adds or drops a block updates both (add_block, add_block_failure,
\* delete_block).
RingIndexesBlocks ==
  /\ \A s \in Slots : HashesIn(blockring.items[s]) = {h \in blocks : SlotOf(Id[h]) = s}
  /\ \A s \in Slots : \A p, q \in DOMAIN blockring.items[s].hashes :
        blockring.items[s].hashes[p] = blockring.items[s].hashes[q] => p = q

\* Whatever is kept in memory can be read back: every block but the one being
\* added has its file, so that a pruned one gets its transactions again.
BlocksAreOnDisk == blocks \ (IF Settled THEN {} ELSE {adding}) \subseteq disk

\* The flags of the blocks and the ring tell the same longest chain: up to the
\* tip, a block is flagged exactly if the ring names it for its height.
RingAgreesWithFlags ==
  Settled => \A h \in blocks :
    Id[h] <= LatestId(blockring) =>
      (h \in in_longest_chain <=> LongestChainHashAt(blockring, Id[h]) = h)

\* The flagged blocks are one chain: all but the tip have a flagged child.
LongestChainIsLinked ==
  Settled => \A h \in in_longest_chain :
    h = Tip \/ \E g \in in_longest_chain : Parent[g] = h

\* Of the slips that may still be spent the utxoset holds what the longest chain
\* created and did not spend, and nothing else, whatever was wound and unwound
\* on the way.  Not so while the disk is loaded: a fork whose parent was purged may
\* be wound first and leave that parent's slips behind when it is unwound; once
\* all blocks are loaded those are out of the window.
UtxosetIsReplay ==
  (Settled /\ loaded) => \A s \in Slip :
    SlipId[s] >= Monus(LatestId(blockring), GenesisPeriod) =>
      (s \in utxoset <=>
        /\ \E h \in in_longest_chain : s \in Creates[h] /\ (h \in has_checkpoint => s \notin Checkpoint[h])
        /\ \A h \in in_longest_chain : s \notin Spends[h] /\ (h \in has_checkpoint => s \notin Checkpoint[h]))

\* The head that the node persists is the tip of the ring.  After a restart it
\* need not be: the head read back is kept until a higher block comes, while the
\* files of one height are loaded in an order of their own.
HeadIsTip ==
  (Settled /\ crashes = 0) => last_block = [id |-> LatestId(blockring), hash |-> Tip]

\* A block, its parent, the parent of that, and so on.
Ancestors[h \in Hash] == {h} \cup (IF Parent[h] \in Hash THEN Ancestors[Parent[h]] ELSE {})

Work(S) == MapThenSumSet(LAMBDA h : Burnfee[h], S)

\* add_block compares two chains each time a block arrives; taken together its
\* choices leave no branch of known blocks that is longer than the longest chain
\* and has as much work behind it.
LongestChainWins ==
  Settled => \A h \in blocks :
    (Id[h] > LatestId(blockring) /\ Ancestors[h] \subseteq blocks)
      => Work(Ancestors[h] \ in_longest_chain) < Work(in_longest_chain \ Ancestors[h])

\* A block that is about to be deleted, or pruned after a block was added, is in the
\* map: delete_block and prune_blocks_after_add_block do not panic.
DeletedAreKnown ==
  /\ pc = "purge" => purge \subseteq blocks
  /\ pc = "success" => CanSucceed

\* Whenever winding, unwinding, deleting and pruning look a block up, it is there: the
\* unwraps and expects of wind_chain, unwind_chain, delete_block,
\* validate_total_supply and prune_blocks_after_add_block do not panic.
NoPanic ==
  /\ pc = "unwind" => CanUnwind
  /\ pc = "wind" => CanWind
  /\ pc = "verdict" => TipIsKnown
  /\ DeletedAreKnown

\* No block waits in the queue for a parent the chain has: a parent and the
\* children that waited for it are taken in by the same batch.
NoStrandedBlock ==
  pc = "idle" => \A h \in blocks_queue : Parent[h] \notin blocks

\* A peer that asks for the genesis block gets an answer: process_incoming_message
\* unwraps the longest chain entry of genesis_block_id.
GenesisIsServed ==
  (pc = "idle" /\ genesis_block_id # 0) => LongestChainHashAt(blockring, genesis_block_id) # NoHash

\* A restarted node is not below the head it had persisted.
RestartKeepsHeight ==
  (pc = "idle" /\ loaded) => LatestId(blockring) >= config.last_block.id

\* While a block is being added the node stands where it stood, without it.
Chain == INSTANCE LongestChain WITH
           known <- IF Settled THEN blocks ELSE blocks \ {adding},
           tip   <- IF Settled THEN Tip ELSE latest

\* Winding and unwinding block by block, failing half-way and deleting what is old
\* come to one choice for each block that is added: add_block keeps the promise of
\* LongestChain.
KeepsLongestChain == Chain!Spec

\* Every call ends: the locks of the chain and of the mempool are released.
AddBlocksTerminates == pc # "idle" ~> pc = "idle"
=============================================================================
