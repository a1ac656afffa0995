-------------------------------- MODULE Mempool --------------------------------
(***************************************************************************)
(* The transactions, golden tickets and orphans that wait in the mempool   *)
(* (mempool.rs), and what the consensus thread does with them: it takes    *)
(* in what the verification thread found valid, bundles blocks of its own  *)
(* on a timer, and adds blocks, whereby transactions leave the pool or     *)
(* come back to it.  The miner works on the tip it was told of.            *)
(*                                                                         *)
(* Of the blockchain there is the tree of blocks and the tip; how it winds *)
(* and unwinds is the matter of Blockchain.tla.  Every transaction spends  *)
(* outputs of the first block.  Routing work, burnfee, the staking         *)
(* transaction and the time make bundling wait or a block of ours fail,    *)
(* and are no more than that here; what is sent to peers is left out.      *)
(***************************************************************************)
EXTENDS Integers, Sequences, FiniteSets, FiniteSetsExt

CONSTANTS
  Tx,              \* the transactions, of type Normal
  Slip,            \* the outputs they spend
  Inputs,          \* Inputs[t]: Transaction::from
  Mine,            \* the transactions that the wallet of this node made
  Numerator,       \* MIN_GOLDEN_TICKETS_NUMERATOR
  Denominator,     \* MIN_GOLDEN_TICKETS_DENOMINATOR
  PeerBlocks,      \* the first block, and on it a tree of blocks that peers make
  MaxBad           \* bound: the blocks of this node that do not validate

\* A block: id, parent, txs and ticket (has_golden_ticket) as in block.rs; its lineage, the
\* block and all below it; whether this node made it, and whether it will validate.
Block == [id : Nat \ {0}, parent : Nat, lineage : SUBSET Nat, txs : SUBSET Tx,
          ticket : BOOLEAN, mine : BOOLEAN, valid : BOOLEAN]

\* No two of the transactions spend the same output.
AreDisjoint(T) == \A t, u \in T : t # u => Inputs[t] \cap Inputs[u] = {}

\* What peers make has its place in the tree, validates, and spends no output twice.
ASSUME MempoolAssumption ==
  /\ IsFiniteSet(Tx) /\ Mine \subseteq Tx
  /\ Inputs \in [Tx -> (SUBSET Slip) \ {{}}]
  /\ Numerator \in Nat /\ Denominator \in Nat /\ Numerator <= Denominator
  /\ PeerBlocks \in Seq(Block) /\ PeerBlocks # <<>> /\ MaxBad \in Nat
  /\ \A h \in DOMAIN PeerBlocks :
       LET b == PeerBlocks[h] IN
         /\ ~ b.mine /\ b.valid /\ b.lineage \subseteq 1..h
         /\ IF h = 1 THEN b.id = 1 /\ b.parent = 0 /\ b.lineage = {1} /\ b.txs = {}
            ELSE /\ b.parent \in 1..h - 1
                 /\ b.id = PeerBlocks[b.parent].id + 1
                 /\ b.lineage = PeerBlocks[b.parent].lineage \cup {h}
         /\ AreDisjoint(UNION {PeerBlocks[g].txs : g \in b.lineage})

VARIABLES
  (* the network *)
  made,             \* the blocks that were made; the index is Block::hash
  fetching,         \* blocks of peers that have not arrived
  (* Blockchain *)
  blocks,           \* Blockchain::blocks
  tip,              \* Blockchain::get_latest_block_hash
  (* Mempool *)
  pool,             \* transactions, utxo_map, new_tx_added and golden_tickets
  blocks_queue,     \* Mempool::blocks_queue
  (* the consensus thread *)
  txs_for_mempool,  \* ConsensusThread::txs_for_mempool, and what is in its channel
  batch,            \* what add_blocks_from_mempool has still to add; it holds the locks
  (* the mining thread *)
  miner,            \* miner_active and target
  (* history *)
  returned,         \* pooled transactions that add_block_transactions_back put there
  passed_over       \* the tip has moved and the miner was not told

networkVars == <<made, fetching>>
chainVars   == <<blocks, tip>>
vars == <<networkVars, chainVars, pool, blocks_queue, txs_for_mempool, batch, miner,
          returned, passed_over>>

-----------------------------------------------------------------------------
(* Blocks *)

Hash == DOMAIN made

\* A mutant: its hash is one off.
NewBlockOffByOne(txs, ticket, valid) ==
  [id |-> made[tip].id + 1, parent |-> tip, lineage |-> made[tip].lineage \cup {Len(made) + 2},
   txs |-> txs, ticket |-> ticket, mine |-> TRUE, valid |-> valid]

\* The block that this node makes on its tip.
NewBlock(txs, ticket, valid) ==
  [id |-> made[tip].id + 1, parent |-> tip, lineage |-> made[tip].lineage \cup {Len(made) + 1},
   txs |-> txs, ticket |-> ticket, mine |-> TRUE, valid |-> valid]

TxsOf(B) == UNION {made[b].txs : b \in B}

\* validate_against_utxoset, with the outputs that the chain that ends in h has left.
IsSpendableAt(t, h) == \A u \in TxsOf(made[h].lineage) : Inputs[t] \cap Inputs[u] = {}
IsSpendable(t) == IsSpendableAt(t, tip)

\* is_golden_ticket_count_valid: a block on h, with or without a ticket.
IsTicketCountValid(h, ticket) ==
  LET last == {g \in made[h].lineage : made[g].id > made[h].id - (Denominator - 1)}
      depth == Cardinality(last)
      found == Cardinality({g \in last : made[g].ticket}) + (IF ticket THEN 1 ELSE 0)
  IN \/ depth < Denominator - Numerator
     \/ found >= Numerator - (Denominator - (depth + 1))

-----------------------------------------------------------------------------
(* The pool *)

EmptyPool ==
  [transactions |-> {}, utxo_map |-> {}, new_tx_added |-> FALSE, golden_tickets |-> {}]

InputsOf(T) == UNION {Inputs[t] : t \in T}

\* add_transaction refuses what spends a marked output, and keeps what it has.
IsRefused(p, t) == Inputs[t] \cap p.utxo_map # {} \/ t \in p.transactions

\* A mutant: the outputs of the transaction are not marked.
AddUnmarked(p, T) ==
  IF T = {} THEN p
  ELSE [p EXCEPT !.transactions = @ \cup T, !.new_tx_added = TRUE]

\* add_transaction, of transactions that are not refused and have no output in common.
AddTransactions(p, T) ==
  IF T = {} THEN p
  ELSE [p EXCEPT !.transactions = @ \cup T,
                 !.utxo_map = @ \cup InputsOf(T),
                 !.new_tx_added = TRUE]

\* add_transaction_if_validates for all of txs_for_mempool, in the order they came: of those
\* that spend the same output the first is taken.
Admissible(T) ==
  {A \in SUBSET T :
     /\ AreDisjoint(A)
     /\ \A t \in A : IsSpendable(t) /\ ~ IsRefused(pool, t)
     /\ \A t \in T \ A : \/ ~ IsSpendable(t) \/ IsRefused(pool, t)
                         \/ \E u \in A : Inputs[t] \cap Inputs[u] # {}}

\* A mutant: the pool is emptied.
DeleteAll(p, B) ==
  [p EXCEPT !.transactions = {},
            !.golden_tickets = @ \ {made[b].parent : b \in {c \in B : made[c].ticket}}]

\* delete_transactions, for the blocks B.
DeleteTransactions(p, B) ==
  [p EXCEPT !.transactions = @ \ TxsOf(B),
            !.golden_tickets = @ \ {made[b].parent : b \in {c \in B : made[c].ticket}}]

\* A mutant: what can no longer be spent stays.
RemoveOnlyOwn(p, b, h) == DeleteTransactions(p, {b})

\* remove_block_transactions, of every block that was added, when the chain ends in h.
RemoveBlockTransactions(p, b, h) ==
  DeleteTransactions([p EXCEPT !.transactions = {t \in @ : IsSpendableAt(t, h)}], {b})

\* collect_discarded_txs: the path of the transaction begins or ends here.
IsCollected(t, b) == IF made[b].mine THEN t \notin Mine ELSE t \in Mine

\* collect_discarded_txs, of the blocks B of the longest chain, unwound.
CollectDiscarded(p, B) ==
  AddTransactions(p, {t \in Tx : /\ \E b \in B : t \in made[b].txs /\ IsCollected(t, b)
                                 /\ ~ IsRefused(p, t)})

-----------------------------------------------------------------------------
Init ==
  /\ made = PeerBlocks /\ fetching = DOMAIN PeerBlocks \ {1}
  /\ blocks = {1} /\ tip = 1
  /\ pool = EmptyPool /\ blocks_queue = {}
  /\ txs_for_mempool = {} /\ batch = {}
  /\ miner = [active |-> TRUE, target |-> 1]
  /\ returned = {} /\ passed_over = FALSE

-----------------------------------------------------------------------------
(* What reaches the consensus thread.  While it adds blocks it holds the   *)
(* lock of the blockchain, so that no transaction is verified.  What is    *)
(* in its channel it might have taken out already.                         *)

\* verify_tx, of what a peer or the wallet sent, and ConsensusEvent::NewTransaction.
NewTransaction(t) ==
  /\ batch = {} /\ IsSpendable(t)
  /\ txs_for_mempool' = txs_for_mempool \cup {t}
  /\ UNCHANGED <<networkVars, chainVars, pool, blocks_queue, batch, miner, returned,
                 passed_over>>

\* The miner finds a ticket for its target: add_golden_ticket, for which it is one of those
\* that there are.
NewGoldenTicket ==
  /\ batch = {} /\ miner.active
  /\ miner' = [miner EXCEPT !.active = FALSE]
  /\ pool' = [pool EXCEPT !.golden_tickets = @ \cup {miner.target}]
  /\ UNCHANGED <<networkVars, chainVars, blocks_queue, txs_for_mempool, batch, returned,
                 passed_over>>

\* ConsensusEvent::BlockFetched: add_block, and then all that is queued is added.
BlockFetched(b) ==
  /\ batch = {} /\ b \in fetching
  /\ fetching' = fetching \ {b}
  /\ batch' = blocks_queue \cup {b} /\ blocks_queue' = {}
  /\ UNCHANGED <<made, chainVars, pool, txs_for_mempool, miner, returned, passed_over>>

-----------------------------------------------------------------------------
(* bundle_block, of the consensus thread's timer.  First txs_for_mempool   *)
(* goes into the pool; it is empty in the end, whatever becomes of the     *)
(* block.                                                                  *)

HasTicket == tip \in pool.golden_tickets

\* can_bundle_block, but for work and time.
CanBundle(p) ==
  /\ blocks_queue = {}
  /\ p.transactions # {} /\ p.new_tx_added
  /\ IsTicketCountValid(tip, HasTicket)

TakeIn(T) ==
  /\ batch = {}
  /\ T \in Admissible(txs_for_mempool)
  /\ txs_for_mempool' = {}

\* No block: can_bundle_block says no, or there is nothing to stake.
BundleWaits(T) ==
  /\ TakeIn(T) /\ txs_for_mempool # {}
  /\ pool' = AddTransactions(pool, T)
  /\ UNCHANGED <<networkVars, chainVars, blocks_queue, batch, miner, returned, passed_over>>

\* Block::create has drained the transactions when it finds an output spent twice.
BundleFails(T) ==
  /\ TakeIn(T)
  /\ LET p == AddTransactions(pool, T) IN
       /\ CanBundle(p) /\ ~ AreDisjoint(p.transactions)
       /\ pool' = [p EXCEPT !.transactions = {}]
  /\ returned' = {}
  /\ UNCHANGED <<networkVars, chainVars, blocks_queue, batch, miner, passed_over>>

\* What Mempool::bundle_block leaves of the pool.
Bundled(p) == [p EXCEPT !.transactions = {},
                        !.new_tx_added = FALSE,
                        !.utxo_map = @ \ InputsOf(p.transactions)]

BundleBlock(T) ==
  /\ TakeIn(T)
  /\ LET p == AddTransactions(pool, T) IN
       /\ CanBundle(p) /\ AreDisjoint(p.transactions)
       /\ pool' = Bundled(p)
       /\ \E valid \in BOOLEAN :
            /\ valid => \A t \in p.transactions : IsSpendable(t)
            /\ ~ valid => \/ Cardinality({h \in Hash : ~ made[h].valid}) < MaxBad
                         \/ \E t \in p.transactions : ~ IsSpendable(t)
            /\ made' = Append(made, NewBlock(p.transactions, HasTicket, valid))
  /\ batch' = {Len(made) + 1}
  /\ returned' = {}
  /\ UNCHANGED <<fetching, chainVars, blocks_queue, miner, passed_over>>

-----------------------------------------------------------------------------
(* add_blocks_from_mempool, one block at a time, the lowest first          *)

IsNext(b) == b \in batch /\ \A c \in batch : made[b].id <= made[c].id

\* There is nothing to add it to: it waits for its parent.
AddLater(b) ==
  /\ IsNext(b)
  /\ made[b].parent \notin blocks
  /\ batch' = batch \ {b}
  /\ blocks_queue' = blocks_queue \cup {b}
  /\ UNCHANGED <<networkVars, chainVars, pool, txs_for_mempool, miner,
                 returned, passed_over>>

Unwound(b) == made[tip].lineage \ made[b].lineage
Wound(b)   == made[b].lineage \ made[tip].lineage

\* The longer branch; of two branches the burnfee may still speak for the old one.
IsLonger(b) == made[b].id > made[tip].id

\* A mutant: the miner that has found its ticket stays idle.
TellTarget(b) ==
  IF batch = {b} THEN miner' = [miner EXCEPT !.target = b] /\ passed_over' = FALSE
                 ELSE miner' = miner /\ passed_over' = TRUE

\* handle_successful_block_addition: only of the last of the batch the miner is told.
TellMiner(b) ==
  IF batch = {b} THEN miner' = [active |-> TRUE, target |-> b] /\ passed_over' = FALSE
                 ELSE miner' = miner /\ passed_over' = TRUE

\* The chain ends in b.
AddToLongestChain(b) ==
  /\ IsNext(b) /\ made[b].parent \in blocks
  /\ IsLonger(b) /\ \A c \in Wound(b) : made[c].valid
  /\ blocks' = blocks \cup {b} /\ tip' = b
  /\ pool' = RemoveBlockTransactions(
               DeleteTransactions(CollectDiscarded(pool, Unwound(b)), Wound(b)), b, b)
  /\ batch' = batch \ {b}
  /\ TellMiner(b)
  /\ returned' = returned \cap pool'.transactions
  /\ UNCHANGED <<networkVars, blocks_queue, txs_for_mempool>>

AddToFork(b) ==
  /\ IsNext(b) /\ made[b].parent \in blocks
  /\ made[b].parent # tip
  /\ blocks' = blocks \cup {b}
  /\ pool' = RemoveBlockTransactions(pool, b, tip)
  /\ batch' = batch \ {b}
  /\ returned' = returned \cap pool'.transactions
  /\ UNCHANGED <<networkVars, tip, blocks_queue, txs_for_mempool, miner, passed_over>>

\* A mutant: the pool is not marked as having something new.
PutBackSilently(p, T) == [p EXCEPT !.transactions = @ \cup T]

\* add_block_transactions_back: past add_transaction and its marks.
PutBack(p, T) == [p EXCEPT !.transactions = @ \cup T, !.new_tx_added = TRUE]

\* The block, one of ours, does not validate.  It is forgotten (delete_block takes the ticket
\* for it), and its transactions go back to the pool.
AddFails(b) ==
  /\ IsNext(b) /\ made[b].parent = tip
  /\ ~ made[b].valid
  /\ LET back == {t \in made[b].txs : IsSpendable(t)} IN
       /\ pool' = PutBack([pool EXCEPT !.golden_tickets = @ \ {b}], back)
       /\ returned' = returned \cup back
  /\ batch' = batch \ {b}
  /\ UNCHANGED <<networkVars, chainVars, blocks_queue, txs_for_mempool, miner, passed_over>>

AddBlock(b) == AddLater(b) \/ AddToLongestChain(b) \/ AddToFork(b) \/ AddFails(b)

Next ==
  \/ NewGoldenTicket
  \/ \E t \in Tx : NewTransaction(t)
  \/ \E b \in fetching : BlockFetched(b)
  \/ \E T \in SUBSET Tx : BundleWaits(T) \/ BundleFails(T) \/ BundleBlock(T)
  \/ \E b \in batch : AddBlock(b)

\* The timer bundles as soon as the work that is asked for has come down to nothing, the
\* threads go on, and the miner finds a ticket some day.  Nothing is assumed of the peers.
Fairness ==
  /\ WF_vars(\E T \in SUBSET Tx : BundleFails(T) \/ BundleBlock(T))
  /\ WF_vars(\E b \in batch : AddBlock(b))
  /\ WF_vars(NewGoldenTicket)

Spec == Init /\ [][Next]_vars /\ Fairness

-----------------------------------------------------------------------------
(* Properties *)

Pool == [transactions : SUBSET Tx, utxo_map : SUBSET Slip, new_tx_added : BOOLEAN,
         golden_tickets : SUBSET Hash]

\* Every variable has its type; the queues and the tree hold blocks that were made.
TypeOK ==
  /\ made \in Seq(Block) /\ \A h \in Hash : made[h].lineage \subseteq Hash
  /\ tip \in blocks /\ blocks \subseteq Hash
  /\ fetching \cup batch \cup blocks_queue \subseteq Hash
  /\ pool \in Pool
  /\ txs_for_mempool \subseteq Tx
  /\ miner \in [active : BOOLEAN, target : Hash]
  /\ returned \subseteq pool.transactions /\ passed_over \in BOOLEAN

\* Two transactions of the pool spend the same output only if one of them is there from a
\* block of this node that failed (blockchain.rs:1046): otherwise utxo_map keeps them apart.
PooledDoNotConflict == AreDisjoint(pool.transactions \ returned)

\* What waits in the pool can be spent on the longest chain, whatever blocks were added,
\* wound and unwound since it was validated.
PooledAreSpendable == \A t \in pool.transactions : IsSpendable(t)

\* A pool that is not empty is one that can_bundle_block takes for new: new_tx_added is never
\* left behind by what comes back to the pool.
PoolIsNew == pool.transactions # {} => pool.new_tx_added

\* The miner works on the tip, or its ticket for the tip is in the pool, unless
\* the batch that moved the tip went on with a block that did not (blockchain.rs:2340).
TipIsMined ==
  batch = {} /\ ~ passed_over =>
    /\ miner.target = tip
    /\ miner.active \/ HasTicket

\* A transaction leaves the pool only when it is in a block that the node has, or has made and
\* is adding, or when it can no longer be spent; or they all leave it, because one that was
\* put back after a failure and another one spend the same output (block.rs:690).
LeavesForAReason ==
  [][\A t \in pool.transactions \ pool'.transactions :
       \/ \E b \in blocks' \cup batch' : t \in made'[b].txs
       \/ ~ IsSpendable(t)'
       \/ /\ returned # {} /\ pool'.transactions = {}
          /\ ~ AreDisjoint(pool.transactions \cup txs_for_mempool)]_vars

\* Every transaction of the pool leaves it, unless an orphan waits in blocks_queue
\* (mempool.rs:328) or the miner was passed over.
PooledIsBundled ==
  \A t \in Tx : t \in pool.transactions ~> \/ t \notin pool.transactions
                                          \/ blocks_queue # {} \/ passed_over

\* The transactions of an unwound block that are to be collected, and can be spent on the new
\* chain, are in the pool afterwards.
DiscardedAreCollected ==
  [][\A b \in made[tip].lineage \ made'[tip'].lineage : \A t \in made[b].txs :
       IsCollected(t, b) /\ IsSpendable(t)' => t \in pool'.transactions]_vars

=============================================================================
