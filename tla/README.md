# A TLA+ model of the Saito node

The specifications here describe the consensus core of a Saito node
(`src/rust/saito-core`): how a block comes from a peer, becomes part of the longest
chain or fails to, what that does to the transactions that wait, and how the
node stays connected; and, around the core, what the JavaScript side
(`src/rust/saito-js`, `src/node`) makes of it: calls between applications, sockets,
the confirmations that modules are told of. TLC checks them on small instances; TLAPS
proves some of the properties for every value of the constants.

| File | What it is |
|---|---|
| `BlockRing.tla` | the index of the chain by height (`blockring.rs`, `ringitem.rs`), as operators on a value |
| `Blockchain.tla` | the chain of one full node, its queue, its disk, its configuration file (`blockchain.rs` and what it calls) |
| `LongestChain.tla` | what a node promises about its chain, abstractly; `Blockchain` implements it |
| `MCBlockchain.tla`, `MCBlockchain*.cfg` | four block trees and the runs over them |
| `BlockchainProofs.tla` | lemmas about the ring, theorems about the map of blocks, the queue and the disk |
| `ReorganizationProofs.tla` | theorems about the longest chain: flags, ring, head, utxoset and look-ups through reorganisations, and that `Blockchain` implements `LongestChain` |
| `BlockchainSyncState.tla` | which announced blocks are asked from which peer (`blockchain_sync_state.rs`) |
| `Fetching.tla` | the way of a block from a peer into the chain: routing thread, network controller, verification and consensus threads, around the sync state |
| `MCFetching.tla`, `MCFetching*.cfg` | two peers and the runs over them |
| `BlockchainSyncStateProofs.tla`, `FetchingProofs.tla` | the theorems about the sync state, by itself and in the routing thread |
| `Mempool.tla` | transactions, golden tickets and orphans that wait, the bundling of blocks, the miner (`mempool.rs`, `consensus_thread.rs`, `mining_thread.rs`) |
| `MCMempool.tla`, `MCMempool*.cfg` | three transactions, a tree of peers' blocks, and the runs over them |
| `MempoolProofs.tla` | the theorems about the mempool |
| `Peers.tla`, `Peers.cfg` | a browser and its static peer: sockets, handshakes, reconnection |
| `PeersProofs.tla` | the theorems about the peers |
| `ApiCalls.tla`, `ApiCalls.cfg` | calls that applications make to those of a peer, and their answers |
| `ApiCallsProofs.tla` | the theorems about the calls |
| `Confirmations.tla` | confirmations from the core through the handlers of `saito-js` to a module |
| `MCConfirmations.tla`, `MCConfirmations*.cfg` | two trees of blocks and the runs over them |
| `ConfirmationsProofs.tla` | the theorems about the confirmations |
| `PROJECT.json` | components, runs, findings, hazards, theorems, and for every definition the lines it models |

`tlc -config MCBlockchainWindow.cfg MCBlockchain` runs one configuration,
`tlapm BlockchainProofs.tla` checks the proofs of one module.

## 1. The system

A node is a handful of event loops (`saito-rust/src/run_thread.rs`), each of which
takes one event at a time from a channel or a timer, and which share the chain,
the mempool, the wallet, the peers and the configuration behind `tokio` locks.

| Component | State | Operations | Talks to |
|---|---|---|---|
| Block ring (`consensus/blockring.rs`, `ringitem.rs`) | per slot the blocks of its heights and a position; a tip slot | add, delete, reorganise, look up | owned by the blockchain |
| Blockchain (`consensus/blockchain.rs`) | map of blocks, ring, utxoset, head, genesis block id, supply | `add_blocks_from_mempool`, `add_block`, `validate`, `wind_chain`, `unwind_chain`, purge, prune | called with the locks of chain and mempool held |
| Block, transaction, slip (`consensus/block.rs`, `transaction.rs`, `slip.rs`) | contents, `in_longest_chain`, `is_valid`, block type | generate, validate, reorganise, upgrade, downgrade | utxoset, storage |
| Mempool (`consensus/mempool.rs`) | queue of blocks, transactions, golden tickets, spent outputs | add, bundle, delete | consensus thread |
| Storage (`io/storage.rs`) | block files, checkpoint files, wallet, issuance | write, read, delete | disk |
| Consensus thread (`consensus_thread.rs`) | timers, the tickets and the transactions at hand | fetched block, ticket, transaction, timer, start-up | router, miner |
| Routing thread (`routing_thread.rs`) | sync state, `waiting_for_genesis_block` | messages of peers, fetching, handshakes, `BlockchainUpdated` | verification thread, network |
| Sync state (`consensus/blockchain_sync_state.rs`) | per peer the blocks to fetch, status and retries | queue, pick, mark, remove | routing thread |
| Peers (`consensus/peers/*`, `msg/handshake.rs`) | status, keys, congestion counters | connect, handshake, reconnect, expire | network |
| Network (`io/network.rs`, `msg/*`) | none of its own | propagate, request, fetch | peers |
| Verification thread (`verification_thread.rs`) | statistics | deserialize, check, pass on | routing to consensus |
| Mining thread (`mining_thread.rs`, `golden_ticket.rs`) | target, difficulty | mine, send ticket | consensus thread |
| Wallet (`consensus/wallet.rs`) | unspent, pending and staking slips | follow reorganisations, build transactions | chain, mempool |
| Burn fee, routing work, Merkle tree | none | formulas | blocks |
| `saito-rust` | sockets, downloads under way, files | run the core as a server | core |
| `saito-wasm`, `saito-js` | sockets by peer index, promises by callback index, callbacks by block | run the core in a browser or under node | core, applications |
| `node/lib/saito` | sockets of the server, modules, affixed callbacks | serve peers, answer their calls, tell modules of confirmations | `saito-js` |
| `saito-spammer`, `saito-e2e`, the rest of `node/` | load generator, tests, the application platform | | |

What is hard, and what each part owes the others:

* **Ring and chain.** The ring, the flags of the blocks, the utxoset and the head
  are updated one by one for every block wound or unwound, by code that looks
  blocks up with `unwrap`. They must tell the same chain after any sequence of
  forks, failed reorganisations, deletions and restarts, and the loop that winds
  and unwinds must end: it runs with the locks held.
* **Order.** Blocks arrive before their parents and in any order within a height;
  nothing that arrived may be left in the queue once it can be added.
* **Window.** Slots of the ring are shared by heights `2 * GenesisPeriod` apart, and
  old blocks are pruned and deleted meanwhile.
* **Crash and restart.** The chain is rebuilt from the files; the head is read from
  a configuration that another thread saved at another time.
* **Fetching.** Every peer has its list; blocks fail to arrive, arrive twice or
  from somebody else. No block may be lost and no quota exceeded.
* **Peers.** A peer may reconnect while its old connection still counts.
  A late message or a late close must not undo the new connection.
* **Mempool.** Transactions come back from failed and unwound blocks, past the checks that
  keep the others apart; whatever the chain does, what waits must be spendable, and must
  be bundled in the end.
* **Mining.** The miner must learn of every new tip.
* **JavaScript.** Handlers are asynchronous: two calls of one turn, a lock that the core
  holds while it goes on, a block pruned between two awaits. An answer must reach
  the call it belongs to, a confirmation the module, once.

`PROJECT.json` lists each of these at its line of code ("hazards"), with the
properties that cover it or the reason why none does.

## 2. How the model corresponds to the code

**A block is its hash.** What its contents decide once and for all is a constant:
height, parent, burn fee, whether it holds a golden ticket, the slips it spends and
creates, whether `generate()` fails (`Ungenerable`), whether a check of `validate()`
that no state of the node sways fails (`Unsound`, `BadTransactions`), what its
checkpoint file names. What depends on the node is a variable. The consensus
values of a block (fees, payouts, rebroadcasts, difficulty) are part of "sound".

**One call, many steps.** `add_blocks_from_mempool` holds the locks of the chain and of
the mempool until its batch is empty, so nothing else touches the chain in
between, but a crash may strike anywhere. `pc` names the place:

| `pc` | Code | Actions |
|---|---|---|
| `idle` | no call | `ReceiveBlock`, `IgnoreBlock`, `HandleUpdate` |
| `batch` | the loop over the sorted batch, and the first tests of `add_block` | `Refuse`, `Postpone`, `TakeIn`, `EndBatch` |
| `new chain` | `calculate_new_chain_for_add_block`, a block a step | `ExtendNewChain`, `FindSharedAncestor`, `MissSharedAncestor` |
| `old chain` | `calculate_old_chain_for_add_block`, `calculate_old_chain_upto_length` | `ExtendOldChain`, `EndOldChain` |
| `select` | `is_new_chain_the_longest_chain`, the start of `validate` | `SelectOther`, `SelectLongest` |
| `unwind` | `unwind_chain` with its `on_chain_reorganization` | `UnwindBlock`, `UnwindCheckpoint` |
| `wind` | `wind_chain` up to `update_genesis_period` | `WindBlock`, `RejectBlock`, `WindCheckpoint` |
| `purge` | `delete_blocks`, a block a step; then `downgrade_blockchain_data` | `PurgeBlock`, `EndPurge` |
| `verdict` | `validate_total_supply` after `validate` | `Accept`, `Fail` |
| `success` | `add_block_success`, the checkpoint file, the events | `Succeed` |

`wind` holds the arguments of the pending `WindingResult`, positions counted from 1.
`validate()` passes its own `new_chain` and `old_chain` to `wind_chain` and
`unwind_chain`, whatever slices a failed `wind_chain` handed back; only the slice
handed to `unwind_chain` survives, as the length at which winding starts again. That is
why `wind` keeps a length (`slice`) and no chain.

**Blocks of one height** are taken from the batch in any order: the code sorts by
height with a stable sort, so that their order is that of their arrival, and the
outside world chooses it. After a restart it is the order of the files, which the
model leaves open too: a file name starts with the timestamp of the block, which is
not modelled.

**Restart.** `Crash` empties the memory, reads the head from `config` and puts every
file into the batch; `EndBatch` does what is left of `on_init`. Files are loaded in one
portion (the code takes 10000 a time) and old ones are deleted (`delete_old_blocks`
is true on a server).

**Other threads.** `HandleUpdate` is the routing thread's answer to `BlockchainUpdated`; it
runs between calls because it takes the lock of the chain. `ReceiveBlock` stands for
the whole way of a block from a peer to the consensus thread and for the bundling
of an own block, which enters through the same queue. The constant `FirstBlock` and
the variable `waiting` say what a node that starts without blocks may receive first:
the block a peer names in `GenesisBlockHeader`.

**The lists of a peer.** `BlockchainSyncState` has one action for each method that changes
the lists, and a next-state relation, `SyncNext`, that calls them in any order. Whenever
the routing thread is between two events a list is sorted by height and hash (only
`get_blocks_to_fetch_per_peer` reads the order, and sorts first) and names no header twice, so
a list is a function from headers to entries, `Unlisted` standing for no entry.
`build_peer_block_picture` and `get_blocks_to_fetch_per_peer` are only ever called one
after the other, and are one action, `ScheduleFrom`. Its loop stops when the quota is used
up: it meets the entries with fewer pending ones before them than the quota (`Met`).

**From peer to chain.** `Fetching` extends the sync state with the threads around it:

| Code | State | Actions |
|---|---|---|
| routing thread | the lists, `selected`, `network_events`, `routing_events` | `Announce`, `Tick`, `RequestNext`, `HandleBlockFetched`, `HandleBlockFetchFailed`, `HandleBlockchainUpdated`, `HandleBlockFetchRequest` |
| peers | `peers` | `Depart` |
| network controller, a task for each fetch | `fetches`, `current_queries` | `StartDownload`, `SkipDownload`, `FinishDownload`, `EndTask`, `FailDownload` |
| verification threads | `verifying` | `Verify` |
| consensus thread, `add_blocks_from_mempool` | `fetched_blocks`, `blocks`, `blocks_queue` | `HandleFetchedBlock` |

The routing thread handles one event at a time, but `fetch_next_blocks` awaits a lock for
every block it asks for: `selected` is what it still has to ask for, and while it is not
empty the other threads go on and the routing thread takes no further event (`Ready`). Channels are
sequences; several verification threads empty theirs in any order. A task is a peer, a header and a
place in `fetch_block`; two tasks may be alike, hence a bag. What a peer sends is the
constant `Serves` (the block), `Corrupts` (something else) or, for the rest, a failure; a
download of a served block fails at most `MaxFailures` times. A header may be announced
`MaxAnnouncements` times by a peer.

In `Fetching` the chain is the set of its blocks, since fetching asks only whether a block is
in it: `HandleFetchedBlock` is a whole call of `add_blocks_from_mempool`, which holds the locks.
The node has a first block and has loaded its disk, no block is too old, and all
peers run the node's version.

**Left out of the chain:** ghost blocks of lite clients, NFT bookkeeping, the wallet's
view of a reorganisation, fork ids. None is read by what is modelled.
Transactions that go back to the mempool and confirmations have modules of their own. `Succeed` leaves out that
`on_confirmation` reads the transactions of the blocks it visits back into memory (`blockchain.rs:803`): those are too young
to have been pruned as long as `prune_after_blocks` is not below `block_confirmation_limit`, as `consensus_thread.rs:539` asserts.

**The promise of the chain.** `LongestChain` knows only a set of blocks and a tip. Learning a
block either makes it the tip, when its branch is longer and not lighter
(`Beats`), or changes nothing else; old blocks expire, never the tip; a restart
begins anew. `Blockchain` implements it under the mapping `Chain`: the blocks are those of the
map without the one being added, the tip is the one before the call until the call
is over. All the steps in between (winding, unwinding, failing, purging) are
stuttering, and a failed call leaves no trace. The mapping is checked on the reject tree. It does not
hold in `window` after a restart: there the parents of the loaded blocks may have been
purged, so that work can no longer be compared up to the shared ancestor, and the code
takes a chain without one by its length alone.

**The mempool.** `pool` has the fields of `Mempool` that decide something; `made` is the tree of all
blocks, own and of peers, and `tip` stands for the chain, utxoset included: an output is
unspent on the chain that ends in a block if no block of its lineage spends it.

| Code | Actions |
|---|---|
| `verify_tx`, `ConsensusEvent::NewTransaction` | `NewTransaction` (`txs_for_mempool` and the channel to it are one set) |
| `MiningThread::process_timer_event`, `add_golden_ticket` | `NewGoldenTicket` |
| `ConsensusEvent::BlockFetched` | `BlockFetched` |
| timer of the consensus thread, `bundle_block` | `BundleWaits`, `BundleFails`, `BundleBlock`; each takes in `txs_for_mempool` first |
| `add_blocks_from_mempool`, one block a step | `AddLater`, `AddToLongestChain`, `AddToFork`, `AddFails` |

While `batch` is not empty the locks are held, and nothing but the adding of its blocks
happens. `AddToLongestChain` does all of a reorganisation at once, in the order
of the code: the transactions of the unwound blocks are collected, those of the wound ones
deleted, then what can no longer be spent and the block's own transactions go
(`remove_block_transactions`), and the miner is told if the batch is empty. A pool entry that a failed
block of the node puts back is remembered in `returned`, since it has come
past `add_transaction`; `passed_over` remembers that a batch moved the tip and went on. Both are history.
All transactions spend outputs of the first block (chains of transactions are left out), blocks
of peers are a fixed tree and validate, and a block of the node may fail for any reason
(`MaxBad` times) or because a transaction it holds cannot be spent. Routing work, burn
fee, the time and the staking transaction only delay bundling or make it fail. Golden tickets are those of the
node's own miner: tickets that peers send (`consensus_thread.rs:466`) would go into `golden_tickets` without stopping the miner.

**Peers.** One client and one server. `ready`, `wire` and `handled` are the two ends of each WebSocket,
`sockets` the map of `saito-js`, `events` the calls that wait for the core (`HandleEvent`), `peers`,
`address` and `pending` the peer collection. At the client every connection has index 0 and
the handlers cannot tell one socket from the next; at the server each has its own, which it
gets after an await (`AssignIndex`). `HandleEvent` is a whole handler of the core: a new peer,
a handshake message (`Greeted`, `Challenged`, `Responded`), a ping, a disconnection. `Dial` is
`connect_to_static_peers`, `DisconnectStale`, `RemoveDisconnected` and `SendPing` are the timers; `Break` is the
network. The operators on `World` compose what one handler does in its order. `TakePlace` leaves out the
`ForcedDisconnection` message that goes before the close (`network.rs:789`), and takes one waiting peer at a time where the timer
takes all whose time has come. Of the messages after the handshake only pings and pongs are sent; any other would
move the timer of its peer, and strike those that wait to take its place, in the same way.

**Calls.** `Issue` to `SendRegistered` are the two halves of `sendApiCall` around its
await; `Transmit`, `Receive`, `ModuleReturns`, `ModuleAnswers`, `Finish` and `Deliver` take the request to the
modules of the peer and the answer back; `Connect` and `Disconnect` lose what is on the way.
A call is known by its index only, as in the code.

**Confirmations.** `AddBlock` is what `add_block_success` does to confirmations (`on_confirmation`:
`Visited`, `Counted`, `Kept`) and to pruning, while the core holds its lock; `Release` gives it
back. Each event starts a handler, a record that says at which await it is: `LookUp`,
`AffixCallbacks`, `RunCallbacks`, `CallBack` for a confirmation, `SeeAdded` and `DeleteCallbacks` for a new block.
Handlers run side by side. Each block has one transaction of one module. Deletion of whole blocks and
`prune_blocks_after_add_block`, `GenesisPeriod` below the tip and past every confirmation, are those of `Blockchain` only.

## 3. What is checked

Eight runs pass and four end in a counterexample that section 4 explains.

| Run | Instance | Properties | Shows |
|---|---|---|---|
| `reject` | eight blocks: one unsound, one that cannot be read, a branch without tickets, a lighter branch; one crash; 150,350 states | `BlocksAreOnDisk`, `LongestChainWins`, `KeepsLongestChain` | all pairwise choices taken together choose the longest chain; winding and unwinding implement `LongestChain` |
| `window` | nine blocks, seven heights in a ring of four slots (`GenesisPeriod` 2), with a fork; one crash; 846,622 states | `TypeOK`, `RingIndexesBlocks`, `RingAgreesWithFlags`, `LongestChainIsLinked`, `UtxosetIsReplay`, `HeadIsTip`, `NoStrandedBlock`, `NoPanic`, `GenesisIsServed`, `RestartKeepsHeight` | sharing of slots, forks, pruning, purging and a restart from what is left on disk: index, flags, utxoset and head tell the same chain, every lookup finds its block, no block is stranded |
| `checkpoint` | a checkpoint on one branch, an unsound block on the other; 5,372 states | `LongestChainIsLinked`, `AddBlocksTerminates` | a reorganisation stopped by a checkpoint ends, and leaves one linked chain also when the older one had been unwound by then |
| `bad_start` | two branches over one block, the first block of the longer one unsound | `AddBlocksTerminates` | violated |
| `fetching` | blocks 2 and 3 in a row, of which 3 is announced twice by each peer; p1 serves both, p2 serves 2; one failure, `BatchSize` 1, `MaxRetries` 1; 173,360 states | `TypeOK`, `QuotaIsKept`, `FetchingIsInHand`, `JoinedBlocksLeaveLists`, `ServedBlocksArrive` | through retries, answers of another peer, new requests for a block whose download is not over, orphans and the departure of p2, the quota is kept, no entry waits in vain for a block the node lacks, served blocks arrive and joined ones leave the lists |
| `fetching_drop` | the same, p1 may leave | `EntriesLeaveForAReason` | violated |
| `mempool` | three transactions, two of which conflict, one of them made by the wallet; five blocks of peers in two branches, own blocks as they come, one of them bad; 140,329 states | `TypeOK`, `PooledDoNotConflict`, `PooledAreSpendable`, `PoolIsNew`, `TipIsMined`, `LeavesForAReason`, `PooledIsBundled` | through forks, reorganisations, orphans and failing own blocks, what waits can be spent and is bundled in the end, leaves for a reason only, and the miner is at the tip |
| `mempool_recollect` | the same, no bad block | `DiscardedAreCollected` | violated |
| `peers` | two connections, one failure, one silence, one ping | `TypeOK`, `AddressIsOfThePeer`, `ConnectedHasSocket`, `ClientConnects` | through reconnections that overlap the end of the old connection, keys and sockets stay with the right peer, and the client connects again |
| `api_calls` | two calls, one peer, one module, one lost connection | `TypeOK`, `AnswersGoForward`, `LatestKeepsItsIndex`, `ReceivedCallIsSettled` | which promise an answer reaches; a call the peer has taken is settled |
| `confirmations` | a branch of two and one of four blocks over a first one; limit 2, pruning after 2 | `TypeOK`, `ChainIsConfirmed`, `ConfirmedOnce`, `LostWhenPast`, `ConfirmationsArrive` | every block of the chain is confirmed, a module is told of each confirmation once, and of all of them unless the block has grown old |
| `confirmations_fork` | a deeper branch, limit 1 | `ChainIsConfirmed` | violated |

**Bounds.** The trees are the bound: `Hash` is finite, and each block is received at
most until it is in the chain. In the reject tree a branch of three stands
against one of four, so that reorganisations of more than one block follow one another in both
directions; a ring
of four slots and seven heights uses three slots a second time, one of them that of a fork, and
purges three heights. `PruneAfter` is 1 or 2, so that transactions are pruned and
read back within these heights. `MaxCrashes` is at most 1: a second restart starts from
what the first one left on disk, which a first crash at another moment leaves as well,
except for the configuration. `GenesisPeriod` is 10 where the window is not the question.

In `MCFetching` two blocks in a row are the least that give an orphan, and a quota of
one makes them compete for it; two peers give an answer of somebody else and a list that is
left behind. One failure and one retry bring an entry through all its states, to the one
that is given up included: p2 never serves block 3. The second announcement (`MaxAnnouncements` 2) lists
a block again after its entry has gone: TLC finds states of this instance in which a failure event meets the entry of a
newer request, or one that is queued again, in which a task is skipped because the url of the last
download has not been given back, and in which the entry of the skipped one waits in vain.

In `MCMempool` two transactions that conflict and one that does not are the least for a
conflict to come past the marks while something else waits; two branches of peers, of which the
second overtakes the first and splits, give a fork, an orphan and a reorganisation in either order with own
blocks between them; golden tickets are needed for every second block, so that bundling
does wait for the miner. Transactions run out, and own blocks with them: that bounds
`made`. One bad block is enough, as each puts back all it had. In `Peers` the second
connection is the one that meets the end of the first; a third would meet that of the
second in the same way. Two calls are the fewest that can share an index, one module
and one loss of the connection bring a call to each of its ends. In `MCConfirmations`
`PruneAfter` and `DeleteAfter` are as small as the code's own assertion allows, so that
handlers do come too late, and three handlers at a time (`MaxHandlers`) are two for one block and
one for another.

**Fairness.** `WF_vars(AddBlocksStep)`: a task that holds the locks is not suspended for
ever, and nothing it waits for is held by another. `WF_vars(HandleUpdate)`: the routing
thread takes its events and the lock becomes free. Nothing forces a peer to send a
block, nor a node to crash. Liveness needs nothing stronger, since no two of
the steps of the call compete except in the order of blocks of one height.
In `Fetching` it is `WF_vars(NodeStep)`: as long as some thread or task of the node has
something to do, something is done. A download ends by its timeout of ten seconds, the timer ticks,
and the event loops choose among their channels at random (`tokio::select!`). It says
nothing about which of them moves; more is not needed, as all but the timer run out of work,
and the timer is the only thing left then.

In `Mempool` the timer bundles when it can (the work asked for comes down to nothing
with time), a batch is finished, and the miner finds a ticket some day; nothing is assumed of peers.
In `Peers` the timers, the core and open sockets go on, and nothing makes the network break or a
peer fall silent. In `ApiCalls` and `Confirmations` every program that waits for a message, a
lock or a return gets it; no module has to answer and no application to call.

**What the properties except.** `PooledDoNotConflict` excepts what a failed block put back, `TipIsMined` and
`PooledIsBundled` a miner that was passed over, `PooledIsBundled` also an orphan in the queue,
`LeavesForAReason` the bundling that fails on a double spend. Each of these happens in the
run, and each property fails without its exception: the code does what the exception
says (section 4). `ClientConnects` asks for one socket at a time and no late ping, `ConfirmationsArrive` and
`LostWhenPast` allow for blocks that have grown old, `ReceivedCallIsSettled` for modules that take a
request and never answer.

**What `ServedBlocksArrive` asks for.** A block is served with all its ancestors by a peer that
lists it; it arrives unless a peer leaves, which takes blocks off the other lists as well
(finding 2), or an entry waits for ever without an answer to come (`WaitsInVain`): a request made before
the url of the last download is given back gets none, and its entry uses up a part of the quota, so that what is behind it
is not asked for (section 4). TLC finds that case, and the property violated without this exception. All
answers of the run are intact: a corrupt one marks the block as fetched
on every list, and it is asked for again only when somebody announces it again.
`FetchingIsInHand` has the same condition, and says how far the harm goes: the block of an entry that waits in vain is one
that the node has, or will have when its threads get to it.

**Restart.** In `window` all blocks weigh the same, and a restarted node is as high as it was; section 4
says what happens otherwise. `HeadIsTip` is restricted to nodes that never restarted, because
`last_block_id` is read from the configuration and only moved by a higher block.
`UtxosetIsReplay` is stated for a node that has loaded its disk: in `window` a fork block
whose parent was purged may be loaded first, is wound without validation, and gives
back an input of the missing parent when it is unwound. That slip is out of the window
once the loading is over.

## 4. Findings

Where a comment or a test says otherwise than the code does, a run shows it:

1. **`bad_start`** — `blockchain.rs:1704` says of a reorganisation whose first block fails that "we can just roll out the older
   chain again as it is known good". The code returns `Wind(old_chain.len() - 1, true)`, and `validate()` winds
   *new_chain* at that position. In the run a2 is the tip, b2 of the branch b2, b3 does not validate, and a2 has been
   unwound: position 0 is b3, which fails, since b2 is not there. Now a *later* block of the branch has failed, and the code returns
   `Unwind(0, true, [b2], old_chain)`, as if b2 had been wound. `unwind_chain` works on `old_chain` and unwinds a2 a second time; winding
   starts again at position 0, the length of the slice less one, with b3. It is rejected again, and
   so on: unwind a2, reject b3, for ever, with the locks held. A branch whose last block fails instead goes
   the same way: b2 is wound once and stays, and then a2 is unwound and b3 rejected for ever.
2. **`fetching_drop`** — `routing_thread.rs:883` strikes a block off "if we already have" it. The same
   branch is taken for a peer that is gone or has no url, and `remove_entry` strikes the block off
   the lists of the other peers too.
3. **`confirmations_fork`** — `blockchain.rs:793` says that reorganisations do not break confirmations. The walk stops below the
   lowest id that was stored for the *old* branch, so that after a reorganisation deeper than
   the limit the lower blocks of the new chain are never confirmed.
4. **`mempool_recollect`** — "collect any txs we created" (`blockchain.rs:1813`), and the test
   `recollecting_discarded_txs` counts them. The marks in `utxo_map` outlive the transaction that
   set them when it leaves the pool by a peer's block: after a reorganisation it is refused as a double
   spend of itself.

The passing runs keep invalid blocks at places where 1 does not strike (a
failing block that extends the tip, or is stopped by a checkpoint). That a failure after the older chain was unwound brings
that chain back is therefore neither checked nor proved: it is not so.

Met while modelling, each by a counterexample of TLC or a reading of the code, and not run:

* *Chain.* `blockchain.rs:2747` expects "a latest block in blockchain" when the supply is checked. `RingItem::delete_block`
  gives a slot position 0 when it takes out a failed block, also when the slot is empty then. If that was the first
  block the node ever got, the next one of height one stands where the position points, passes for a block of the longest chain before
  it is wound, and the check, which would have been skipped, finds no tip: the `expect` panics (met while proving `NoPanicCorrect`; no passing
  tree has a failing first block). Where finding 1 does not go on for ever, because the later block of the failing branch validates without the one before
  it (it spends nothing of that one), or because a checkpoint stops the winding (in `checkpoint`), the
  node is left without the tip it had. Blocks off the longest chain are written to disk without
  having been validated, although `storage.rs:140` says only valid ones are. When a
  longer branch is the lighter one, the node may end lower after a restart than
  before: the reload sorts by height only, and chooses anew among blocks of one
  height (`consensus_thread.rs:1600` asserts that it does not).
  Met while proving: `delete_block` takes the *inputs* of every block it deletes out of the utxoset, those of a fork block that was
  never wound too, which is harmless only because an input is older than its block; the inputs of a block are not
  looked up at all (`has_total_supply_loaded`) when the block `GenesisPeriod` below is unwound as well; `add_block_success` freezes the slips of a
  checkpoint file for a block that has not become the tip (TLC shows it on the tree of `checkpoint`); and a fork that left the chain before the window
  is compared by what is left of the chain.
* *Fetching.* `BatchSize` bounds entries, not downloads: another peer's answer frees the quota while
  the download goes on. The url of a successful download is given back after its
  event; a request in between is dropped, and its entry stays in `Fetching` until its block joins the chain. If it is an orphan, whose parent
  is asked only of the peer the orphan came from (`blockchain.rs:2520`), and the entry uses up the quota of that peer, the parent is never asked for and
  the orphan waits for ever (TLC, with a quota of one).
* *Mempool.* A block that only joins a fork takes its transactions out of the pool
  (`add_block_success`). After a failed own block a conflict in the pool makes
  `Block::create` drop all pooled transactions, whose marks stay. Routing work is not counted for what
  is put back. A batch whose last block does not move the tip leaves the miner at
  the old one until the next block. An orphan in `blocks_queue` stops bundling.
  In a reorganisation the tip is unwound first, so that a transaction that spends an output of another
  unwound one is validated before that other one is back, and is not collected.
* *Peers.* The client dials again while an attempt is under way, and `addNewSocket` forgets the socket that
  is there without closing it (`peer.rs:92` wants one socket a peer). A late ping of the old connection takes the new one off
  the pending handshakes, without closing it, and the client stays in `Connecting`. The server gives a
  socket its handlers only after an await: a close in between is lost and the peer stays.
  The browser's `onerror` closes whatever socket the index has by now. Stale peers are marked, not closed.
* *Calls.* Two calls of one turn share the later index, and the earlier is never answered;
  a call that does not wait is sent with the current index, so that its empty answer settles
  another one's promise. Promises are never removed and have no timeout; `sendApiError` is never called; a callback that throws is
  called again with the error.
* *Confirmations.* Blocks of a batch longer than `prune_after_blocks` are pruned before the handlers run (a TODO at
  `blockchain.rs:2369` says so). Callbacks of fork blocks are never deleted. Only the first
  block of a height gets `safe_to_prune_transactions`.

## 5. What is proved

The first part of `BlockchainProofs` proves the ring's methods one by one: each keeps a ring a ring; `add_block`
adds exactly one entry (`AddToRingHolds`); `delete_block` takes out exactly the
entry it is given, whatever the positions (`DeleteFromRingHolds`, from
`WithoutEntryHashes`); a reorganisation moves positions only (`ReorganizationHolds`). `HoldsExactly(r, S)`
says that each slot of `r` lists the blocks of `S` with its heights, `HoldsOnce(r)` that none is
listed twice. A second group of lemmas says what each method makes of a slot's *longest chain entry* and of
the tip, and of those of every other slot.

`BlockchainProofs` proves, for all values of the constants that satisfy the named
assumptions (`RingAssumption`, `BlockchainAssumption`):

* `TypeCorrect`: `Spec => []TypeOK`. `TypeOK` is not inductive: `Fail` and `Succeed` use
  `adding` as a block, and `EndPurge` counts `wind.index` down. The invariant `TypeInv` adds that
  a block is being added whenever the call is past its tests (`AddingIsBlock`), and that
  the index is not zero while blocks are purged (`WindIsUnderWay`).
* `IndexCorrect`: `Spec => []RingIndexesBlocks`. The map and the ring hold the same blocks, the ring
  each once and in the slot of its height, also across a failed reorganisation.
  The argument: only `TakeIn`, `Fail`, `PurgeBlock` and `Crash` change either, and each
  changes both (the lemmas above); all other steps change positions only.
* `DeletedAreKnownAlways`: `Spec => []DeletedAreKnown`, the part of `NoPanic` about `delete_block` and
  `prune_blocks_after_add_block`: what they are told to delete or to prune is in the map, so their look-ups find it. It follows from
  `IndexCorrect`, because both are told by what the ring lists (`EntriesAreBlocks`), and a block
  leaves the map and the set of those still to delete in one step (`PurgeStaysKnown`).
* `DiskCorrect`: `Spec => [](crashes = 0 => BlocksAreOnDisk)`. Every block of the map but the
  one being added has its file, so that a pruned block can be read back. Inductive with
  `crashes = 0 => loaded`. It is claimed up to the first restart only: afterwards `on_init` deletes
  the files below the loaded tip's window by their height, and whether the map
  can still hold one of them depends on what was loaded.
* `NoStrandedBlockAlways`: `Spec => []NoStrandedBlock`, if blocks are higher than their parents (`ParentsAreLower`;
  `Block::create` sees to that, `block.rs:634`; `validate()` does not look). `QueueInv` adds that nothing in the
  queue is above what is left of the batch: a block taken from the batch is at least as high as those put
  back before it, and so the parent of none of them. Crashes and failures included.

`BlockchainAssumption` asks for types, for `Id` to be positive, and that no block spends
what it creates; it does not say that the block tree is a tree of consecutive heights,
so these theorems (but for the last) hold for malformed blocks too.

`ReorganizationProofs` proves what a reorganisation must not break, `RingAgreesWithFlags`, `LongestChainIsLinked`, `HeadIsTip`,
`NoPanic` and `GenesisIsServed`, each a consequence of one inductive invariant,
`ReorgInv` (`ReorganizationCorrect`). Neither the five nor their conjunction are inductive: most are about
the chain *between* two calls, and while `wind_chain` and `unwind_chain` run, flags, ring and head disagree. `ReorgInv` says how:

* `Core`, at every step. The blocks that are on the chain at the moment (`Wound`: the flagged ones, without the new one
  whose flag `add_block` sets ahead, and without those about to be deleted) are a path from the tip down to where the parents end
  (`IsPath`); up to the head the ring names exactly them (`IsNoted`); no block is below the ring's reach, or
  at a height where neither the chain nor what was just unwound has one (`IsCovered`); a block off the chain has its parent, or
  stands where a chain may start (`IsGrounded`). For each operation of the ring a lemma says what becomes of
  `Core` (`CoreTakesIn`, `CoreUnwinds`, `CoreWindsHead`, `CoreWindsBelow`, `CoreWindsFirst`, `CoreLosesBlock`).
* What `add_block` is about to do. `NewWalk` and `OldWalk` follow the two walks to the shared ancestor; `Branches`, `Unwinds` and
  `Winds` say where along its two chains a reorganisation is, and that the blocks still to be wound have not been
  deleted. The last is the heart of `NoPanic`: winding the first block above the old head deletes what is `RingSize` below,
  and the old chain and the new one may both start there (`StartsAtEdge`). `PathIsUnbroken`
  (every height between a block of the chain and the tip has one) keeps deletion to the lower end of the chain.
* `StartInv`, `WaitInv`: a node without a block, and what it takes for its first. `PurgeInv`, `AddingInv`, `RestoreInv`: what is
  being deleted, that nothing was built on the block being added, and, for the refinement, that a block that failed before anything
  had moved left the tip.

On `ReorgInv` rest three further results:

* `LongestChainWinsCorrect`: `[]LongestChainWins`. `add_block` compares two *segments*, the new block's branch and the chain above the
  block where they meet; the property is about whole branches and about every known block. `ChoiceInv` (`ChoicesCorrect`) has two parts:
  no block whose branch is known down to its first block, the new one apart, beats the tip (`NoneBeats`), and what was decided for the new one is what the comparison of
  the whole branches says (`DecisionInv`). The step at `select` needs that work is a sum over a disjoint union, so that what both branches
  share cancels, and that the two walks collect exactly what is above the shared block. A block that is deleted takes its branch
  out of the comparison; the unwound tip stays in it, and so no block has to be compared twice. `Ancestors` and the sum of burn fees
  are used through their equations; that these have solutions is again a least closed set, and where a fact holds of every branch or
  of every finite set, the argument takes a least counterexample (`LeastNumber`, `LeastFiniteSet`) instead of an induction.
* `KeepsLongestChainCorrect`: `Blockchain` implements `LongestChain`. The refinement mapping hides the block being added until
  the call is over; a call is one step that learns a block and chooses between it and the tip, and a deletion is one that
  forgets. `StandsInv` adds that the old tip is still there when the choice is told.
* `UtxosetIsReplayCorrect`: `[]UtxosetIsReplay`. `ReplayInv` says at *every* step, half-way through a reorganisation too, which
  slips may be spent: from the edge of the window on, exactly the live ones of the branch of the block wound last (`UtxoInv`);
  the blocks wound were validated (`WoundInv`), and only what is old is deleted (`PurgedInv`). It is not enough
  to know that a block's inputs were there when it was validated: a block that is wound again after a failed or undone
  reorganisation is not validated again. `ValidInv` therefore keeps the verdict for a block off the chain too: its inputs are live in its *branch*, which does
  not change. Unwinding is the inverse of winding only then.

The hypotheses:

* `BlocksFollowParents`: a block is one higher than its parent, and a first block has height 1. `Block::create` makes them so.
* `PeersAgreeOnStart`: the blocks a node may be told to start from have all no parent, or all have one, that is, peers do not
  disagree on whether the chain starts at its first block. Without it TLC finds `RingAgreesWithFlags` violated: a node that
  started at height 2 is given another branch from height 1.
* `FailsBeforeItMoves`, an action property. No crash: after one the head is read from the configuration, the files of one
  height come in an order of their own, and `HeadIsTip` is not even claimed. A failure strikes before the chain has
  moved for the block: it is at a checkpoint of the old tip, or at the first block of a branch that extends the tip; further on,
  `validate()` goes on with the wrong chain (finding 1, and the remarks on the chain in section 4). The total supply
  does not fail *after* the last block, when `add_block_failure` would delete the block that is the tip by then. The very
  first block of a node does not fail (section 4, first among the remarks on the chain). Golden tickets may be missing on any branch: that is seen before anything moves.

* `ForksAreRecent` (for the refinement only): the branches that are compared meet in a known block or start with the chain, and the old tip
  is not deleted before the new one is accepted. A chain longer than the ring loses its first blocks; a fork that left it earlier is compared with what is left.
* `SlipsAreDated`, `StartsAtFirst`, `InputsAreChecked`, `FreezesAtTip` (for the utxoset only): an output carries the height of its block and an input that of
  an earlier one, as `generate()` makes them; the node starts with the first block of the chain, since one that starts later does not know what
  came before; inputs are looked up whenever a block is wound, and a checkpoint freezes slips only for the block that has become the tip (section 4).

Without crashes, TLC finds the action properties `FailsBeforeItMoves`, `ForksAreRecent`, `InputsAreChecked` and `FreezesAtTip` satisfied by every
step of `reject` and of `window`, so that on these trees the theorems say what the runs check, and the first and the last violated on the tree of `checkpoint`.

TLC checked `ReorgInv` as an invariant under these hypotheses on the trees of `reject`, `window`, `checkpoint` and a short fork before
it was proved. All trees satisfy the two about constants; on three blocks do fail within the third, and in `window` blocks are deleted.

`BlockchainSyncStateProofs` proves `SyncStateCorrect`: `SyncSpec => [](SyncTypeOK /\ QuotaIsKept)`, for every finite
set of headers, every set of peers, `BatchSize` and `MaxRetries` (`SyncStateAssumption`), and for any
methods called in any order. Every method but `ScheduleFrom` can only take entries out of
`Fetching`. For `ScheduleFrom`, the pending entries a round meets have different numbers of
pending entries before them, all below the quota: an injection into `0 .. quota - 1`, so
that at most quota of them become `Fetching` (`SelectionFitsQuota`, `RoundFits`).

`FetchingProofs` proves about the threads around the sync state, for any peers, headers, tree of blocks and bounds:

* `FetchingTyped`: `Spec => []TypeOK`. The types are inductive once it is added that the first block stays in the chain.
  The work is in what `HandleFetchedBlock` tells the routing thread: that a parent asked for is a header that peers could
  have announced.
* `FetchingCallsSyncState`: `Spec => SyncSpec`. Every step of every thread is one call of a method of the sync state or leaves the
  lists alone, so that `Fetching` implements `BlockchainSyncState`, and `QuotaIsKeptAlways` follows.
* `FetchingIsInHandAmongHonestPeers`: `PeersAreHonest` asks that a peer answers with the block it is asked for or not at all,
  that announced headers have the height of their block, and that no block is invalid; without the first the
  property does not hold (section 3). `HandInv` adds that a url is held by a task, and that a task which has
  finished has its answer in the channel or its block has arrived. The last needs the converse of the recursion in `Joining`: a
  block whose parent is in the chain does join. Its solution is constructed as the least set closed under the
  rule (`JoinsIsSolved`), which takes no induction.

`MempoolProofs` proves, for every set of transactions, every tree of peers' blocks that validate and any
number of own blocks that fail (`MempoolAssumption`):

* `TypeCorrect`, from which two invariants follow that are inductive with it: `PooledAreSpendableAlways`, since
  every step that moves the tip filters the pool at the new tip, and `PoolIsNewAlways`.
* `PooledDoNotConflictAlways`. The strengthening `ConflictInv` says that what the pool holds is marked unless it
  was put back (`PooledAreMarked`), that no chain of valid blocks spends an output twice
  (`ChainsAreDisjoint`), and that the longest chain is one of them (`TipIsValid`). The last two are needed for a
  reorganisation: what is collected comes from one chain and is therefore
  free of conflicts, and what the marks let pass does not conflict with the rest (`UnionIsDisjoint`).
* `TipIsMinedAlways`. `MinerIsAtTip` drops the condition that no batch is under way; that a failed block does not take
  the tip's ticket with it needs that no block is its own parent (`ParentsAreOthers`).
* `LeavesForAReasonAlways`, an action property, from `ConflictInv`: as long as nothing was put back, what is
  taken in cannot conflict and `Block::create` meets no double spend; and a transaction that goes
  with a wound block can no longer be spent, because its inputs are not empty.

`ApiCallsProofs` proves, for any number of calls, peers and modules (`ApiCallsAssumption`), `TypeCorrect`, `AnswersCorrect`
(`AnswersGoForward`) and `LatestCorrect` (`LatestKeepsItsIndex`). What is in flight bears an index not below that of its own
call (`Forward`), a call has one promise (`Unique`), and one that has none yet has left no
trace (`Fresh`); `Inv` is the conjunction of these.

`PeersProofs` proves three invariants, for any number of sockets, failures, silences and pings (`PeersAssumption` says only that the bounds are numbers).

* `AddressIsOfThePeerAlways`. Every operator either
  leaves keys and addresses as they are (`KeepsBook`) or is one of three: a handshake gives the key and
  the address to the same peer after `remove_reconnected_peer` has taken the key from the one other
  that can have it (`WithoutOldLeavesOne`), and a peer that expires takes its address with it.
  That a response refers to an index the node no longer has does not matter, because the
  code looks the peer up first.
* `ConnectedHasSocketAlways`. The difficulty is that all connections of the client have the index 0: a challenge or a response of one socket may come
  when another has taken its place, and must not connect the client on that one. `Inv` follows the handshake of each socket: it is
  at one place at a time (`OnceOf`), the server's news of the socket, the wire, the client's events, or in hand; until the client has answered there is no
  response of it anywhere (`Fresh` excludes `Answered`). `ClientSound`: unless the news of a loss is on the way, a response that fits what
  the client asked for is one of the socket it has, which is open; and the news of a socket's opening is handled before the first challenge of
  that socket (`WakesFirst`), so that the client is not connected by it while it counts as lost. `ServerSound`: a socket of the server is open, or its loss
  is on the way, or its peer is not connected and cannot be connected any more. There is one lemma for every
  operator on worlds (`SentView` to `RespondedSound`), stated for any world, queue of events and set of sockets, so that a handler
  that calls several, or handles an event that it has taken from its queue, composes them. `TakePlace` has a response in hand that is in no queue: the
  lemma for it puts it back at the end of the events, and takes it out again (`DropSound`).
* `PeersTypeCorrect`. `TypeOK` is not inductive, since a response signs whatever challenge it answers; `Typed` says which messages can
  be on which wire. `Vec::retain` is written as a function of the kept positions (`Retained`), because the provers know `SelectSeq`
  by a recursive definition only.

`ConfirmationsProofs` proves, for every tree of blocks, every limit and any number of handlers:

* `ConfirmedOnceAlways`. A block's count never goes down (`NewCountIsAbove`); all that was run or is to be run for the block lies
  below it (`IsBelowCount`), and what a new tip adds lies at it or above (`ConfirmIsSound`).
  Each handler has an interval to run, so that the next confirmation exists.
* `ConfirmationsTyped`: `Spec => []TypeOK`, which needs that the blocks added form a tree of consecutive heights
  (`TreeInv`) and that handlers are for added blocks (`KindInv`).
* `LostWhenPastAlways`. Whatever a handler misses, it misses because the block was pruned or its callbacks were deleted, and
  both happen only when the tip is far above (`LossInv`: `PrunedIsPast`, `DeletesBelowTip`, `MissingIsPast`); no handler passes
  over a number, since the stored list is never ahead of the counts (`StoredIsCounted`).
* `ConfirmedWhereForksAreShallow`: `ChainIsConfirmed`, as long as no change of the tip leaves more than `Limit` blocks of the old chain
  (`IsShallow`). `CountInv` says that no count is above the depth of its block and that the stored list reaches as deep as blocks
  are counted, so that the walk that stops at the list stops below the fork. The bound is tight: `confirmations_fork` leaves
  one block more. `Chain` is recursive; `ChainOf` shows that its equation has a solution,
  the least closed set again, and the proofs use the equation.

**Only model-checked**, and why:

* `RestartKeepsHeight`, and what holds of flags, ring and head after a crash: not true for arbitrary constants (section 4).
* `KeepsLongestChain` and `UtxosetIsReplay` where the hypotheses above fail: both are false of arbitrary trees.
* The properties of `ReorganizationProofs` across crashes, which `reject` and `window` (`MaxCrashes = 1`) check, and for the
  failures that `FailsBeforeItMoves` leaves out: without a crash `reject` and `window` do not reach these, `checkpoint` does (a checkpoint that stops the winding
  after the older chain was unwound), and checks there `LongestChainIsLinked` and that `add_blocks` terminates; `bad_start` does, and does not terminate.
* All liveness: fairness and `ENABLED` are out of the prover's reach, as is induction over data.

## 6. Not modelled

* **Wallet** (`wallet.rs`): its slips follow every block wound and unwound; the utxoset of `Blockchain` is the
  counterpart that consensus rests on. Pending and staking slips, and NFTs, are left out.
* **Consensus values** (`block.rs`, `burnfee.rs`, `hop.rs`): fees, payouts, rebroadcasts, difficulty, burn fee and routing
  work are arithmetic on the contents of blocks, constants of a block here.
* **Fork ids** (`generate_fork_id`): a hash of hashes at fixed depths; that the estimate of the shared
  ancestor never lies above the real one is not checked.
* **Lite clients**: ghost blocks, key lists, SPV blocks, but for the pruning in `Confirmations`.
* **Unreadable files** at a restart (`storage.rs:133`): the disk of the model holds readable files.
* **Congestion control and rate limits**: counters in a time window; nothing modelled reads them.
* **Serialisation, signatures, hashing, Merkle trees, versions, statistics, configuration**: formats and
  pure functions of data that the models abstract from.
* **The genesis block and the issuance**: a start-up of the first node of a network, once.
* **`saito-spammer`, `saito-e2e`**: a load generator and browser tests.
* **`node/`** beyond its sockets, its calls and its callbacks: options, storage, user interface, the
  modules, and libraries that are copied into the tree (`src/node/web/saito/lib` and the like), which make up most
  of the JavaScript of the repository. The consensus core is written in Rust.
