-------------------------------- MODULE Fetching --------------------------------
(***************************************************************************)
(* How a block comes from a peer into the chain: the routing thread with   *)
(* its BlockchainSyncState (routing_thread.rs, network.rs), the tasks of   *)
(* the network controller that download (network_controller.rs), the       *)
(* verification threads (verification_thread.rs) and the consensus thread  *)
(* (consensus_thread.rs, add_blocks_from_mempool), joined by channels.     *)
(*                                                                         *)
(* The chain is the set of the blocks indexed in it; the module Blockchain *)
(* has what becomes of a block there.  The node has a first block and has  *)
(* loaded its disk; no block is old enough to be purged or refused.        *)
(***************************************************************************)
EXTENDS BlockchainSyncState, BagsExt, Sequences, SequencesExt

CONSTANTS
  Root,              \* the hash of the first block of the chain
  Id,                \* Id[b]: the id of the block with that hash
  Parent,            \* Parent[b]: Block::previous_block_hash
  Invalid,           \* the blocks add_block refuses wherever they come
  Serves,            \* Serves[p]: the blocks peer p serves intact
  Corrupts,          \* Corrupts[p]: the blocks it answers for with something else
  Announces,         \* Announces[p]: the headers peer p may send
  HasUrl,            \* the peers with a block_fetch_url
  Static,            \* the static peers, which are never forgotten
  MaxAnnouncements,  \* bound: how often a peer announces one header
  MaxFailures        \* bound: how many downloads of served blocks fail

Block == Hashes \cup {Root}

ASSUME FetchingAssumption ==
  /\ Root \notin Hashes
  /\ Id \in [Block -> Nat]
  /\ Parent \in [Hashes -> Block]
  /\ \A b \in Hashes : Id[b] = Id[Parent[b]] + 1 /\ [id |-> Id[b], hash |-> b] \in Header
  /\ Invalid \subseteq Hashes
  /\ Serves \in [Peer -> SUBSET Block] /\ Corrupts \in [Peer -> SUBSET Block]
  /\ Announces \in [Peer -> SUBSET Header]
  /\ HasUrl \subseteq Peer /\ Static \subseteq Peer
  /\ IsFiniteSet(Peer)
  /\ MaxAnnouncements \in Nat /\ MaxFailures \in Nat

VARIABLES
  (* the routing thread and the network *)
  peers,           \* the keys of PeerCollection::index_to_peers
  selected,        \* the fetches that fetch_next_blocks has still to ask for
  routing_events,  \* its RoutingEvents: BlockchainUpdated and BlockFetchRequest
  network_events,  \* its NetworkEvents: BlockFetched and BlockFetchFailed
  (* the network controller *)
  fetches,           \* the bag of the tasks that run fetch_block, with where each one is
  current_queries,   \* the urls (a peer and a hash) that are being fetched
  (* the verification and consensus threads *)
  verifying,       \* the VerifyRequests on their way
  fetched_blocks,  \* the ConsensusEvents BlockFetched
  blocks,          \* the keys of Blockchain::blocks
  blocks_queue,    \* Mempool::blocks_queue: a hash and routed_from_peer
  (* what the environment has done *)
  announced, failures

netVars       == <<fetches, current_queries>>
consensusVars == <<fetched_blocks, blocks, blocks_queue>>
envVars       == <<announced, failures>>

vars == <<syncVars, peers, selected, routing_events, network_events, netVars, verifying,
          consensusVars, envVars>>

Init ==
  /\ SyncInit
  /\ peers = Peer
  /\ selected = <<>> /\ routing_events = <<>> /\ network_events = <<>>
  /\ fetches = EmptyBag /\ current_queries = {}
  /\ verifying = <<>> /\ fetched_blocks = <<>>
  /\ blocks = {Root} /\ blocks_queue = {}
  /\ announced = [p \in Peer |-> [h \in Header |-> 0]]
  /\ failures = 0

-----------------------------------------------------------------------------
(* The routing thread.  It handles one event at a time: nothing else while *)
(* fetch_next_blocks is under way.                                         *)

Ready == selected = <<>>

\* BlockHeaderHash: process_incoming_block_hash of the routing thread.
Announce(p, h) ==
  /\ Ready
  /\ p \in peers /\ h \in Announces[p]
  /\ announced[p][h] < MaxAnnouncements
  /\ announced' = [announced EXCEPT ![p][h] = @ + 1]
  /\ AddEntry(h, {p})
  /\ UNCHANGED <<peers, selected, routing_events, network_events, netVars, verifying, consensusVars,
                 failures>>

\* The fetches of a round, the peers in the order of a hash map, the last header
\* of each first.
Orders(S) ==
  LET marked == UNION {{[peer |-> p, header |-> h] : h \in S[p]} : p \in Peer}
  IN  {order \in SetToSeqs(marked) :
         \A i, j \in DOMAIN order : i < j =>
           IF order[i].peer = order[j].peer
           THEN Before(order[j].header, order[i].header)
           ELSE \A k \in j .. Len(order) : order[k].peer # order[i].peer}

\* fetch_next_blocks up to its loop, on these lists.
FetchNextBlocks(lists) ==
  /\ ScheduleFrom(lists, blocks)
  /\ selected' \in Orders([p \in Peer |-> Marked(lists, p)])

\* The timer: process_timer_event.
Tick ==
  /\ Ready
  /\ FetchNextBlocks(blocks_to_fetch)
  /\ UNCHANGED <<peers, routing_events, network_events, netVars, verifying, consensusVars, envVars>>

\* network.process_incoming_block_hash returns None.
IsKnown(hash) == hash \in blocks \/ hash \in {b.hash : b \in blocks_queue}

IsAskedFor(e) ==
  /\ ~IsKnown(e.header.hash)
  /\ e.peer \in peers
  /\ e.peer \in HasUrl

\* One turn of the loop of fetch_next_blocks.  The fetch is handed to the network
\* controller, which starts a task for it; or the block is struck off every list.
RequestNext ==
  /\ selected # <<>>
  /\ selected' = Tail(selected)
  /\ LET e == Head(selected)
     IN  IF IsAskedFor(e)
         THEN /\ fetches' = BagAdd(fetches, [peer |-> e.peer, header |-> e.header, at |-> "spawned"])
              /\ UNCHANGED syncVars
         ELSE RemoveEntry(e.header.hash) /\ UNCHANGED fetches
  /\ UNCHANGED <<peers, routing_events, network_events, current_queries, verifying, consensusVars,
                 envVars>>

\* NetworkEvent::BlockFetched: the buffer goes to a verification thread, and the
\* block counts as fetched before it has been looked at.
HandleBlockFetched ==
  /\ Ready
  /\ network_events # <<>> /\ Head(network_events).type = "BlockFetched"
  /\ network_events' = Tail(network_events)
  /\ LET event == Head(network_events)
     IN  /\ verifying' = Append(verifying, [peer |-> event.peer, header |-> event.header,
                                            intact |-> event.intact])
         /\ MarkAsFetched(event.header.hash)
  /\ UNCHANGED <<peers, selected, routing_events, netVars, consensusVars, envVars>>

\* NetworkEvent::BlockFetchFailed
HandleBlockFetchFailed ==
  /\ Ready
  /\ network_events # <<>> /\ Head(network_events).type = "BlockFetchFailed"
  /\ network_events' = Tail(network_events)
  /\ MarkAsFailed(Head(network_events).header, Head(network_events).peer)
  /\ UNCHANGED <<peers, selected, routing_events, netVars, verifying, consensusVars, envVars>>

\* RoutingEvent::BlockchainUpdated
HandleBlockchainUpdated ==
  /\ Ready
  /\ routing_events # <<>> /\ Head(routing_events).type = "BlockchainUpdated"
  /\ routing_events' = Tail(routing_events)
  /\ FetchNextBlocks(Without(blocks_to_fetch, Head(routing_events).header.hash))
  /\ UNCHANGED <<peers, network_events, netVars, verifying, consensusVars, envVars>>

\* RoutingEvent::BlockFetchRequest
HandleBlockFetchRequest ==
  /\ Ready
  /\ routing_events # <<>> /\ Head(routing_events).type = "BlockFetchRequest"
  /\ routing_events' = Tail(routing_events)
  /\ AddEntry(Head(routing_events).header, {Head(routing_events).peer})
  /\ UNCHANGED <<peers, selected, network_events, netVars, verifying, consensusVars, envVars>>

\* remove_disconnected_peers: a peer that was away for too long is forgotten; its
\* lists stay.
Depart(p) ==
  /\ Ready
  /\ p \in peers \ Static
  /\ peers' = peers \ {p}
  /\ UNCHANGED <<syncVars, selected, routing_events, network_events, netVars, verifying, consensusVars,
                 envVars>>

-----------------------------------------------------------------------------
(* The network controller: fetch_block, one task for each fetch.           *)

Url(t) == <<t.peer, t.header.hash>>

At(place) == {t \in BagToSet(fetches) : t.at = place}

Moved(t, place) == BagAdd(BagRemove(fetches, t), [t EXCEPT !.at = place])

StartDownload(t) ==
  /\ t \in At("spawned")
  /\ Url(t) \notin current_queries
  /\ current_queries' = current_queries \cup {Url(t)}
  /\ fetches' = Moved(t, "downloading")
  /\ UNCHANGED <<syncVars, peers, selected, routing_events, network_events, verifying, consensusVars,
                 envVars>>

\* The url is being fetched: the task ends, and nobody is told.
SkipDownload(t) ==
  /\ t \in At("spawned")
  /\ Url(t) \in current_queries
  /\ fetches' = BagRemove(fetches, t)
  /\ UNCHANGED <<syncVars, peers, selected, routing_events, network_events, current_queries, verifying,
                 consensusVars, envVars>>

Event(type, t, intact) == [type |-> type, peer |-> t.peer, header |-> t.header, intact |-> intact]

\* The peer answers; the url is given back only after the event is sent.
FinishDownload(t) ==
  /\ t \in At("downloading")
  /\ t.header.hash \in Serves[t.peer] \cup Corrupts[t.peer]
  /\ network_events' =
       Append(network_events,
              Event("BlockFetched", t,
                    t.header.hash \in Serves[t.peer] /\ t.header.id = Id[t.header.hash]))
  /\ fetches' = Moved(t, "finished")
  /\ UNCHANGED <<syncVars, peers, selected, routing_events, current_queries, verifying, consensusVars,
                 envVars>>

EndTask(t) ==
  /\ t \in At("finished")
  /\ current_queries' = current_queries \ {Url(t)}
  /\ fetches' = BagRemove(fetches, t)
  /\ UNCHANGED <<syncVars, peers, selected, routing_events, network_events, verifying, consensusVars,
                 envVars>>

\* An error, another status than OK, or the timeout: here the url is given back
\* with the event, as the lock of the urls is held until the event is sent.
FailDownload(t) ==
  /\ t \in At("downloading")
  /\ IF t.header.hash \in Serves[t.peer]
     THEN failures < MaxFailures /\ failures' = failures + 1
     ELSE UNCHANGED failures
  /\ current_queries' = current_queries \ {Url(t)}
  /\ network_events' = Append(network_events, Event("BlockFetchFailed", t, FALSE))
  /\ fetches' = BagRemove(fetches, t)
  /\ UNCHANGED <<syncVars, peers, selected, routing_events, verifying, consensusVars, announced>>

-----------------------------------------------------------------------------
(* The verification threads and the consensus thread.                      *)

\* verify_block, in one of several threads: what is not the block that was asked
\* for is dropped.
Verify(i) ==
  /\ i \in DOMAIN verifying
  /\ verifying' = RemoveAt(verifying, i)
  /\ fetched_blocks' = IF verifying[i].intact
                       THEN Append(fetched_blocks, [hash |-> verifying[i].header.hash,
                                                    peer |-> verifying[i].peer])
                       ELSE fetched_blocks
  /\ UNCHANGED <<syncVars, peers, selected, routing_events, network_events, netVars, blocks,
                 blocks_queue, envVars>>

\* The hashes of the queue that a call of add_blocks_from_mempool takes out.
Batch(queue) == {b.hash : b \in queue}

\* Those of a batch that join the chain, by way of their ancestors in it.
Joining(batch) ==
  LET joins[b \in Block] == b \in blocks \/ (b \in batch \ Invalid /\ joins[Parent[b]])
  IN  {b \in batch : joins[b]}

Orphans(batch) == {b \in batch : Parent[b] \notin blocks \cup Joining(batch)}

\* Mutant: an orphan is put back without asking for its parent.
NoRequest(batch, orphans) == {}

\* The orphans whose parent has not been put back before them: it is not in the batch.
Requesting(batch, orphans) == {b \in orphans : Parent[b] \notin orphans}

\* What the routing thread is told of a block that joined the chain, or of an orphan.
Told(queue, h) ==
  LET peer == (CHOOSE b \in queue : b.hash = h).peer
  IN  IF h \in Joining(Batch(queue))
      THEN [type |-> "BlockchainUpdated", peer |-> peer, header |-> [id |-> Id[h], hash |-> h]]
      ELSE [type |-> "BlockFetchRequest", peer |-> peer,
            header |-> [id |-> Id[h] - 1, hash |-> Parent[h]]]

\* The lowest block of a batch is added first; the queue decides between equal ids.
InIdOrder(S) ==
  {order \in SetToSeqs(S) : \A i, j \in DOMAIN order : i < j => Id[order[i]] <= Id[order[j]]}

\* add_blocks_from_mempool: it holds the locks of the chain and of the mempool over the
\* whole batch.  An orphan goes back to the queue, an invalid block is forgotten.
AddBlocks(queue) ==
  LET batch   == Batch(queue)
      orphans == Orphans(batch)
  IN  /\ blocks' = blocks \cup Joining(batch)
      /\ blocks_queue' = {b \in queue : b.hash \in orphans}
      /\ \E order \in InIdOrder(Joining(batch) \cup Requesting(batch, orphans)) :
           routing_events' = routing_events \o [i \in DOMAIN order |-> Told(queue, order[i])]

\* ConsensusEvent::BlockFetched: Mempool::add_block, which keeps no hash twice, and the
\* blocks of the mempool.
HandleFetchedBlock ==
  /\ fetched_blocks # <<>>
  /\ fetched_blocks' = Tail(fetched_blocks)
  /\ LET block == Head(fetched_blocks)
     IN  IF block.hash \in blocks
         THEN UNCHANGED <<blocks, blocks_queue, routing_events>>
         ELSE AddBlocks(IF block.hash \in Batch(blocks_queue) THEN blocks_queue
                        ELSE blocks_queue \cup {block})
  /\ UNCHANGED <<syncVars, peers, selected, network_events, netVars, verifying, envVars>>

-----------------------------------------------------------------------------

TaskStep(t) ==
  \/ StartDownload(t) \/ SkipDownload(t) \/ FinishDownload(t) \/ EndTask(t)
  \/ FailDownload(t)

\* What the threads and tasks of the node do by themselves.
NodeStep ==
  \/ RequestNext
  \/ HandleBlockFetched \/ HandleBlockFetchFailed
  \/ \E t \in BagToSet(fetches) : TaskStep(t)
  \/ \E i \in DOMAIN verifying : Verify(i)
  \/ HandleFetchedBlock
  \/ HandleBlockFetchRequest \/ HandleBlockchainUpdated
  \/ Tick

Next ==
  \/ \E p \in Peer, h \in Header : Announce(p, h)
  \/ \E p \in Peer : Depart(p)
  \/ NodeStep

\* As long as a thread has something to do, one of them does it: downloads end, by
\* their timeout at the latest, the timer ticks, and no thread waits for another.
Fairness == WF_vars(NodeStep)

Spec == Init /\ [][Next]_vars /\ Fairness

-----------------------------------------------------------------------------
(* Properties.                                                             *)

Task == [peer: Peer, header: Header, at: {"spawned", "downloading", "finished"}]

NetworkEvent == [type: {"BlockFetched", "BlockFetchFailed"}, peer: Peer, header: Header,
                 intact: BOOLEAN]
RoutingEvent == [type: {"BlockchainUpdated", "BlockFetchRequest"}, peer: Peer, header: Header]
FetchedBlock == [hash: Hashes, peer: Peer]

\* Every variable holds a value of its kind.
TypeOK ==
  /\ SyncTypeOK
  /\ peers \subseteq Peer
  /\ selected \in Seq([peer: Peer, header: Header])
  /\ routing_events \in Seq(RoutingEvent) /\ network_events \in Seq(NetworkEvent)
  /\ IsABag(fetches) /\ BagToSet(fetches) \subseteq Task
  /\ current_queries \subseteq Peer \X Hashes
  /\ verifying \in Seq([peer: Peer, header: Header, intact: BOOLEAN])
  /\ fetched_blocks \in Seq(FetchedBlock)
  /\ blocks \subseteq Block /\ blocks_queue \subseteq FetchedBlock
  /\ announced \in [Peer -> [Header -> Nat]]
  /\ failures \in Nat

IsListed(p, h) == blocks_to_fetch[p][h] # Unlisted

\* A fetch whose answer is still to be handled.
IsOnTheWay(p, h) ==
  \/ [peer |-> p, header |-> h] \in ToSet(selected)
  \/ \E t \in BagToSet(fetches) : t.peer = p /\ t.header = h /\ t.at # "finished"
  \/ \E e \in ToSet(network_events) : e.peer = p /\ e.header = h

\* Past the routing thread, on its way into the chain.
HasArrived(b) ==
  \/ \E v \in ToSet(verifying) : v.header.hash = b /\ v.intact
  \/ \E f \in ToSet(fetched_blocks) : f.hash = b
  \/ IsKnown(b)

IsFetching(p, h) == blocks_to_fetch[p][h].status = "Fetching"

\* An entry is marked Fetching while an answer is to be expected, which will take the
\* mark away (it has no timeout, and uses up a part of the quota).  A request made just
\* before the url of the last download is given back gets none; but where every answer
\* is intact, an entry that waits in vain is at least that of a block the node has.
FetchingIsInHand ==
  \A p \in Peer, h \in Header : IsFetching(p, h) => IsOnTheWay(p, h) \/ HasArrived(h.hash)

\* Such an entry: nothing but the news of its block takes it off the list.
WaitsInVain == \E p \in Peer, h \in Header : IsFetching(p, h) /\ ~IsOnTheWay(p, h)

\* A block the chain takes in leaves every list: whatever was listed between the
\* lookup in the chain and the news of the block goes when the news comes.
JoinedBlocksLeaveLists ==
  \A p \in Peer, h \in Header :
    IsListed(p, h) /\ h.hash \in blocks ~> ~IsListed(p, h)

ServesChain[b \in Block] ==
  IF b = Root THEN Peer ELSE {p \in ServesChain[Parent[b]] : b \in Serves[p]}

\* A block a peer announces, and serves with its ancestors, comes into the chain, though
\* other peers fail to serve it, its ancestors come after it and fetches fail - unless
\* some peer leaves meanwhile, or an entry that waits in vain uses up the quota for ever.
ServedBlocksArrive ==
  \/ <>[]WaitsInVain
  \/ \A p \in Peer, h \in Header :
       IsListed(p, h) /\ p \in ServesChain[h.hash] ~> h.hash \in blocks \/ peers # Peer

\* An entry of a peer that is still here leaves its list only when the node knows the
\* block already, or when somebody has just answered with it.
EntriesLeaveForAReason ==
  [][\A p \in peers \cap HasUrl, h \in Header :
       IsListed(p, h) /\ blocks_to_fetch'[p][h] = Unlisted =>
         \/ IsKnown(h.hash)
         \/ verifying' # verifying /\ Last(verifying').header.hash = h.hash]_vars

=============================================================================
