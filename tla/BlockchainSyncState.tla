-------------------------- MODULE BlockchainSyncState --------------------------
(***************************************************************************)
(* consensus/blockchain_sync_state.rs: which announced blocks are asked    *)
(* from which peer, and when.  The structure belongs to the routing thread *)
(* alone, so each of its methods is one action.                            *)
(*                                                                         *)
(* A list of a peer is always sorted, by id and then by hash, between two  *)
(* calls of the routing thread, and never names a header twice: it is a    *)
(* function on the headers.                                                *)
(***************************************************************************)
EXTENDS Integers, FiniteSets

CONSTANTS
  Peer,        \* the indices of peers
  Header,      \* the headers a peer may announce: an id and a hash, compared as numbers
  BatchSize,   \* batch_size, asserted not to be 0 when the node starts
  MaxRetries   \* MAX_RETRIES_PER_BLOCK

ASSUME SyncStateAssumption ==
  /\ IsFiniteSet(Header)
  /\ Header \subseteq [id: Nat, hash: Nat]
  /\ BatchSize \in Nat \ {0}
  /\ MaxRetries \in Nat

VARIABLES
  received_block_picture,  \* received_block_picture[p]: headers announced and not listed yet
  blocks_to_fetch          \* blocks_to_fetch[p][h]: the entry of a header in the list of a peer

syncVars == <<received_block_picture, blocks_to_fetch>>

\* BlockData.  An entry marked Fetched leaves the list in the same call.
Entry == [status: {"None", "Queued", "Fetching", "Failed"}, retry_count: 0 .. MaxRetries + 1]

Unlisted  == [status |-> "None", retry_count |-> 0]
NewEntry  == [status |-> "Queued", retry_count |-> 0]

List == [Header -> Entry]

Hashes == {h.hash : h \in Header}

Before(g, h) == g.id < h.id \/ (g.id = h.id /\ g.hash < h.hash)

Having(list, status) == {h \in Header : list[h].status = status}

SyncInit ==
  /\ received_block_picture = [p \in Peer |-> {}]
  /\ blocks_to_fetch = [p \in Peer |-> [h \in Header |-> Unlisted]]

-----------------------------------------------------------------------------
(* What the methods compute, for the list of one peer.                     *)

\* build_peer_block_picture: the headers of a peer whose block the node lacks are
\* queued, unless they are listed already.
Listed(list, picture, known) ==
  [h \in Header |-> IF h \in picture /\ h.hash \notin known /\ list[h] = Unlisted
                    THEN NewEntry ELSE list[h]]

\* Mutant: the fetches under way are not counted.
QuotaOfBatch(list) == BatchSize

\* allowed_quota, as the second loop of get_blocks_to_fetch_per_peer finds it.
Quota(list) == BatchSize - Cardinality(Having(list, "Fetching"))

\* The entries that use the quota up when the loop meets them.
IsPending(entry) ==
  \/ entry.status = "Queued"
  \/ entry.status = "Failed" /\ entry.retry_count < MaxRetries

PendingBefore(list, h) == {g \in Header : IsPending(list[g]) /\ Before(g, h)}

\* The entries the loop meets before the quota is used up.
Met(list) == {h \in Header : Cardinality(PendingBefore(list, h)) < Quota(list)}

\* Mutant: an entry that is given up is counted on.
CountedForEver(entry) ==
  CASE entry.status = "Queued" -> [entry EXCEPT !.status = "Fetching"]
    [] entry.status = "Failed" /\ entry.retry_count < MaxRetries ->
         [status |-> "Queued", retry_count |-> entry.retry_count + 1]
    [] entry.status = "Failed" /\ entry.retry_count >= MaxRetries ->
         [entry EXCEPT !.retry_count = @ + 1]
    [] OTHER -> entry

\* What the loop makes of an entry it meets.  A failed one is queued for the next
\* round; one that failed too often is counted once more and left alone.
TakeTurn(entry) ==
  CASE entry.status = "Queued" -> [entry EXCEPT !.status = "Fetching"]
    [] entry.status = "Failed" /\ entry.retry_count < MaxRetries ->
         [status |-> "Queued", retry_count |-> entry.retry_count + 1]
    [] entry.status = "Failed" /\ entry.retry_count = MaxRetries ->
         [entry EXCEPT !.retry_count = @ + 1]
    [] OTHER -> entry

Scheduled(list) == [h \in Header |-> IF h \in Met(list) THEN TakeTurn(list[h]) ELSE list[h]]

\* Mutant: the entries under way stay.
WithoutQueued(lists, hash) ==
  [p \in Peer |-> [h \in Header |->
     IF h.hash = hash /\ lists[p][h].status = "Queued" THEN Unlisted ELSE lists[p][h]]]

\* remove_entry, for every peer.
Without(lists, hash) ==
  [p \in Peer |-> [h \in Header |-> IF h.hash = hash THEN Unlisted ELSE lists[p][h]]]

\* mark_as_fetched and remove_fetched_blocks for one peer: the first entry with the
\* hash goes, and no other.
IsFirstWith(list, h, hash) ==
  /\ h.hash = hash /\ list[h] # Unlisted
  /\ \A g \in Header : g.hash = hash /\ list[g] # Unlisted => ~Before(g, h)

-----------------------------------------------------------------------------
(* The methods.                                                            *)

\* add_entry: of the peer that named the block, or of every peer that has a fetch
\* url when none did.
AddEntry(h, S) ==
  /\ received_block_picture' =
       [p \in Peer |-> received_block_picture[p] \cup (IF p \in S THEN {h} ELSE {})]
  /\ UNCHANGED blocks_to_fetch

\* build_peer_block_picture and get_blocks_to_fetch_per_peer on these lists: the
\* routing thread only ever calls the one right after the other.
ScheduleFrom(lists, known) ==
  \E listed \in {[p \in Peer |-> Listed(lists[p], received_block_picture[p], known)]} :
    /\ received_block_picture' = [p \in Peer |-> {}]
    /\ blocks_to_fetch' = [p \in Peer |-> Scheduled(listed[p])]

\* What get_blocks_to_fetch_per_peer returns for a peer: the entries it has marked.
Marked(lists, p) == Having(blocks_to_fetch'[p], "Fetching") \ Having(lists[p], "Fetching")

RemoveEntry(hash) ==
  /\ blocks_to_fetch' = Without(blocks_to_fetch, hash)
  /\ UNCHANGED received_block_picture

MarkAsFetched(hash) ==
  /\ blocks_to_fetch' =
       [p \in Peer |-> [h \in Header |->
          IF IsFirstWith(blocks_to_fetch[p], h, hash) THEN Unlisted ELSE blocks_to_fetch[p][h]]]
  /\ UNCHANGED received_block_picture

\* Mutant: a failure that comes in is not noted.
MarkNothing(h, p) == UNCHANGED syncVars

\* The status becomes Failed whatever it was, provided there is an entry.
MarkAsFailed(h, p) ==
  /\ blocks_to_fetch' =
       IF blocks_to_fetch[p][h] = Unlisted THEN blocks_to_fetch
       ELSE [blocks_to_fetch EXCEPT ![p][h].status = "Failed"]
  /\ UNCHANGED received_block_picture

-----------------------------------------------------------------------------
(* Any calls, in any order.                                                *)

SyncNext ==
  \/ \E h \in Header, S \in SUBSET Peer : AddEntry(h, S)
  \/ \E known \in SUBSET Hashes :
       \/ ScheduleFrom(blocks_to_fetch, known)
       \/ \E hash \in Hashes : ScheduleFrom(Without(blocks_to_fetch, hash), known)
  \/ \E hash \in Hashes : RemoveEntry(hash) \/ MarkAsFetched(hash)
  \/ \E h \in Header, p \in Peer : MarkAsFailed(h, p)

SyncSpec == SyncInit /\ [][SyncNext]_syncVars

-----------------------------------------------------------------------------

\* Every variable holds a value of its kind.
SyncTypeOK ==
  /\ received_block_picture \in [Peer -> SUBSET Header]
  /\ blocks_to_fetch \in [Peer -> List]

\* No more blocks are marked Fetching from a peer than batch_size, so that the
\* subtraction of get_blocks_to_fetch_per_peer, on unsigned numbers, never
\* underflows: entries come and go by four other methods between two calls of it.
QuotaIsKept == \A p \in Peer : Cardinality(Having(blocks_to_fetch[p], "Fetching")) <= BatchSize

=============================================================================
