----------------------- MODULE BlockchainSyncStateProofs -----------------------
(***************************************************************************)
(* Proofs about BlockchainSyncState: the lists stay well formed, and the   *)
(* quota of a peer is kept whatever the order of the calls.                *)
(***************************************************************************)
EXTENDS BlockchainSyncState, FiniteSetTheorems, TLAPS

\* Every selection of headers can be counted.
LEMMA CountedHeaders ==
  ASSUME NEW S \in SUBSET Header
  PROVE  IsFiniteSet(S) /\ Cardinality(S) \in Nat
BY SyncStateAssumption, FS_Subset, FS_CardinalityType

\* The headers can be numbered.
LEMMA HeadersAreNumbered ==
  \E n \in Nat : \E f \in [1 .. n -> Header] : \A h \in Header : \E i \in 1 .. n : f[i] = h
<1>1. Cardinality(Header) \in Nat /\ ExistsBijection(1 .. Cardinality(Header), Header)
  BY SyncStateAssumption, FS_CardinalityType
<1>2. QED BY <1>1 DEF ExistsBijection, Bijection, Surjection

LEMMA EntryTypes ==
  /\ Unlisted \in Entry
  /\ NewEntry \in Entry
  /\ \A entry \in Entry : TakeTurn(entry) \in Entry
<1>1. MaxRetries \in Nat
  BY SyncStateAssumption
<1>2. Unlisted \in Entry /\ NewEntry \in Entry
  BY <1>1 DEF Unlisted, NewEntry, Entry
<1>3. ASSUME NEW entry \in Entry  PROVE TakeTurn(entry) \in Entry
  <2>1. CASE entry.status = "Queued"
    BY <2>1 DEF TakeTurn, Entry
  <2>2. CASE entry.status = "Failed" /\ entry.retry_count < MaxRetries
    <3>1. TakeTurn(entry) = [status |-> "Queued", retry_count |-> entry.retry_count + 1]
      BY <2>2 DEF TakeTurn, Entry
    <3>2. entry.retry_count + 1 \in 0 .. MaxRetries + 1
      BY <1>1, <2>2 DEF Entry
    <3> QED
      BY <3>1, <3>2 DEF Entry
  <2>3. CASE entry.status = "Failed" /\ entry.retry_count = MaxRetries
    BY <1>1, <2>3 DEF TakeTurn, Entry
  <2>4. CASE ~ (\/ entry.status = "Queued"
                \/ entry.status = "Failed" /\ entry.retry_count <= MaxRetries)
    BY <1>1, <2>4 DEF TakeTurn, Entry
  <2> QED
    BY <1>1, <2>1, <2>2, <2>3, <2>4 DEF Entry
<1> QED
  BY <1>2, <1>3

\* Two headers are never level: the sort leaves no ties.
LEMMA BeforeIsTotal ==
  \A g, h \in Header : g # h => Before(g, h) \/ Before(h, g)
BY SyncStateAssumption DEF Before

LEMMA BeforeIsAnOrder ==
  /\ \A g \in Header : ~Before(g, g)
  /\ \A f, g, h \in Header : Before(f, g) /\ Before(g, h) => Before(f, h)
BY SyncStateAssumption DEF Before

\* Of two pending entries the later has more pending ones before it: the number of
\* them ranks the entries.
LEMMA RankGrows ==
  ASSUME NEW list \in List, NEW g \in Header, NEW h \in Header,
         IsPending(list[g]), Before(g, h)
  PROVE  Cardinality(PendingBefore(list, g)) < Cardinality(PendingBefore(list, h))
<1> DEFINE G == PendingBefore(list, g)
           H == PendingBefore(list, h)
<1>1. G \in SUBSET H /\ H \in SUBSET Header
  BY BeforeIsAnOrder DEF PendingBefore
<1>2. g \in H /\ g \notin G
  BY BeforeIsAnOrder DEF PendingBefore
<1>3. G # H
  BY <1>2
<1>4. IsFiniteSet(H) /\ Cardinality(H) \in Nat /\ Cardinality(G) \in Nat
  BY <1>1, CountedHeaders
<1>5. Cardinality(G) <= Cardinality(H) /\ (Cardinality(H) = Cardinality(G) => H = G)
  BY <1>1, <1>4, FS_Subset
<1> QED
  BY <1>3, <1>4, <1>5

\* The loop of get_blocks_to_fetch_per_peer selects no more entries than the quota has.
LEMMA SelectionFitsQuota ==
  ASSUME NEW list \in List, Quota(list) \in Nat
  PROVE  Cardinality(Met(list) \cap Having(list, "Queued")) <= Quota(list)
<1> DEFINE S == Met(list) \cap Having(list, "Queued")
           q == Quota(list)
           rank == [h \in S |-> Cardinality(PendingBefore(list, h))]
<1>1. S \in SUBSET Header
  BY DEF Having
<1>2. \A h \in S : IsPending(list[h])
  BY DEF Having, IsPending
<1>3. \A h \in S : Cardinality(PendingBefore(list, h)) \in 0 .. (q - 1)
  <2> SUFFICES ASSUME NEW h \in S
               PROVE  Cardinality(PendingBefore(list, h)) \in 0 .. (q - 1)
    OBVIOUS
  <2>1. PendingBefore(list, h) \in SUBSET Header
    BY DEF PendingBefore
  <2>2. Cardinality(PendingBefore(list, h)) \in Nat
    BY <2>1, CountedHeaders
  <2>3. Cardinality(PendingBefore(list, h)) < q
    BY DEF Met
  <2> QED
    BY <2>2, <2>3
<1>4. \A g, h \in S : g # h => rank[g] # rank[h]
  <2> SUFFICES ASSUME NEW g \in S, NEW h \in S, g # h
               PROVE  rank[g] # rank[h]
    OBVIOUS
  <2>1. g \in Header /\ h \in Header /\ rank[g] \in Int /\ rank[h] \in Int
    BY <1>1, <1>3
  <2>2. CASE Before(g, h)
    BY <1>2, <2>1, <2>2, RankGrows
  <2>3. CASE Before(h, g)
    BY <1>2, <2>1, <2>3, RankGrows
  <2> QED
    BY <2>1, <2>2, <2>3, BeforeIsTotal
<1>5. rank \in Injection(S, 0 .. (q - 1))
  BY <1>3, <1>4 DEF Injection, IsInjective
<1>6. IsFiniteSet(0 .. (q - 1)) /\ Cardinality(0 .. (q - 1)) = q
  BY FS_Interval
<1> QED
  BY <1>5, <1>6, FS_Injection

LEMMA ListedIsList ==
  ASSUME NEW list \in List, NEW picture, NEW known
  PROVE  Listed(list, picture, known) \in List
BY EntryTypes DEF Listed, List

LEMMA ScheduledIsList ==
  ASSUME NEW list \in List
  PROVE  Scheduled(list) \in List
BY EntryTypes DEF Scheduled, List

LEMMA WithoutAreLists ==
  ASSUME NEW lists \in [Peer -> List], NEW hash
  PROVE  Without(lists, hash) \in [Peer -> List]
BY EntryTypes DEF Without, List

\* Queueing the headers that were announced begins no fetch.
LEMMA ListedKeepsFetching ==
  ASSUME NEW list \in List, NEW picture, NEW known
  PROVE  Having(Listed(list, picture, known), "Fetching") = Having(list, "Fetching")
BY DEF Having, Listed, List, Entry, NewEntry, Unlisted

\* A round begins fetches for the selected entries, and for no others.
LEMMA ScheduledFetching ==
  ASSUME NEW list \in List
  PROVE  Having(Scheduled(list), "Fetching")
           \subseteq Having(list, "Fetching") \cup (Met(list) \cap Having(list, "Queued"))
<1> SUFFICES ASSUME NEW h \in Having(Scheduled(list), "Fetching"),
                    h \notin Having(list, "Fetching")
             PROVE  h \in Met(list) /\ list[h].status = "Queued"
  BY DEF Having
<1>1. h \in Header /\ list[h] \in Entry /\ Scheduled(list)[h].status = "Fetching"
  BY DEF Having, List
<1>2. h \in Met(list)
  BY <1>1 DEF Having, Scheduled
<1>3. TakeTurn(list[h]).status = "Fetching"
  BY <1>1, <1>2 DEF Scheduled
<1>4. list[h].status # "Fetching"
  BY <1>1 DEF Having
<1>5. list[h].status = "Queued"
  BY <1>1, <1>3, <1>4 DEF TakeTurn, Entry
<1> QED
  BY <1>2, <1>5

FitsQuota(list) == Cardinality(Having(list, "Fetching")) <= BatchSize

\* What begins no fetch keeps the quota.
LEMMA FewerFetchesFit ==
  ASSUME NEW list, NEW other, FitsQuota(list),
         Having(other, "Fetching") \subseteq Having(list, "Fetching")
  PROVE  FitsQuota(other)
<1>1. Having(list, "Fetching") \in SUBSET Header /\ Having(other, "Fetching") \in SUBSET Header
  BY DEF Having
<1>2. IsFiniteSet(Having(list, "Fetching"))
      /\ Cardinality(Having(list, "Fetching")) \in Nat
      /\ Cardinality(Having(other, "Fetching")) \in Nat
  BY <1>1, CountedHeaders
<1>3. Cardinality(Having(other, "Fetching")) <= Cardinality(Having(list, "Fetching"))
  BY <1>2, FS_Subset
<1> QED
  BY <1>2, <1>3, SyncStateAssumption DEF FitsQuota

\* A round keeps the quota.
LEMMA RoundFits ==
  ASSUME NEW list \in List, FitsQuota(list)
  PROVE  FitsQuota(Scheduled(list))
<1> DEFINE F == Having(list, "Fetching")
           S == Met(list) \cap Having(list, "Queued")
           T == Having(Scheduled(list), "Fetching")
<1>1. F \in SUBSET Header /\ S \in SUBSET Header /\ T \in SUBSET Header
  BY DEF Having
<1>2. /\ IsFiniteSet(F) /\ IsFiniteSet(S)
      /\ Cardinality(F) \in Nat /\ Cardinality(S) \in Nat /\ Cardinality(T) \in Nat
  BY <1>1, CountedHeaders
<1>3. Quota(list) \in Nat /\ Cardinality(F) + Quota(list) = BatchSize
  BY <1>2, SyncStateAssumption DEF Quota, FitsQuota
<1>4. Cardinality(S) <= Quota(list)
  BY <1>3, SelectionFitsQuota
<1>5. IsFiniteSet(F \cup S) /\ Cardinality(F \cup S) <= Cardinality(F) + Cardinality(S)
  <2>1. F \cap S \in SUBSET Header
    BY <1>1
  <2>2. Cardinality(F \cap S) \in Nat
    BY <2>1, CountedHeaders
  <2>3. IsFiniteSet(F \cup S)
        /\ Cardinality(F \cup S) = Cardinality(F) + Cardinality(S) - Cardinality(F \cap S)
    BY <1>2, FS_Union
  <2> QED
    BY <1>2, <2>2, <2>3
<1>6. Cardinality(T) <= Cardinality(F \cup S) /\ Cardinality(F \cup S) \in Nat
  BY <1>5, ScheduledFetching, FS_Subset, FS_CardinalityType
<1>7. Cardinality(T) <= BatchSize
  BY <1>2, <1>3, <1>4, <1>5, <1>6, SyncStateAssumption
<1> QED
  BY <1>7 DEF FitsQuota

-----------------------------------------------------------------------------

SyncInv == SyncTypeOK /\ QuotaIsKept

\* Every step of the methods keeps the invariant, in whatever specification it is taken.
LEMMA SyncStep ==
  ASSUME SyncInv, [SyncNext]_syncVars
  PROVE  SyncInv'
<1> USE DEF SyncInv
<1>1. ASSUME NEW h \in Header, NEW S \in SUBSET Peer, AddEntry(h, S)
      PROVE  SyncInv'
  BY <1>1 DEF AddEntry, SyncTypeOK, QuotaIsKept
<1>2. ASSUME NEW lists \in [Peer -> List], NEW known, ScheduleFrom(lists, known),
             \A p \in Peer : FitsQuota(lists[p])
      PROVE  SyncInv'
  <2> DEFINE L(p) == Listed(lists[p], received_block_picture[p], known)
  <2>1. blocks_to_fetch' = [p \in Peer |-> Scheduled(L(p))]
        /\ received_block_picture' = [p \in Peer |-> {}]
    BY <1>2 DEF ScheduleFrom
  <2>2. \A p \in Peer : lists[p] \in List
    BY <1>2
  <2>3. \A p \in Peer : L(p) \in List
    BY <2>2, ListedIsList
  <2>4. \A p \in Peer : FitsQuota(L(p))
    BY <1>2, <2>2, ListedKeepsFetching DEF FitsQuota
  <2>5. \A p \in Peer : Scheduled(L(p)) \in List /\ FitsQuota(Scheduled(L(p)))
    BY <2>3, <2>4, ScheduledIsList, RoundFits
  <2> HIDE DEF L
  <2>6. SyncTypeOK'
    BY <2>1, <2>5 DEF SyncTypeOK
  <2>7. QuotaIsKept'
    BY <2>1, <2>5 DEF QuotaIsKept, FitsQuota
  <2> QED
    BY <2>6, <2>7
<1>3. ASSUME NEW hash
      PROVE  /\ Without(blocks_to_fetch, hash) \in [Peer -> List]
             /\ \A p \in Peer : FitsQuota(Without(blocks_to_fetch, hash)[p])
  <2>1. Without(blocks_to_fetch, hash) \in [Peer -> List]
    BY WithoutAreLists DEF SyncTypeOK
  <2>2. ASSUME NEW p \in Peer
        PROVE  FitsQuota(Without(blocks_to_fetch, hash)[p])
    <3>1. Having(Without(blocks_to_fetch, hash)[p], "Fetching")
            \subseteq Having(blocks_to_fetch[p], "Fetching")
      BY DEF Having, Without, Unlisted
    <3>2. FitsQuota(blocks_to_fetch[p])
      BY DEF QuotaIsKept, FitsQuota
    <3> QED
      BY <3>1, <3>2, FewerFetchesFit
  <2> QED
    BY <2>1, <2>2
<1>4. ASSUME NEW hash, RemoveEntry(hash)
      PROVE  SyncInv'
  BY <1>3, <1>4 DEF RemoveEntry, SyncTypeOK, QuotaIsKept, FitsQuota
<1>5. ASSUME NEW hash, MarkAsFetched(hash)
      PROVE  SyncInv'
  <2>1. SyncTypeOK'
    BY <1>5, EntryTypes DEF MarkAsFetched, SyncTypeOK, List
  <2>2. ASSUME NEW p \in Peer
        PROVE  FitsQuota(blocks_to_fetch'[p])
    <3>1. Having(blocks_to_fetch'[p], "Fetching") \subseteq Having(blocks_to_fetch[p], "Fetching")
      BY <1>5 DEF MarkAsFetched, Having, Unlisted
    <3> QED
      BY <3>1, FewerFetchesFit DEF QuotaIsKept, FitsQuota
  <2> QED
    BY <2>1, <2>2 DEF QuotaIsKept, FitsQuota
<1>6. ASSUME NEW h \in Header, NEW q \in Peer, MarkAsFailed(h, q)
      PROVE  SyncInv'
  <2>1. SyncTypeOK'
    BY <1>6 DEF MarkAsFailed, SyncTypeOK, List, Entry
  <2>2. ASSUME NEW p \in Peer
        PROVE  FitsQuota(blocks_to_fetch'[p])
    <3>1. Having(blocks_to_fetch'[p], "Fetching") \subseteq Having(blocks_to_fetch[p], "Fetching")
      BY <1>6 DEF MarkAsFailed, Having, SyncTypeOK, List, Entry
    <3> QED
      BY <3>1, FewerFetchesFit DEF QuotaIsKept, FitsQuota
  <2> QED
    BY <2>1, <2>2 DEF QuotaIsKept, FitsQuota
<1>7. CASE UNCHANGED syncVars
  BY <1>7 DEF syncVars, SyncTypeOK, QuotaIsKept
<1>8. blocks_to_fetch \in [Peer -> List] /\ \A p \in Peer : FitsQuota(blocks_to_fetch[p])
  BY DEF SyncTypeOK, QuotaIsKept, FitsQuota
<1> QED
  BY <1>1, <1>2, <1>3, <1>4, <1>5, <1>6, <1>7, <1>8 DEF SyncNext

LEMMA SyncStart == SyncInit => SyncInv
<1> SUFFICES ASSUME SyncInit  PROVE SyncInv
  OBVIOUS
<1>1. SyncTypeOK
  BY EntryTypes DEF SyncInit, SyncTypeOK, List
<1>2. ASSUME NEW p \in Peer
      PROVE  FitsQuota(blocks_to_fetch[p])
  <2>1. Having(blocks_to_fetch[p], "Fetching") = {}
    BY DEF SyncInit, Having, Unlisted
  <2> QED
    BY <2>1, FS_EmptySet, SyncStateAssumption DEF FitsQuota
<1> QED
  BY <1>1, <1>2 DEF SyncInv, QuotaIsKept, FitsQuota

\* The lists of BlockchainSyncState keep their form, and the quota of every peer is
\* kept, whatever the order in which its methods are called: batch_size -
\* fetching_count never underflows.
THEOREM SyncStateCorrect == SyncSpec => [](SyncTypeOK /\ QuotaIsKept)
<1>1. SyncInit => SyncInv
  BY SyncStart
<1>2. SyncInv /\ [SyncNext]_syncVars => SyncInv'
  BY SyncStep
<1> QED
  BY <1>1, <1>2, PTL DEF SyncSpec, SyncInv

=============================================================================
