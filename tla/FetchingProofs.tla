----------------------------- MODULE FetchingProofs -----------------------------
(***************************************************************************)
(* The way of a block from a peer into the chain: every variable keeps its *)
(* type; the threads do to the lists what BlockchainSyncState specifies,   *)
(* and nothing else, so that its theorem holds of them; and where peers    *)
(* answer with what they are asked for, an entry is marked Fetching only   *)
(* while its answer is to be expected or its block has arrived.            *)
(*                                                                         *)
(* The types alone are inductive once the first block is known to be in    *)
(* the chain: a parent that is asked for is then never that one, so it has *)
(* a header.  For the last fact, of the urls, the tasks and the channel:   *)
(* a url is given back by the task that fetches it only after that task's  *)
(* event is sent, and no event is taken from the channel without a trace.  *)
(***************************************************************************)
EXTENDS FunctionTheorems, Fetching, BlockchainSyncStateProofs, SequenceTheorems

-----------------------------------------------------------------------------
(* Sequences as the sets of their elements, and bags.                      *)

LEMMA Appended ==
  ASSUME NEW S, NEW s \in Seq(S), NEW e \in S
  PROVE  Append(s, e) \in Seq(S) /\ ToSet(Append(s, e)) = ToSet(s) \cup {e}
<1>1. /\ Append(s, e) \in Seq(S) /\ Len(Append(s, e)) = Len(s) + 1
      /\ \A i \in 1 .. Len(s) : Append(s, e)[i] = s[i]
      /\ Append(s, e)[Len(s) + 1] = e
  BY AppendProperties
<1>2. Len(s) \in Nat /\ DOMAIN s = 1 .. Len(s) BY LenProperties
<1>3. DOMAIN Append(s, e) = 1 .. Len(s) + 1 BY <1>1, LenProperties
<1>4. ToSet(Append(s, e)) \subseteq ToSet(s) \cup {e} BY <1>1, <1>2, <1>3 DEF ToSet
<1>5. ToSet(s) \cup {e} \subseteq ToSet(Append(s, e)) BY <1>1, <1>2, <1>3 DEF ToSet
<1>6. QED BY <1>1, <1>4, <1>5

LEMMA Joined ==
  ASSUME NEW S, NEW s \in Seq(S), NEW t \in Seq(S)
  PROVE  s \o t \in Seq(S) /\ ToSet(s \o t) = ToSet(s) \cup ToSet(t)
<1>1. /\ s \o t \in Seq(S) /\ Len(s \o t) = Len(s) + Len(t)
      /\ \A i \in 1 .. Len(s) + Len(t) :
           (s \o t)[i] = IF i <= Len(s) THEN s[i] ELSE t[i - Len(s)]
  BY ConcatProperties
<1>2. Len(s) \in Nat /\ DOMAIN s = 1 .. Len(s) /\ Len(t) \in Nat /\ DOMAIN t = 1 .. Len(t)
  BY LenProperties
<1>3. DOMAIN (s \o t) = 1 .. Len(s) + Len(t) BY <1>1, LenProperties
<1>4. ASSUME NEW x \in ToSet(s \o t) PROVE x \in ToSet(s) \cup ToSet(t)
  <2>1. PICK i \in 1 .. Len(s) + Len(t) : x = (s \o t)[i] BY <1>3 DEF ToSet
  <2>2. CASE i <= Len(s) BY <1>1, <1>2, <2>1, <2>2 DEF ToSet
  <2>3. CASE ~(i <= Len(s))
    <3>1. i - Len(s) \in 1 .. Len(t) BY <1>2, <2>3
    <3>2. x = t[i - Len(s)] BY <1>1, <2>1, <2>3
    <3>3. QED BY <1>2, <3>1, <3>2 DEF ToSet
  <2>4. QED BY <2>2, <2>3
<1>5. ASSUME NEW x \in ToSet(s) PROVE x \in ToSet(s \o t)
  <2>1. PICK i \in 1 .. Len(s) : x = s[i] BY <1>2 DEF ToSet
  <2>2. i \in 1 .. Len(s) + Len(t) /\ i <= Len(s) BY <1>2
  <2>3. x = (s \o t)[i] BY <1>1, <2>1, <2>2
  <2>4. QED BY <1>3, <2>2, <2>3 DEF ToSet
<1>6. ASSUME NEW x \in ToSet(t) PROVE x \in ToSet(s \o t)
  <2>1. PICK i \in 1 .. Len(t) : x = t[i] BY <1>2 DEF ToSet
  <2>2. i + Len(s) \in 1 .. Len(s) + Len(t) /\ ~(i + Len(s) <= Len(s)) /\ (i + Len(s)) - Len(s) = i
    BY <1>2
  <2>3. x = (s \o t)[i + Len(s)] BY <1>1, <2>1, <2>2
  <2>4. QED BY <1>3, <2>2, <2>3 DEF ToSet
<1>7. QED BY <1>1, <1>4, <1>5, <1>6

LEMMA Taken ==
  ASSUME NEW S, NEW s \in Seq(S), s # <<>>
  PROVE  /\ Head(s) \in S /\ Tail(s) \in Seq(S)
         /\ ToSet(s) = {Head(s)} \cup ToSet(Tail(s))
<1>1. /\ Head(s) \in S /\ Tail(s) \in Seq(S) /\ Len(Tail(s)) = Len(s) - 1
      /\ \A i \in 1 .. Len(Tail(s)) : Tail(s)[i] = s[i + 1]
  BY HeadTailProperties
<1>2. Len(s) \in Nat /\ DOMAIN s = 1 .. Len(s) /\ DOMAIN Tail(s) = 1 .. Len(Tail(s))
  BY <1>1, LenProperties
<1>3. Len(s) # 0 /\ Head(s) = s[1] BY EmptySeq
<1>4. ASSUME NEW x \in ToSet(s) PROVE x \in {Head(s)} \cup ToSet(Tail(s))
  <2>1. PICK i \in 1 .. Len(s) : x = s[i] BY <1>2 DEF ToSet
  <2>2. CASE i = 1 BY <1>3, <2>1, <2>2
  <2>3. CASE i # 1
    <3>1. i - 1 \in 1 .. Len(Tail(s)) /\ (i - 1) + 1 = i BY <1>1, <1>2, <2>3
    <3>2. x = Tail(s)[i - 1] BY <1>1, <2>1, <3>1
    <3>3. QED BY <1>2, <3>1, <3>2 DEF ToSet
  <2>4. QED BY <2>2, <2>3
<1>5. ASSUME NEW x \in {Head(s)} \cup ToSet(Tail(s)) PROVE x \in ToSet(s)
  <2>1. CASE x = Head(s) BY <1>2, <1>3, <2>1 DEF ToSet
  <2>2. CASE x \in ToSet(Tail(s))
    <3>1. PICK i \in 1 .. Len(Tail(s)) : x = Tail(s)[i] BY <1>2, <2>2 DEF ToSet
    <3>2. i + 1 \in 1 .. Len(s) /\ x = s[i + 1] BY <1>1, <1>2, <3>1
    <3>3. QED BY <1>2, <3>2 DEF ToSet
  <2>3. QED BY <2>1, <2>2
<1>6. QED BY <1>1, <1>4, <1>5

LEMMA Removed ==
  ASSUME NEW S, NEW s \in Seq(S), NEW n \in DOMAIN s
  PROVE  /\ s[n] \in S /\ RemoveAt(s, n) \in Seq(S)
         /\ ToSet(s) \subseteq {s[n]} \cup ToSet(RemoveAt(s, n))
<1> DEFINE before == SubSeq(s, 1, n - 1)
           after == SubSeq(s, n + 1, Len(s))
<1>1. Len(s) \in Nat /\ DOMAIN s = 1 .. Len(s) /\ n \in 1 .. Len(s) BY LenProperties
<1>2. \A i \in 1 .. Len(s) : s[i] \in S BY ElementOfSeq
<1>3. \A i \in 1 .. n - 1 : s[i] \in S BY <1>1, <1>2
<1>4. /\ before \in Seq(S)
      /\ Len(before) = IF 1 <= n - 1 THEN (n - 1) - 1 + 1 ELSE 0
      /\ \A i \in 1 .. (n - 1) - 1 + 1 : before[i] = s[1 + i - 1]
  BY <1>1, <1>3, SubSeqProperties
<1>5. \A i \in n + 1 .. Len(s) : s[i] \in S BY <1>1, <1>2
<1>6. /\ after \in Seq(S)
      /\ Len(after) = IF n + 1 <= Len(s) THEN Len(s) - (n + 1) + 1 ELSE 0
      /\ \A i \in 1 .. Len(s) - (n + 1) + 1 : after[i] = s[(n + 1) + i - 1]
  BY <1>1, <1>5, SubSeqProperties
<1>7. DOMAIN before = 1 .. Len(before) /\ DOMAIN after = 1 .. Len(after)
  BY <1>4, <1>6, LenProperties
<1> HIDE DEF before, after
<1>8. ASSUME NEW x \in ToSet(s) PROVE x \in {s[n]} \cup ToSet(before) \cup ToSet(after)
  <2>1. PICK i \in 1 .. Len(s) : x = s[i] BY <1>1 DEF ToSet
  <2>2. CASE i = n BY <2>1, <2>2
  <2>3. CASE i < n
    <3>1. i \in 1 .. (n - 1) - 1 + 1 /\ i \in 1 .. Len(before) /\ 1 + i - 1 = i
      BY <1>1, <1>4, <2>3
    <3>2. x = before[i] BY <1>4, <2>1, <3>1
    <3>3. QED BY <1>7, <3>1, <3>2 DEF ToSet
  <2>4. CASE i > n
    <3>1. /\ i - n \in 1 .. Len(s) - (n + 1) + 1 /\ i - n \in 1 .. Len(after)
          /\ (n + 1) + (i - n) - 1 = i
      BY <1>1, <1>6, <2>4
    <3>2. x = after[i - n] BY <1>6, <2>1, <3>1
    <3>3. QED BY <1>7, <3>1, <3>2 DEF ToSet
  <2>5. QED BY <1>1, <2>2, <2>3, <2>4
<1>9. before \o after \in Seq(S) /\ ToSet(before \o after) = ToSet(before) \cup ToSet(after)
  BY <1>4, <1>6, Joined
<1>10. RemoveAt(s, n) = before \o after BY DEF RemoveAt, before, after
<1>11. QED BY <1>1, <1>2, <1>8, <1>9, <1>10

LEMMA EmptyToSet == ToSet(<<>>) = {}
BY DEF ToSet

\* A sequence of the elements of a finite set, each once, has all of them.
LEMMA Ordered ==
  ASSUME NEW S, IsFiniteSet(S), NEW order \in SetToSeqs(S)
  PROVE  order \in Seq(S) /\ DOMAIN order = 1 .. Cardinality(S) /\ ToSet(order) = S
<1> DEFINE n == Cardinality(S)
<1>1. n \in Nat BY FS_CardinalityType
<1>2. order \in [1 .. n -> S] /\ \A i, j \in 1 .. n : i # j => order[i] # order[j]
  BY DEF SetToSeqs
<1>3. IsFiniteSet(1 .. n) /\ Cardinality(1 .. n) = n
  <2>1. IsFiniteSet(1 .. n) /\ Cardinality(1 .. n) = IF 1 > n THEN 0 ELSE n - 1 + 1
    BY <1>1, FS_Interval
  <2>2. QED BY <1>1, <2>1
<1> HIDE DEF n
<1>4. order \in Injection(1 .. n, S) BY <1>2 DEF Injection, IsInjective
<1>5. order \in Surjection(1 .. n, S) BY <1>3, <1>4, FS_Injection DEF n
<1>6. \A x \in S : \E i \in 1 .. n : order[i] = x BY <1>5 DEF Surjection
<1>7. DOMAIN order = 1 .. n BY <1>2
<1>8. ToSet(order) = S BY <1>2, <1>6, <1>7 DEF ToSet
<1>9. order \in Seq(S) BY <1>1, <1>2, SeqDef
<1>10. QED BY <1>7, <1>8, <1>9 DEF n

LEMMA BagGrows ==
  ASSUME NEW B, IsABag(B), NEW x
  PROVE  IsABag(BagAdd(B, x)) /\ BagToSet(BagAdd(B, x)) = BagToSet(B) \cup {x}
BY DEF IsABag, BagAdd, BagToSet

LEMMA BagShrinks ==
  ASSUME NEW B, IsABag(B), NEW x
  PROVE  /\ IsABag(BagRemove(B, x))
         /\ BagToSet(BagRemove(B, x)) \subseteq BagToSet(B)
         /\ BagToSet(B) \ {x} \subseteq BagToSet(BagRemove(B, x))
BY DEF IsABag, BagRemove, BagToSet

-----------------------------------------------------------------------------
(* Finite sets of fetches and of blocks.                                   *)

LEMMA HeadersAreFinite == IsFiniteSet(Header)
<1>1. PICK n \in Nat :
        \E f \in [1 .. n -> Header] : \A h \in Header : \E i \in 1 .. n : f[i] = h
  BY HeadersAreNumbered
<1>2. PICK f \in [1 .. n -> Header] : \A h \in Header : \E i \in 1 .. n : f[i] = h BY <1>1
<1>3. f \in Surjection(1 .. n, Header) BY <1>2 DEF Surjection
<1>4. IsFiniteSet(1 .. n) BY FS_Interval
<1>5. QED BY <1>3, <1>4, FS_Surjection

LEMMA FetchesAreFinite == IsFiniteSet([peer: Peer, header: Header])
<1> DEFINE f == [x \in Peer \X Header |-> [peer |-> x[1], header |-> x[2]]]
<1>1. IsFiniteSet(Peer \X Header) BY HeadersAreFinite, FetchingAssumption, FS_Product
<1>2. f \in [Peer \X Header -> [peer: Peer, header: Header]] OBVIOUS
<1>3. ASSUME NEW e \in [peer: Peer, header: Header] PROVE \E x \in Peer \X Header : f[x] = e
  <2>1. <<e.peer, e.header>> \in Peer \X Header OBVIOUS
  <2>2. f[<<e.peer, e.header>>] = e BY <2>1
  <2>3. QED BY <2>1, <2>2
<1>4. f \in Surjection(Peer \X Header, [peer: Peer, header: Header])
  BY <1>2, <1>3 DEF Surjection
<1> HIDE DEF f
<1>5. QED BY <1>1, <1>4, FS_Surjection

LEMMA HashesAreFinite == IsFiniteSet(Hashes)
<1> DEFINE f == [h \in Header |-> h.hash]
<1>1. f \in Surjection(Header, Hashes) BY DEF Surjection, Hashes
<1> HIDE DEF f
<1>2. QED BY <1>1, HeadersAreFinite, FS_Surjection

-----------------------------------------------------------------------------
(* What add_blocks_from_mempool sends.                                     *)

ToldOf(queue) ==
  Joining(Batch(queue)) \cup Requesting(Batch(queue), Orphans(Batch(queue)))

LEMMA JoiningJoinsBatch == ASSUME NEW batch PROVE Joining(batch) \subseteq batch
BY DEF Joining

\* Whom the events go to, and which headers they name.
LEMMA ToldAreEvents ==
  ASSUME NEW queue, queue \subseteq FetchedBlock, blocks \subseteq Block, Root \in blocks
  PROVE  /\ Batch(queue) \subseteq Hashes
         /\ ToldOf(queue) \subseteq Batch(queue)
         /\ \A h \in ToldOf(queue) : Told(queue, h) \in RoutingEvent
<1>1. Batch(queue) \subseteq Hashes BY DEF Batch, FetchedBlock
<1>2. Orphans(Batch(queue)) \subseteq Batch(queue) BY DEF Orphans
<1>3. ToldOf(queue) \subseteq Batch(queue) BY <1>2, JoiningJoinsBatch DEF ToldOf, Requesting
<1>4. ASSUME NEW h \in ToldOf(queue) PROVE Told(queue, h) \in RoutingEvent
  <2>1. h \in Hashes /\ h \in Batch(queue) BY <1>1, <1>3
  <2>2. \E b \in queue : b.hash = h BY <2>1 DEF Batch
  <2>3. (CHOOSE b \in queue : b.hash = h) \in queue BY <2>2
  <2>4. (CHOOSE b \in queue : b.hash = h).peer \in Peer BY <2>3 DEF FetchedBlock
  <2>5. [id |-> Id[h], hash |-> h] \in Header BY <2>1, FetchingAssumption
  <2>6. CASE h \in Joining(Batch(queue)) BY <2>4, <2>5, <2>6 DEF Told, RoutingEvent
  <2>7. CASE h \notin Joining(Batch(queue))
    <3>1. h \in Orphans(Batch(queue)) BY <2>7 DEF ToldOf, Requesting
    <3>2. Parent[h] # Root BY <3>1 DEF Orphans
    <3>3. Parent[h] \in Hashes BY <2>1, <3>2, FetchingAssumption DEF Block
    <3>4. Id[h] = Id[Parent[h]] + 1 /\ Id[Parent[h]] \in Nat
      BY <2>1, <3>3, FetchingAssumption DEF Block
    <3>5. Id[h] - 1 = Id[Parent[h]] BY <3>4
    <3>6. [id |-> Id[h] - 1, hash |-> Parent[h]] \in Header BY <3>3, <3>5, FetchingAssumption
    <3>7. QED BY <2>4, <2>7, <3>6 DEF Told, RoutingEvent
  <2>8. QED BY <2>6, <2>7
<1>5. QED BY <1>1, <1>3, <1>4

-----------------------------------------------------------------------------
(* Types, together with the first block.                                   *)

\* What TypeOK says beside the lists.
OthersOK ==
  /\ peers \subseteq Peer
  /\ selected \in Seq([peer: Peer, header: Header])
  /\ routing_events \in Seq(RoutingEvent) /\ network_events \in Seq(NetworkEvent)
  /\ IsABag(fetches) /\ BagToSet(fetches) \subseteq Task
  /\ current_queries \subseteq Peer \X Hashes
  /\ verifying \in Seq([peer: Peer, header: Header, intact: BOOLEAN])
  /\ fetched_blocks \in Seq(FetchedBlock)
  /\ blocks \subseteq Block /\ blocks_queue \subseteq FetchedBlock
  /\ announced \in [Peer -> [Header -> Nat]]
  /\ failures \in Nat
  /\ Root \in blocks

LEMMA TypesTogether == SyncTypeOK /\ OthersOK => TypeOK
BY DEF TypeOK, OthersOK

LEMMA OthersFrame == ASSUME OthersOK, UNCHANGED vars PROVE OthersOK'
BY DEF OthersOK, vars, netVars, consensusVars, envVars

LEMMA HeaderHash == \A h \in Header : h.hash \in Hashes
BY DEF Hashes

LEMMA AnnounceTyped ==
  ASSUME OthersOK, NEW p \in Peer, NEW h \in Header, Announce(p, h) PROVE OthersOK'
<1>1. announced' \in [Peer -> [Header -> Nat]] BY DEF Announce, OthersOK
<1>2. UNCHANGED <<peers, selected, routing_events, network_events, netVars, verifying,
                  consensusVars, failures>>
  BY DEF Announce
<1>3. QED BY <1>1, <1>2 DEF OthersOK, netVars, consensusVars

\* The fetches of a round, in any of the orders: those it has marked.
LEMMA RoundSelects ==
  ASSUME NEW lists, FetchNextBlocks(lists)
  PROVE  /\ selected' \in Seq([peer: Peer, header: Header])
         /\ \A p \in Peer : \A h \in Marked(lists, p) :
              [peer |-> p, header |-> h] \in ToSet(selected')
<1> DEFINE S == [p \in Peer |-> Marked(lists, p)]
           marked == UNION {{[peer |-> p, header |-> h] : h \in S[p]} : p \in Peer}
<1>1. marked \subseteq [peer: Peer, header: Header] BY DEF Marked, Having
<1>2. IsFiniteSet(marked) BY <1>1, FetchesAreFinite, FS_Subset
<1>3. \A p \in Peer : \A h \in Marked(lists, p) : [peer |-> p, header |-> h] \in marked
  OBVIOUS
<1>4. selected' \in Orders(S) BY DEF FetchNextBlocks
<1> HIDE DEF S
<1>5. selected' \in SetToSeqs(marked) BY <1>4 DEF Orders
<1> HIDE DEF marked
<1>6. selected' \in Seq(marked) /\ ToSet(selected') = marked BY <1>2, <1>5, Ordered
<1>7. QED BY <1>1, <1>3, <1>6, SeqMonotonic

LEMMA TickTyped == ASSUME OthersOK, Tick PROVE OthersOK'
<1>1. selected' \in Seq([peer: Peer, header: Header]) BY RoundSelects DEF Tick
<1>2. UNCHANGED <<peers, routing_events, network_events, netVars, verifying, consensusVars, envVars>>
  BY DEF Tick
<1>3. QED BY <1>1, <1>2 DEF OthersOK, netVars, consensusVars, envVars

LEMMA UpdatedTyped ==
  ASSUME OthersOK, HandleBlockchainUpdated
  PROVE  OthersOK' /\ Head(routing_events).header.hash \in Hashes
<1>1. selected' \in Seq([peer: Peer, header: Header]) BY RoundSelects DEF HandleBlockchainUpdated
<1>2. /\ routing_events # <<>> /\ routing_events' = Tail(routing_events)
      /\ UNCHANGED <<peers, network_events, netVars, verifying, consensusVars, envVars>>
  BY DEF HandleBlockchainUpdated
<1>3. Head(routing_events) \in RoutingEvent /\ routing_events' \in Seq(RoutingEvent)
  BY <1>2, Taken DEF OthersOK
<1>4. OthersOK' BY <1>1, <1>2, <1>3 DEF OthersOK, netVars, consensusVars, envVars
<1>5. QED BY <1>3, <1>4, HeaderHash DEF RoutingEvent

LEMMA RequestedTyped ==
  ASSUME OthersOK, HandleBlockFetchRequest
  PROVE  OthersOK' /\ Head(routing_events).header \in Header /\ Head(routing_events).peer \in Peer
<1>1. /\ routing_events # <<>> /\ routing_events' = Tail(routing_events)
      /\ UNCHANGED <<peers, selected, network_events, netVars, verifying, consensusVars, envVars>>
  BY DEF HandleBlockFetchRequest
<1>2. Head(routing_events) \in RoutingEvent /\ routing_events' \in Seq(RoutingEvent)
  BY <1>1, Taken DEF OthersOK
<1>3. OthersOK' BY <1>1, <1>2 DEF OthersOK, netVars, consensusVars, envVars
<1>4. QED BY <1>2, <1>3 DEF RoutingEvent

LEMMA RequestNextTyped ==
  ASSUME OthersOK, RequestNext
  PROVE  OthersOK' /\ Head(selected).header.hash \in Hashes
<1> DEFINE e == Head(selected)
<1>1. /\ selected # <<>> /\ selected' = Tail(selected)
      /\ UNCHANGED <<peers, routing_events, network_events, current_queries, verifying, consensusVars,
                     envVars>>
  BY DEF RequestNext
<1>2. e \in [peer: Peer, header: Header] /\ selected' \in Seq([peer: Peer, header: Header])
  BY <1>1, Taken DEF OthersOK
<1>3. \/ UNCHANGED fetches
      \/ fetches' = BagAdd(fetches, [peer |-> e.peer, header |-> e.header, at |-> "spawned"])
  BY DEF RequestNext
<1>4. [peer |-> e.peer, header |-> e.header, at |-> "spawned"] \in Task BY <1>2 DEF Task
<1>5. e.header.hash \in Hashes BY <1>2, HeaderHash
<1> HIDE DEF e
<1>6. IsABag(fetches') /\ BagToSet(fetches') \subseteq Task
  BY <1>3, <1>4, BagGrows DEF OthersOK
<1>7. OthersOK' BY <1>1, <1>2, <1>6 DEF OthersOK, netVars, consensusVars, envVars
<1>8. QED BY <1>5, <1>7 DEF e

LEMMA FetchedTyped ==
  ASSUME OthersOK, HandleBlockFetched
  PROVE  OthersOK' /\ Head(network_events).header.hash \in Hashes
<1> DEFINE e == Head(network_events)
           v == [peer |-> e.peer, header |-> e.header, intact |-> e.intact]
<1>1. /\ network_events # <<>> /\ network_events' = Tail(network_events)
      /\ verifying' = Append(verifying, v)
      /\ UNCHANGED <<peers, selected, routing_events, netVars, consensusVars, envVars>>
  BY DEF HandleBlockFetched
<1>2. e \in NetworkEvent /\ network_events' \in Seq(NetworkEvent)
  BY <1>1, Taken DEF OthersOK
<1>3. v \in [peer: Peer, header: Header, intact: BOOLEAN] BY <1>2 DEF NetworkEvent
<1>4. e.header.hash \in Hashes BY <1>2, HeaderHash DEF NetworkEvent
<1> HIDE DEF v
<1>5. verifying' \in Seq([peer: Peer, header: Header, intact: BOOLEAN])
  BY <1>1, <1>3, Appended DEF OthersOK
<1>6. OthersOK' BY <1>1, <1>2, <1>5 DEF OthersOK, netVars, consensusVars, envVars
<1>7. QED BY <1>4, <1>6

LEMMA FetchFailedTyped ==
  ASSUME OthersOK, HandleBlockFetchFailed
  PROVE  OthersOK' /\ Head(network_events).header \in Header /\ Head(network_events).peer \in Peer
<1>1. /\ network_events # <<>> /\ network_events' = Tail(network_events)
      /\ UNCHANGED <<peers, selected, routing_events, netVars, verifying, consensusVars, envVars>>
  BY DEF HandleBlockFetchFailed
<1>2. Head(network_events) \in NetworkEvent /\ network_events' \in Seq(NetworkEvent)
  BY <1>1, Taken DEF OthersOK
<1>3. OthersOK' BY <1>1, <1>2 DEF OthersOK, netVars, consensusVars, envVars
<1>4. QED BY <1>2, <1>3 DEF NetworkEvent

LEMMA DepartTyped == ASSUME OthersOK, NEW p, Depart(p) PROVE OthersOK'
BY DEF Depart, OthersOK, netVars, consensusVars, envVars

-----------------------------------------------------------------------------
(* The tasks.                                                              *)

LEMMA TaskMoves ==
  ASSUME OthersOK, NEW t \in Task, NEW place \in {"spawned", "downloading", "finished"}
  PROVE  IsABag(Moved(t, place)) /\ BagToSet(Moved(t, place)) \subseteq Task
<1>1. [t EXCEPT !.at = place] \in Task BY DEF Task
<1>2. IsABag(BagRemove(fetches, t)) /\ BagToSet(BagRemove(fetches, t)) \subseteq Task
  BY BagShrinks DEF OthersOK
<1>3. QED BY <1>1, <1>2, BagGrows DEF Moved

LEMMA TaskEnds ==
  ASSUME OthersOK, NEW t
  PROVE  IsABag(BagRemove(fetches, t)) /\ BagToSet(BagRemove(fetches, t)) \subseteq Task
BY BagShrinks DEF OthersOK

LEMMA TaskTyped == ASSUME OthersOK, NEW t \in BagToSet(fetches), TaskStep(t) PROVE OthersOK'
<1>1. t \in Task BY DEF OthersOK
<1>2. Url(t) \in Peer \X Hashes BY <1>1, HeaderHash DEF Url, Task
<1>3. \A type \in {"BlockFetched", "BlockFetchFailed"}, intact \in BOOLEAN :
        Event(type, t, intact) \in NetworkEvent
  BY <1>1 DEF Event, NetworkEvent, Task
<1>4. UNCHANGED <<peers, selected, routing_events, verifying, consensusVars, announced>>
  BY DEF TaskStep, StartDownload, SkipDownload, FinishDownload, EndTask, FailDownload, envVars
<1>5. IsABag(fetches') /\ BagToSet(fetches') \subseteq Task
  BY <1>1, TaskMoves, TaskEnds
     DEF TaskStep, StartDownload, SkipDownload, FinishDownload, EndTask, FailDownload
<1>6. current_queries' \subseteq Peer \X Hashes
  BY <1>2 DEF TaskStep, StartDownload, SkipDownload, FinishDownload, EndTask, FailDownload,
              OthersOK
<1>7. failures' \in Nat
  <2>1. failures' = failures \/ failures' = failures + 1
    BY DEF TaskStep, StartDownload, SkipDownload, FinishDownload, EndTask, FailDownload,
           envVars
  <2>2. QED BY <2>1 DEF OthersOK
<1>8. network_events' \in Seq(NetworkEvent)
  <2>1. CASE UNCHANGED network_events BY <2>1 DEF OthersOK
  <2>2. CASE FinishDownload(t)
    <3> DEFINE intact == t.header.hash \in Serves[t.peer] /\ t.header.id = Id[t.header.hash]
    <3>1. network_events' = Append(network_events, Event("BlockFetched", t, intact))
      BY <2>2 DEF FinishDownload
    <3>2. intact \in BOOLEAN OBVIOUS
    <3> HIDE DEF intact
    <3>3. QED BY <1>3, <3>1, <3>2, Appended DEF OthersOK
  <2>3. CASE FailDownload(t) BY <1>3, <2>3, Appended DEF FailDownload, OthersOK
  <2>4. QED
    BY <2>1, <2>2, <2>3 DEF TaskStep, StartDownload, SkipDownload, EndTask
<1>9. QED BY <1>4, <1>5, <1>6, <1>7, <1>8 DEF OthersOK, consensusVars

-----------------------------------------------------------------------------
(* The verification and consensus threads.                                 *)

LEMMA VerifyTyped == ASSUME OthersOK, NEW i, Verify(i) PROVE OthersOK'
<1> DEFINE b == [hash |-> verifying[i].header.hash, peer |-> verifying[i].peer]
<1>1. /\ i \in DOMAIN verifying /\ verifying' = RemoveAt(verifying, i)
      /\ fetched_blocks' = (IF verifying[i].intact THEN Append(fetched_blocks, b) ELSE fetched_blocks)
      /\ UNCHANGED <<peers, selected, routing_events, network_events, netVars, blocks, blocks_queue,
                     envVars>>
  BY DEF Verify
<1>2. /\ verifying[i] \in [peer: Peer, header: Header, intact: BOOLEAN]
      /\ verifying' \in Seq([peer: Peer, header: Header, intact: BOOLEAN])
  BY <1>1, Removed DEF OthersOK
<1>3. b \in FetchedBlock BY <1>2, HeaderHash DEF FetchedBlock
<1> HIDE DEF b
<1>4. fetched_blocks' \in Seq(FetchedBlock) BY <1>1, <1>3, Appended DEF OthersOK
<1>5. QED BY <1>1, <1>2, <1>4 DEF OthersOK, netVars, envVars

\* What add_blocks_from_mempool sends, in any order.
LEMMA EventsSent ==
  ASSUME OthersOK, NEW queue, queue \subseteq FetchedBlock, AddBlocks(queue)
  PROVE  routing_events' \in Seq(RoutingEvent)
<1>1. PICK order \in InIdOrder(ToldOf(queue)) :
        routing_events' = routing_events \o [i \in DOMAIN order |-> Told(queue, order[i])]
  BY DEF AddBlocks, ToldOf
<1>2. /\ ToldOf(queue) \subseteq Hashes
      /\ \A h \in ToldOf(queue) : Told(queue, h) \in RoutingEvent
  BY ToldAreEvents DEF OthersOK
<1>3. IsFiniteSet(ToldOf(queue)) BY <1>2, HashesAreFinite, FS_Subset
<1>4. order \in SetToSeqs(ToldOf(queue)) BY <1>1 DEF InIdOrder
<1>5. /\ order \in Seq(ToldOf(queue)) /\ DOMAIN order = 1 .. Cardinality(ToldOf(queue))
      /\ Cardinality(ToldOf(queue)) \in Nat
  BY <1>3, <1>4, Ordered, FS_CardinalityType
<1> DEFINE events == [i \in DOMAIN order |-> Told(queue, order[i])]
           n == Cardinality(ToldOf(queue))
<1>6. order \in [1 .. n -> ToldOf(queue)] BY <1>4 DEF SetToSeqs
<1>7. events \in [1 .. n -> RoutingEvent] BY <1>2, <1>6
<1> HIDE DEF events, n
<1>8. events \in Seq(RoutingEvent) BY <1>5, <1>7, SeqDef DEF n
<1>9. routing_events' = routing_events \o events BY <1>1 DEF events
<1>10. QED BY <1>8, <1>9, Joined DEF OthersOK

LEMMA HandleFetchedTyped == ASSUME OthersOK, HandleFetchedBlock PROVE OthersOK'
<1> DEFINE block == Head(fetched_blocks)
           queue == IF block.hash \in Batch(blocks_queue) THEN blocks_queue
                    ELSE blocks_queue \cup {block}
<1>1. /\ fetched_blocks # <<>> /\ fetched_blocks' = Tail(fetched_blocks)
      /\ UNCHANGED <<peers, selected, network_events, netVars, verifying, envVars>>
  BY DEF HandleFetchedBlock
<1>2. block \in FetchedBlock /\ fetched_blocks' \in Seq(FetchedBlock)
  BY <1>1, Taken DEF OthersOK
<1>3. queue \subseteq FetchedBlock BY <1>2 DEF OthersOK
<1>4. \/ UNCHANGED <<blocks, blocks_queue, routing_events>>
      \/ AddBlocks(queue)
  BY DEF HandleFetchedBlock
<1> HIDE DEF block, queue
<1>5. CASE UNCHANGED <<blocks, blocks_queue, routing_events>>
  BY <1>1, <1>2, <1>5 DEF OthersOK, netVars, envVars
<1>6. CASE AddBlocks(queue)
  <2>1. Batch(queue) \subseteq Hashes BY <1>3 DEF Batch, FetchedBlock
  <2>2. blocks' = blocks \cup Joining(Batch(queue)) /\ blocks_queue' \subseteq queue
    BY <1>6 DEF AddBlocks
  <2>3. blocks' \subseteq Block /\ Root \in blocks' /\ blocks_queue' \subseteq FetchedBlock
    BY <1>3, <2>1, <2>2, JoiningJoinsBatch DEF OthersOK, Block
  <2>4. routing_events' \in Seq(RoutingEvent) BY <1>3, <1>6, EventsSent
  <2>5. QED BY <1>1, <1>2, <2>3, <2>4 DEF OthersOK, netVars, envVars
<1>7. QED BY <1>4, <1>5, <1>6

-----------------------------------------------------------------------------
(* Every step calls the methods of BlockchainSyncState as that module      *)
(* specifies them.                                                         *)

LEMMA RoundIsACall ==
  ASSUME OthersOK, NEW lists, FetchNextBlocks(lists)
  PROVE  \E known \in SUBSET Hashes : ScheduleFrom(lists, known)
<1>1. ScheduleFrom(lists, blocks) BY DEF FetchNextBlocks
<1>2. \A list, picture : Listed(list, picture, blocks) = Listed(list, picture, blocks \cap Hashes)
  BY HeaderHash DEF Listed
<1>3. ScheduleFrom(lists, blocks \cap Hashes) BY <1>1, <1>2 DEF ScheduleFrom
<1>4. QED BY <1>3

LEMMA NodeStepTyped ==
  ASSUME SyncTypeOK, OthersOK, NodeStep
  PROVE  OthersOK' /\ [SyncNext]_syncVars
<1>1. CASE RequestNext
  <2>1. UNCHANGED syncVars \/ RemoveEntry(Head(selected).header.hash) BY <1>1 DEF RequestNext
  <2>2. QED BY <1>1, <2>1, RequestNextTyped DEF SyncNext
<1>2. CASE HandleBlockFetched
  <2>1. MarkAsFetched(Head(network_events).header.hash) BY <1>2 DEF HandleBlockFetched
  <2>2. QED BY <1>2, <2>1, FetchedTyped DEF SyncNext
<1>3. CASE HandleBlockFetchFailed
  <2>1. MarkAsFailed(Head(network_events).header, Head(network_events).peer)
    BY <1>3 DEF HandleBlockFetchFailed
  <2>2. QED BY <1>3, <2>1, FetchFailedTyped DEF SyncNext
<1>4. ASSUME NEW t \in BagToSet(fetches), TaskStep(t) PROVE OthersOK' /\ UNCHANGED syncVars
  <2>1. UNCHANGED syncVars
    BY <1>4 DEF TaskStep, StartDownload, SkipDownload, FinishDownload, EndTask, FailDownload
  <2>2. QED BY <1>4, <2>1, TaskTyped
<1>5. ASSUME NEW i \in DOMAIN verifying, Verify(i) PROVE OthersOK' /\ UNCHANGED syncVars
  BY <1>5, VerifyTyped DEF Verify
<1>6. CASE HandleFetchedBlock BY <1>6, HandleFetchedTyped DEF HandleFetchedBlock
<1>7. CASE HandleBlockFetchRequest
  <2>1. AddEntry(Head(routing_events).header, {Head(routing_events).peer})
    BY <1>7 DEF HandleBlockFetchRequest
  <2>2. QED BY <1>7, <2>1, RequestedTyped DEF SyncNext
<1>8. CASE HandleBlockchainUpdated
  <2>1. FetchNextBlocks(Without(blocks_to_fetch, Head(routing_events).header.hash))
    BY <1>8 DEF HandleBlockchainUpdated
  <2>2. \E known \in SUBSET Hashes :
          ScheduleFrom(Without(blocks_to_fetch, Head(routing_events).header.hash), known)
    BY <2>1, RoundIsACall
  <2>3. QED BY <1>8, <2>2, UpdatedTyped DEF SyncNext
<1>9. CASE Tick
  <2>1. FetchNextBlocks(blocks_to_fetch) BY <1>9 DEF Tick
  <2>2. \E known \in SUBSET Hashes : ScheduleFrom(blocks_to_fetch, known) BY <2>1, RoundIsACall
  <2>3. QED BY <1>9, <2>2, TickTyped DEF SyncNext
<1>10. QED BY <1>1, <1>2, <1>3, <1>4, <1>5, <1>6, <1>7, <1>8, <1>9 DEF NodeStep

LEMMA StepTyped ==
  ASSUME SyncTypeOK, OthersOK, [Next]_vars
  PROVE  OthersOK' /\ [SyncNext]_syncVars
<1>1. ASSUME NEW p \in Peer, NEW h \in Header, Announce(p, h)
      PROVE  OthersOK' /\ [SyncNext]_syncVars
  <2>1. AddEntry(h, {p}) BY <1>1 DEF Announce
  <2>2. QED BY <1>1, <2>1, AnnounceTyped DEF SyncNext
<1>2. ASSUME NEW p \in Peer, Depart(p) PROVE OthersOK' /\ [SyncNext]_syncVars
  BY <1>2, DepartTyped DEF Depart
<1>3. CASE NodeStep BY <1>3, NodeStepTyped
<1>4. CASE UNCHANGED vars BY <1>4, OthersFrame DEF vars
<1>5. QED BY <1>1, <1>2, <1>3, <1>4 DEF Next

LEMMA FetchingStart == Init => SyncInit /\ OthersOK
<1> SUFFICES ASSUME Init PROVE SyncInit /\ OthersOK
  OBVIOUS
<1>1. IsABag(EmptyBag) /\ BagToSet(EmptyBag) = {}
  BY DEF IsABag, EmptyBag, SetToBag, BagToSet
<1>2. announced \in [Peer -> [Header -> Nat]] BY DEF Init
<1>3. \A S : <<>> \in Seq(S) BY EmptySeq
<1>4. QED BY <1>1, <1>2, <1>3 DEF Init, OthersOK, Block

FetchingOK == SyncInv /\ OthersOK

LEMMA FetchingNext == FetchingOK /\ [Next]_vars => FetchingOK' /\ [SyncNext]_syncVars
BY StepTyped, SyncStep DEF FetchingOK, SyncInv

-----------------------------------------------------------------------------
(* Which blocks of a batch join the chain.                                 *)

\* A set with the chain, and with every valid block of the batch whose parent it has.
IsClosed(S, batch) ==
  /\ S \subseteq Block /\ blocks \subseteq S
  /\ \A b \in batch \ Invalid : Parent[b] \in S => b \in S

\* The least of these sets solves the recursion of Joining.
LEMMA JoinsIsSolved ==
  ASSUME NEW batch, batch \subseteq Hashes, blocks \subseteq Block
  PROVE  \E f : f = [b \in Block |-> b \in blocks \/ (b \in batch \ Invalid /\ f[Parent[b]])]
<1> DEFINE least == {b \in Block : \A S \in SUBSET Block : IsClosed(S, batch) => b \in S}
           f == [b \in Block |-> b \in least]
<1>1. \A b \in batch : b \in Block /\ Parent[b] \in Block BY FetchingAssumption DEF Block
<1>2. IsClosed(least, batch) BY <1>1 DEF IsClosed
<1>3. ASSUME NEW b \in least, b \notin blocks PROVE b \in batch \ Invalid /\ Parent[b] \in least
  <2>1. SUFFICES ASSUME ~(b \in batch \ Invalid /\ Parent[b] \in least) PROVE FALSE
    OBVIOUS
  <2>2. least \ {b} \in SUBSET Block OBVIOUS
  <2> HIDE DEF least
  <2>3. IsClosed(least \ {b}, batch) BY <1>2, <1>3, <2>1, <2>2 DEF IsClosed
  <2>4. b \in least \ {b} BY <2>2, <2>3 DEF least
  <2>5. QED BY <2>4
<1>4. ASSUME NEW b \in Block
      PROVE  b \in least <=> b \in blocks \/ (b \in batch \ Invalid /\ Parent[b] \in least)
  <2> HIDE DEF least
  <2>1. QED BY <1>2, <1>3 DEF IsClosed
<1>5. ASSUME NEW b \in Block
      PROVE  f[b] = (b \in blocks \/ (b \in batch \ Invalid /\ f[Parent[b]]))
  <2> HIDE DEF least
  <2>1. b \in batch \ Invalid => f[Parent[b]] = (Parent[b] \in least) BY <1>1
  <2>2. f[b] = (b \in least) OBVIOUS
  <2>3. b \in least <=> b \in blocks \/ (b \in batch \ Invalid /\ Parent[b] \in least)
    BY <1>4
  <2> HIDE DEF f
  <2>4. CASE b \in batch \ Invalid
    <3>1. (b \in least) = (b \in blocks \/ Parent[b] \in least) BY <2>3, <2>4
    <3>2. (b \in blocks \/ (b \in batch \ Invalid /\ f[Parent[b]]))
            = (b \in blocks \/ Parent[b] \in least)
      BY <2>1, <2>4
    <3>3. QED BY <2>2, <3>1, <3>2
  <2>5. CASE b \notin batch \ Invalid
    <3>1. (b \in least) = (b \in blocks) BY <2>3, <2>5
    <3>2. (b \in blocks \/ (b \in batch \ Invalid /\ f[Parent[b]])) = (b \in blocks) BY <2>5
    <3>3. QED BY <2>2, <3>1, <3>2
  <2>6. QED BY <2>4, <2>5
<1> HIDE DEF least
<1>6. f = [b \in Block |-> b \in blocks \/ (b \in batch \ Invalid /\ f[Parent[b]])] BY <1>5
<1>7. QED BY <1>6

LEMMA WhoJoins ==
  ASSUME NEW batch, batch \subseteq Hashes, blocks \subseteq Block, NEW b \in batch
  PROVE  /\ b \in blocks => b \in Joining(batch)
         /\ b \notin Invalid /\ Parent[b] \in blocks \cup Joining(batch) => b \in Joining(batch)
<1> DEFINE Solves(f) == f = [c \in Block |-> c \in blocks \/ (c \in batch \ Invalid /\ f[Parent[c]])]
           joins == CHOOSE f : Solves(f)
<1>1. \E f : Solves(f) BY JoinsIsSolved
<1>2. Solves(joins) BY <1>1
<1>3. Joining(batch) = {c \in batch : joins[c]} BY DEF Joining
<1> HIDE DEF joins
<1>4. \A c \in Block : joins[c] = (c \in blocks \/ (c \in batch \ Invalid /\ joins[Parent[c]]))
  BY <1>2
<1>5. b \in Block /\ Parent[b] \in Block BY FetchingAssumption DEF Block
<1>6. Parent[b] \in blocks \cup Joining(batch) => joins[Parent[b]] BY <1>3, <1>4, <1>5
<1>7. QED BY <1>3, <1>4, <1>5, <1>6

-----------------------------------------------------------------------------
(* What has arrived stays, where no block is invalid.                      *)

LEMMA ArrivedFrame ==
  ASSUME UNCHANGED <<verifying, consensusVars>>
  PROVE  \A b : HasArrived(b) => HasArrived(b)'
BY DEF consensusVars, HasArrived, IsKnown

LEMMA FetchedArrives ==
  ASSUME OthersOK, HandleBlockFetched
  PROVE  \A b : \/ HasArrived(b)
                \/ Head(network_events).header.hash = b /\ Head(network_events).intact
                => HasArrived(b)'
<1> DEFINE e == Head(network_events)
           v == [peer |-> e.peer, header |-> e.header, intact |-> e.intact]
<1>1. /\ network_events # <<>>
      /\ verifying' = Append(verifying, v)
      /\ UNCHANGED consensusVars
  BY DEF HandleBlockFetched
<1>2. v \in [peer: Peer, header: Header, intact: BOOLEAN]
  <2>1. e \in NetworkEvent BY <1>1, Taken DEF OthersOK
  <2>2. QED BY <2>1 DEF NetworkEvent
<1>3. v.header = e.header /\ v.intact = e.intact OBVIOUS
<1> HIDE DEF v
<1>4. ToSet(verifying') = ToSet(verifying) \cup {v}
  <2> DEFINE R == [peer: Peer, header: Header, intact: BOOLEAN]
  <2>1. verifying \in Seq(R) /\ v \in R BY <1>2 DEF OthersOK
  <2> HIDE DEF R
  <2>2. ToSet(Append(verifying, v)) = ToSet(verifying) \cup {v} BY <2>1, Appended
  <2>3. QED BY <1>1, <2>2
<1>5. QED BY <1>1, <1>3, <1>4 DEF HasArrived, IsKnown, consensusVars

LEMMA VerifiedArrives ==
  ASSUME OthersOK, NEW i, Verify(i)
  PROVE  \A b : HasArrived(b) => HasArrived(b)'
<1> DEFINE f == [hash |-> verifying[i].header.hash, peer |-> verifying[i].peer]
<1>1. /\ i \in DOMAIN verifying /\ verifying' = RemoveAt(verifying, i)
      /\ fetched_blocks' = (IF verifying[i].intact THEN Append(fetched_blocks, f) ELSE fetched_blocks)
      /\ UNCHANGED <<blocks, blocks_queue>>
  BY DEF Verify
<1>2. /\ verifying[i] \in [peer: Peer, header: Header, intact: BOOLEAN]
      /\ ToSet(verifying) \subseteq {verifying[i]} \cup ToSet(verifying')
  BY <1>1, Removed DEF OthersOK
<1>3. f \in FetchedBlock /\ f.hash = verifying[i].header.hash
  BY <1>2, HeaderHash DEF FetchedBlock
<1> HIDE DEF f
<1>4. /\ ToSet(fetched_blocks) \subseteq ToSet(fetched_blocks')
      /\ verifying[i].intact => f \in ToSet(fetched_blocks')
  BY <1>1, <1>3, Appended DEF OthersOK
<1>5. ASSUME NEW b, HasArrived(b) PROVE HasArrived(b)'
  <2>1. CASE \E v \in ToSet(verifying) : v.header.hash = b /\ v.intact
    <3>1. PICK v \in ToSet(verifying) : v.header.hash = b /\ v.intact BY <2>1
    <3>2. CASE v = verifying[i] BY <1>3, <1>4, <3>1, <3>2 DEF HasArrived
    <3>3. CASE v # verifying[i] BY <1>2, <3>1, <3>3 DEF HasArrived
    <3>4. QED BY <3>2, <3>3
  <2>2. CASE \E g \in ToSet(fetched_blocks) : g.hash = b BY <1>4, <2>2 DEF HasArrived
  <2>3. CASE IsKnown(b) BY <1>1, <2>3 DEF HasArrived, IsKnown
  <2>4. QED BY <1>5, <2>1, <2>2, <2>3 DEF HasArrived
<1>6. QED BY <1>5

LEMMA BatchArrives ==
  ASSUME OthersOK, Invalid = {}, NEW queue, queue \subseteq FetchedBlock, AddBlocks(queue),
         NEW b \in blocks \cup Batch(queue)
  PROVE  IsKnown(b)'
<1>1. /\ blocks' = blocks \cup Joining(Batch(queue))
      /\ blocks_queue' = {c \in queue : c.hash \in Orphans(Batch(queue))}
  BY DEF AddBlocks
<1>2. CASE b \in blocks \cup Joining(Batch(queue)) BY <1>1, <1>2 DEF IsKnown
<1>3. CASE b \in Batch(queue) /\ b \notin Joining(Batch(queue))
  <2>1. Batch(queue) \subseteq Hashes /\ blocks \subseteq Block
    BY DEF Batch, FetchedBlock, OthersOK
  <2>2. Parent[b] \notin blocks \cup Joining(Batch(queue)) BY <1>3, <2>1, WhoJoins
  <2>3. b \in Orphans(Batch(queue)) BY <1>3, <2>2 DEF Orphans
  <2>4. PICK c \in queue : c.hash = b BY <1>3 DEF Batch
  <2>5. c \in blocks_queue' BY <1>1, <2>3, <2>4
  <2>6. QED BY <2>4, <2>5 DEF IsKnown
<1>4. QED BY <1>2, <1>3

LEMMA HandleFetchedArrives ==
  ASSUME OthersOK, Invalid = {}, HandleFetchedBlock
  PROVE  \A b : HasArrived(b) => HasArrived(b)'
<1> DEFINE block == Head(fetched_blocks)
           queue == IF block.hash \in Batch(blocks_queue) THEN blocks_queue
                    ELSE blocks_queue \cup {block}
<1>1. /\ fetched_blocks # <<>> /\ fetched_blocks' = Tail(fetched_blocks) /\ UNCHANGED verifying
  BY DEF HandleFetchedBlock
<1>2. block \in FetchedBlock /\ ToSet(fetched_blocks) = {block} \cup ToSet(fetched_blocks')
  BY <1>1, Taken DEF OthersOK
<1>3. queue \subseteq FetchedBlock BY <1>2 DEF OthersOK
<1>4. \/ block.hash \in blocks /\ UNCHANGED <<blocks, blocks_queue>>
      \/ AddBlocks(queue)
  BY DEF HandleFetchedBlock
<1>5. Batch(blocks_queue) \cup {block.hash} \subseteq Batch(queue) BY DEF Batch
<1> HIDE DEF block, queue
<1>6. ASSUME NEW b, IsKnown(b) \/ b = block.hash PROVE IsKnown(b)'
  <2>1. CASE block.hash \in blocks /\ UNCHANGED <<blocks, blocks_queue>>
    BY <1>6, <2>1 DEF IsKnown
  <2>2. CASE AddBlocks(queue)
    <3>1. b \in blocks \cup Batch(queue) BY <1>5, <1>6 DEF IsKnown, Batch
    <3>2. QED BY <1>3, <2>2, <3>1, BatchArrives
  <2>3. QED BY <1>4, <2>1, <2>2
<1>7. QED BY <1>1, <1>2, <1>6 DEF HasArrived

-----------------------------------------------------------------------------
(* A fetch is in hand, where peers answer with what they are asked for.    *)

\* What AnswersAreIntact and the others below rest on: no peer answers with something else,
\* every announced header has the id of its block, and add_block refuses no block.
PeersAreHonest ==
  /\ \A p \in Peer : Corrupts[p] \subseteq Serves[p]
  /\ \A h \in Header : h.id = Id[h.hash]
  /\ Invalid = {}

AnswersAreIntact == \A e \in ToSet(network_events) : e.type = "BlockFetched" => e.intact

\* A url is being fetched while a task fetches it, or has not given it back yet.
QueriesHaveTasks ==
  \A u \in current_queries :
    \E t \in BagToSet(fetches) : Url(t) = u /\ t.at \in {"downloading", "finished"}

\* The answer a task has sent is in the channel of the routing thread, or past it.
FinishedHaveAnswered ==
  \A t \in BagToSet(fetches) :
    t.at = "finished" =>
      \/ \E e \in ToSet(network_events) : e.peer = t.peer /\ e.header = t.header
                                          /\ e.type = "BlockFetched"
      \/ HasArrived(t.header.hash)

HandInv ==
  /\ AnswersAreIntact /\ QueriesHaveTasks /\ FinishedHaveAnswered /\ FetchingIsInHand

ArrivedStays == \A b : HasArrived(b) => HasArrived(b)'

\* A step of neither the channel nor the tasks, which asks for what it marks.
LEMMA QuietStep ==
  ASSUME HandInv, ArrivedStays, UNCHANGED <<network_events, fetches, current_queries>>,
         \A p \in Peer, h \in Header :
           IsFetching(p, h)' =>
             \/ [peer |-> p, header |-> h] \in ToSet(selected')
             \/ IsFetching(p, h) /\ [peer |-> p, header |-> h] \notin ToSet(selected)
  PROVE  HandInv'
<1>1. AnswersAreIntact' /\ QueriesHaveTasks' BY DEF HandInv, AnswersAreIntact, QueriesHaveTasks, Url
<1>2. FinishedHaveAnswered' BY DEF HandInv, ArrivedStays, FinishedHaveAnswered
<1>3. FetchingIsInHand'
  BY DEF HandInv, ArrivedStays, FetchingIsInHand, IsFetching, IsOnTheWay
<1>4. QED BY <1>1, <1>2, <1>3 DEF HandInv

\* fetch_next_blocks when nothing is selected.
LEMMA RoundInHand ==
  ASSUME Ready, NEW lists, FetchNextBlocks(lists),
         \A p \in Peer, h \in Header :
           lists[p][h].status = "Fetching" => blocks_to_fetch[p][h].status = "Fetching"
  PROVE  \A p \in Peer, h \in Header :
           IsFetching(p, h)' =>
             \/ [peer |-> p, header |-> h] \in ToSet(selected')
             \/ IsFetching(p, h) /\ [peer |-> p, header |-> h] \notin ToSet(selected)
<1>1. ASSUME NEW p \in Peer, NEW h \in Header, IsFetching(p, h)', ~IsFetching(p, h)
      PROVE  [peer |-> p, header |-> h] \in ToSet(selected')
  <2>1. h \in Having(blocks_to_fetch'[p], "Fetching") BY <1>1 DEF IsFetching, Having
  <2>2. h \notin Having(lists[p], "Fetching") BY <1>1 DEF IsFetching, Having
  <2>3. h \in Marked(lists, p) BY <2>1, <2>2 DEF Marked
  <2>4. QED BY <2>3, RoundSelects
<1>2. ToSet(selected) = {} BY EmptyToSet DEF Ready
<1>3. QED BY <1>1, <1>2

LEMMA TickInHand == ASSUME HandInv, Tick PROVE HandInv'
<1>1. ArrivedStays BY ArrivedFrame DEF Tick, ArrivedStays
<1>2. Ready /\ FetchNextBlocks(blocks_to_fetch) BY DEF Tick
<1>3. UNCHANGED <<network_events, fetches, current_queries>> BY DEF Tick, netVars
<1>4. QED BY <1>1, <1>2, <1>3, RoundInHand, QuietStep

LEMMA UpdatedInHand ==
  ASSUME HandInv, HandleBlockchainUpdated PROVE HandInv'
<1> DEFINE lists == Without(blocks_to_fetch, Head(routing_events).header.hash)
<1>1. ArrivedStays BY ArrivedFrame DEF HandleBlockchainUpdated, ArrivedStays
<1>2. Ready /\ FetchNextBlocks(lists) BY DEF HandleBlockchainUpdated
<1>3. UNCHANGED <<network_events, fetches, current_queries>> BY DEF HandleBlockchainUpdated, netVars
<1>4. \A p \in Peer, h \in Header :
        lists[p][h].status = "Fetching" => blocks_to_fetch[p][h].status = "Fetching"
  BY DEF Without, Unlisted
<1> HIDE DEF lists
<1>5. QED BY <1>1, <1>2, <1>3, <1>4, RoundInHand, QuietStep

\* The steps that leave the lists, the channel and the tasks alone.
LEMMA OtherStepsInHand ==
  ASSUME HandInv, ArrivedStays,
         UNCHANGED <<blocks_to_fetch, selected, network_events, fetches, current_queries>>
  PROVE  HandInv'
BY QuietStep DEF IsFetching

\* One fetch less is selected: it is handed over, or its entries go.
LEMMA RequestInHand ==
  ASSUME OthersOK, HandInv, RequestNext PROVE HandInv'
<1> DEFINE e == Head(selected)
           t == [peer |-> e.peer, header |-> e.header, at |-> "spawned"]
<1>1. /\ selected # <<>> /\ selected' = Tail(selected)
      /\ UNCHANGED <<network_events, current_queries, verifying, consensusVars>>
  BY DEF RequestNext
<1>2. ArrivedStays BY <1>1, ArrivedFrame DEF ArrivedStays
<1>3. e \in [peer: Peer, header: Header] /\ ToSet(selected) = {e} \cup ToSet(selected')
  BY <1>1, Taken DEF OthersOK
<1>4. t.peer = e.peer /\ t.header = e.header /\ t.at = "spawned" OBVIOUS
<1>5. \/ fetches' = BagAdd(fetches, t) /\ UNCHANGED syncVars
      \/ RemoveEntry(e.header.hash) /\ UNCHANGED fetches
  BY DEF RequestNext
<1> HIDE DEF e, t
<1>6. CASE fetches' = BagAdd(fetches, t) /\ UNCHANGED syncVars
  <2>1. BagToSet(fetches') = BagToSet(fetches) \cup {t} BY <1>6, BagGrows DEF OthersOK
  <2>2. AnswersAreIntact' BY <1>1 DEF HandInv, AnswersAreIntact
  <2>3. QueriesHaveTasks' BY <1>1, <2>1 DEF HandInv, QueriesHaveTasks, Url
  <2>4. FinishedHaveAnswered'
    BY <1>1, <1>2, <1>4, <2>1 DEF HandInv, FinishedHaveAnswered, ArrivedStays
  <2>5. ASSUME NEW p \in Peer, NEW h \in Header, IsFetching(p, h)'
        PROVE  IsOnTheWay(p, h)' \/ HasArrived(h.hash)'
    <3>1. IsOnTheWay(p, h) \/ HasArrived(h.hash)
      BY <1>6, <2>5 DEF HandInv, FetchingIsInHand, IsFetching, syncVars
    <3>2. CASE [peer |-> p, header |-> h] = e
      <4>1. t.peer = p /\ t.header = h BY <1>4, <3>2
      <4>2. QED BY <1>4, <2>1, <4>1 DEF IsOnTheWay
    <3>3. CASE [peer |-> p, header |-> h] # e
      BY <1>1, <1>2, <1>3, <2>1, <3>1, <3>3 DEF IsOnTheWay, ArrivedStays
    <3>4. QED BY <3>2, <3>3
  <2>6. QED BY <2>2, <2>3, <2>4, <2>5 DEF HandInv, FetchingIsInHand, IsFetching
<1>7. CASE RemoveEntry(e.header.hash) /\ UNCHANGED fetches
  <2>1. ASSUME NEW p \in Peer, NEW h \in Header, IsFetching(p, h)'
        PROVE  IsFetching(p, h) /\ h # e.header
    BY <1>7, <2>1 DEF RemoveEntry, Without, Unlisted, IsFetching
  <2>2. ASSUME NEW p \in Peer, NEW h \in Header, IsFetching(p, h)'
        PROVE  \/ [peer |-> p, header |-> h] \in ToSet(selected')
               \/ IsFetching(p, h) /\ [peer |-> p, header |-> h] \notin ToSet(selected)
    <3>1. [peer |-> p, header |-> h] # e BY <2>1, <2>2
    <3>2. QED BY <1>3, <2>1, <2>2, <3>1
  <2>3. QED BY <1>1, <1>2, <1>7, <2>2, QuietStep
<1>8. QED BY <1>5, <1>6, <1>7

\* An event less is in the channel: what it says has been noted.
LEMMA EventTaken ==
  ASSUME OthersOK, HandInv, ArrivedStays, network_events # <<>>,
         network_events' = Tail(network_events), UNCHANGED <<fetches, current_queries, selected>>,
         \A b : Head(network_events).type = "BlockFetched" /\ Head(network_events).header.hash = b
                => HasArrived(b)',
         \A p \in Peer, h \in Header :
           IsFetching(p, h)' =>
             /\ IsFetching(p, h)
             /\ Head(network_events).peer = p /\ Head(network_events).header = h
                => Head(network_events).type = "BlockFetched"
  PROVE  HandInv'
<1> DEFINE e == Head(network_events)
<1>1. ToSet(network_events) = {e} \cup ToSet(network_events') BY Taken DEF OthersOK
<1> HIDE DEF e
<1>2. AnswersAreIntact' BY <1>1 DEF HandInv, AnswersAreIntact
<1>3. QueriesHaveTasks' BY DEF HandInv, QueriesHaveTasks, Url
<1>4. FinishedHaveAnswered'
  BY <1>1 DEF HandInv, FinishedHaveAnswered, ArrivedStays, e
<1>5. ASSUME NEW p \in Peer, NEW h \in Header, IsFetching(p, h)'
      PROVE  IsOnTheWay(p, h)' \/ HasArrived(h.hash)'
  <2>1. IsOnTheWay(p, h) \/ HasArrived(h.hash)
    BY <1>5 DEF HandInv, FetchingIsInHand, IsFetching
  <2>2. CASE e.peer = p /\ e.header = h BY <1>5, <2>2 DEF e
  <2>3. CASE ~(e.peer = p /\ e.header = h)
    BY <1>1, <2>1, <2>3 DEF IsOnTheWay, ArrivedStays
  <2>4. QED BY <2>2, <2>3
<1>6. QED BY <1>2, <1>3, <1>4, <1>5 DEF HandInv, FetchingIsInHand, IsFetching

LEMMA FetchedInHand ==
  ASSUME OthersOK, HandInv, HandleBlockFetched PROVE HandInv'
<1> DEFINE e == Head(network_events)
<1>1. /\ network_events # <<>> /\ e.type = "BlockFetched" /\ network_events' = Tail(network_events)
      /\ UNCHANGED <<fetches, current_queries, selected>>
      /\ MarkAsFetched(e.header.hash)
  BY DEF HandleBlockFetched, netVars
<1>2. e \in ToSet(network_events) BY <1>1, Taken DEF OthersOK
<1>3. e.intact BY <1>1, <1>2 DEF HandInv, AnswersAreIntact
<1>4. ArrivedStays /\ \A b : e.header.hash = b => HasArrived(b)'
  BY <1>3, FetchedArrives DEF ArrivedStays
<1>5. ASSUME NEW p \in Peer, NEW h \in Header, IsFetching(p, h)' PROVE IsFetching(p, h)
  BY <1>1, <1>5 DEF MarkAsFetched, Unlisted, IsFetching
<1>6. QED BY <1>1, <1>4, <1>5, EventTaken

LEMMA FetchFailedInHand ==
  ASSUME OthersOK, SyncTypeOK, HandInv, HandleBlockFetchFailed PROVE HandInv'
<1> DEFINE e == Head(network_events)
<1>1. /\ network_events # <<>> /\ e.type = "BlockFetchFailed"
      /\ network_events' = Tail(network_events)
      /\ UNCHANGED <<fetches, current_queries, selected, verifying, consensusVars>>
      /\ MarkAsFailed(e.header, e.peer)
  BY DEF HandleBlockFetchFailed, netVars
<1>2. e \in NetworkEvent BY <1>1, Taken DEF OthersOK
<1>3. e.header \in Header /\ e.peer \in Peer BY <1>2 DEF NetworkEvent
<1>4. ArrivedStays BY <1>1, ArrivedFrame DEF ArrivedStays
<1>5. ASSUME NEW p \in Peer, NEW h \in Header, IsFetching(p, h)'
      PROVE  IsFetching(p, h) /\ ~(e.peer = p /\ e.header = h)
  <2> DEFINE q == e.peer
             g == e.header
  <2>1. q \in Peer /\ g \in Header /\ MarkAsFailed(g, q) BY <1>1, <1>3
  <2> HIDE DEF q, g
  <2>2. CASE blocks_to_fetch[q][g] = Unlisted
    <3>1. blocks_to_fetch' = blocks_to_fetch BY <2>1, <2>2 DEF MarkAsFailed
    <3>2. IsFetching(p, h) BY <1>5, <3>1 DEF IsFetching
    <3>3. ~(q = p /\ g = h) BY <2>2, <3>2 DEF IsFetching, Unlisted
    <3>4. QED BY <3>2, <3>3 DEF q, g
  <2>3. CASE blocks_to_fetch[q][g] # Unlisted
    <3>1. blocks_to_fetch' = [blocks_to_fetch EXCEPT ![q][g].status = "Failed"]
      BY <2>1, <2>3 DEF MarkAsFailed
    <3>2. CASE q = p /\ g = h
      <4>1. blocks_to_fetch'[p][h].status = "Failed"
        BY <2>1, <3>1, <3>2 DEF SyncTypeOK, List, Entry
      <4>2. QED BY <1>5, <4>1 DEF IsFetching
    <3>3. CASE ~(q = p /\ g = h)
      <4>1. blocks_to_fetch'[p][h] = blocks_to_fetch[p][h]
        BY <2>1, <3>1, <3>3 DEF SyncTypeOK, List
      <4>2. QED BY <1>5, <3>3, <4>1 DEF IsFetching, q, g
    <3>4. QED BY <3>2, <3>3
  <2>4. QED BY <2>2, <2>3
<1>6. QED BY <1>1, <1>4, <1>5, EventTaken

\* A task moves on, or ends: what the others have done and will do stays.
LEMMA TaskInHand ==
  ASSUME OthersOK, HandInv, NEW t \in BagToSet(fetches), NEW place,
         UNCHANGED <<blocks_to_fetch, selected, verifying, consensusVars>>,
         ToSet(network_events) \subseteq ToSet(network_events'),
         AnswersAreIntact',
         BagToSet(fetches) \ {t} \subseteq BagToSet(fetches'),
         \A s \in BagToSet(fetches') : s \in BagToSet(fetches) \/ s = [t EXCEPT !.at = place],
         place = "finished" =>
           \E e \in ToSet(network_events') : e.peer = t.peer /\ e.header = t.header
                                             /\ e.type = "BlockFetched",
         \A u \in current_queries' :
           \E s \in BagToSet(fetches') : Url(s) = u /\ s.at \in {"downloading", "finished"},
         \/ IsOnTheWay(t.peer, t.header)'
         \/ HasArrived(t.header.hash)
         \/ t.at = "finished"
  PROVE  HandInv'
<1>1. ArrivedStays BY ArrivedFrame DEF ArrivedStays
<1>2. t \in Task BY DEF OthersOK
<1>3. QueriesHaveTasks' BY DEF QueriesHaveTasks, Url
<1>4. ASSUME NEW s \in BagToSet(fetches)', s.at = "finished"
      PROVE  \/ \E e \in ToSet(network_events)' : e.peer = s.peer /\ e.header = s.header
                                                  /\ e.type = "BlockFetched"
             \/ HasArrived(s.header.hash)'
  <2>1. CASE s \in BagToSet(fetches)
    BY <1>1, <1>4, <2>1 DEF HandInv, FinishedHaveAnswered, ArrivedStays
  <2>2. CASE s = [t EXCEPT !.at = place]
    <3>1. s.peer = t.peer /\ s.header = t.header /\ place = "finished"
      BY <1>2, <1>4, <2>2 DEF Task
    <3>2. QED BY <3>1
  <2>3. QED BY <2>1, <2>2
<1>5. FinishedHaveAnswered' BY <1>4 DEF FinishedHaveAnswered
<1>6. ASSUME NEW p \in Peer, NEW h \in Header, IsFetching(p, h)'
      PROVE  IsOnTheWay(p, h)' \/ HasArrived(h.hash)'
  <2>1. IsOnTheWay(p, h) \/ HasArrived(h.hash)
    BY <1>6 DEF HandInv, FetchingIsInHand, IsFetching
  <2>2. CASE HasArrived(h.hash) BY <1>1, <2>2 DEF ArrivedStays
  <2>3. CASE [peer |-> p, header |-> h] \in ToSet(selected) BY <2>3 DEF IsOnTheWay
  <2>4. CASE \E e \in ToSet(network_events) : e.peer = p /\ e.header = h
    BY <2>4 DEF IsOnTheWay
  <2>5. CASE \E s \in BagToSet(fetches) : s.peer = p /\ s.header = h /\ s.at # "finished"
    <3>1. PICK s \in BagToSet(fetches) : s.peer = p /\ s.header = h /\ s.at # "finished" BY <2>5
    <3>2. CASE s # t BY <3>1, <3>2 DEF IsOnTheWay
    <3>3. CASE s = t
      <4>1. t.peer = p /\ t.header = h /\ t.at # "finished" BY <3>1, <3>3
      <4>2. CASE IsOnTheWay(t.peer, t.header)'
        BY <4>1, <4>2
      <4>3. CASE HasArrived(t.header.hash) BY <1>1, <4>1, <4>3 DEF ArrivedStays
      <4>4. QED BY <4>1, <4>2, <4>3
    <3>4. QED BY <3>2, <3>3
  <2>6. QED BY <2>1, <2>2, <2>3, <2>4, <2>5 DEF IsOnTheWay
<1>7. QED BY <1>3, <1>5, <1>6 DEF HandInv, FetchingIsInHand, IsFetching

\* A task that moves, and the others.
LEMMA MovedTask ==
  ASSUME OthersOK, NEW t \in BagToSet(fetches), NEW place, fetches' = Moved(t, place)
  PROVE  /\ BagToSet(fetches) \ {t} \subseteq BagToSet(fetches')
         /\ \A s \in BagToSet(fetches') : s \in BagToSet(fetches) \/ s = [t EXCEPT !.at = place]
         /\ [t EXCEPT !.at = place] \in BagToSet(fetches')
         /\ [t EXCEPT !.at = place].peer = t.peer
         /\ [t EXCEPT !.at = place].header = t.header
         /\ [t EXCEPT !.at = place].at = place
<1>1. t \in Task /\ IsABag(fetches) BY DEF OthersOK
<1>2. /\ IsABag(BagRemove(fetches, t))
      /\ BagToSet(BagRemove(fetches, t)) \subseteq BagToSet(fetches)
      /\ BagToSet(fetches) \ {t} \subseteq BagToSet(BagRemove(fetches, t))
  BY <1>1, BagShrinks
<1> DEFINE s == [t EXCEPT !.at = place]
<1>3. s.peer = t.peer /\ s.header = t.header /\ s.at = place BY <1>1 DEF Task
<1> HIDE DEF s
<1>4. fetches' = BagAdd(BagRemove(fetches, t), s) BY DEF Moved, s
<1>5. BagToSet(fetches') = BagToSet(BagRemove(fetches, t)) \cup {s} BY <1>2, <1>4, BagGrows
<1>6. QED BY <1>2, <1>3, <1>5 DEF s

LEMMA EndedTask ==
  ASSUME OthersOK, NEW t, fetches' = BagRemove(fetches, t)
  PROVE  /\ BagToSet(fetches) \ {t} \subseteq BagToSet(fetches')
         /\ BagToSet(fetches') \subseteq BagToSet(fetches)
BY BagShrinks DEF OthersOK

\* The url of another task, or of this one at its new place.
LEMMA QueriesMove ==
  ASSUME HandInv, NEW t,
         BagToSet(fetches) \ {t} \subseteq BagToSet(fetches'),
         \/ t.at \notin {"downloading", "finished"} /\ current_queries' \subseteq current_queries
         \/ current_queries' \subseteq current_queries \ {Url(t)}
  PROVE  \A u \in current_queries' :
           \E s \in BagToSet(fetches') : Url(s) = u /\ s.at \in {"downloading", "finished"}
<1>1. SUFFICES ASSUME NEW u \in current_queries'
      PROVE  \E s \in BagToSet(fetches') : Url(s) = u /\ s.at \in {"downloading", "finished"}
  OBVIOUS
<1>2. u \in current_queries OBVIOUS
<1>3. PICK s \in BagToSet(fetches) : Url(s) = u /\ s.at \in {"downloading", "finished"}
  BY <1>2 DEF HandInv, QueriesHaveTasks
<1>4. s # t BY <1>3
<1>5. QED BY <1>3, <1>4

LEMMA StartInHand ==
  ASSUME OthersOK, HandInv, NEW t \in BagToSet(fetches), StartDownload(t) PROVE HandInv'
<1>1. /\ t.at = "spawned" /\ current_queries' = current_queries \cup {Url(t)}
      /\ fetches' = Moved(t, "downloading")
      /\ UNCHANGED <<blocks_to_fetch, selected, network_events, verifying, consensusVars>>
  BY DEF StartDownload, At, syncVars
<1> DEFINE s == [t EXCEPT !.at = "downloading"]
<1>2. /\ BagToSet(fetches) \ {t} \subseteq BagToSet(fetches')
      /\ \A r \in BagToSet(fetches') : r \in BagToSet(fetches) \/ r = s
      /\ s \in BagToSet(fetches')
      /\ s.peer = t.peer /\ s.header = t.header /\ s.at = "downloading"
  BY <1>1, MovedTask
<1> HIDE DEF s
<1>3. IsOnTheWay(t.peer, t.header)' BY <1>2 DEF IsOnTheWay
<1>4. ASSUME NEW u \in current_queries'
      PROVE  \E r \in BagToSet(fetches') : Url(r) = u /\ r.at \in {"downloading", "finished"}
  <2>1. CASE u = Url(t) BY <1>2, <2>1 DEF Url
  <2>2. CASE u \in current_queries
    <3>1. PICK r \in BagToSet(fetches) : Url(r) = u /\ r.at \in {"downloading", "finished"}
      BY <2>2 DEF HandInv, QueriesHaveTasks
    <3>2. r # t BY <1>1, <3>1
    <3>3. QED BY <1>2, <3>1, <3>2
  <2>3. QED BY <1>1, <2>1, <2>2
<1>5. AnswersAreIntact' BY <1>1 DEF HandInv, AnswersAreIntact
<1>6. QED BY <1>1, <1>2, <1>3, <1>4, <1>5, TaskInHand DEF s

\* Nobody is told of the end of this task: the one that fetches the url will tell, or has told.
LEMMA SkipInHand ==
  ASSUME OthersOK, HandInv, PeersAreHonest, NEW t \in BagToSet(fetches), SkipDownload(t)
  PROVE  HandInv'
<1>1. /\ t.at = "spawned" /\ Url(t) \in current_queries
      /\ fetches' = BagRemove(fetches, t)
      /\ UNCHANGED <<blocks_to_fetch, selected, network_events, current_queries, verifying,
                     consensusVars>>
  BY DEF SkipDownload, At, syncVars
<1>2. /\ BagToSet(fetches) \ {t} \subseteq BagToSet(fetches')
      /\ BagToSet(fetches') \subseteq BagToSet(fetches)
  BY <1>1, EndedTask
<1>3. PICK s \in BagToSet(fetches) : Url(s) = Url(t) /\ s.at \in {"downloading", "finished"}
  BY <1>1 DEF HandInv, QueriesHaveTasks
<1>4. s \in Task /\ t \in Task /\ s # t BY <1>1, <1>3 DEF OthersOK
<1>5. s.peer = t.peer /\ s.header = t.header
  <2>1. s.peer = t.peer /\ s.header.hash = t.header.hash BY <1>3 DEF Url
  <2>2. s.header \in Header /\ t.header \in Header BY <1>4 DEF Task
  <2>3. s.header.id = t.header.id BY <2>1, <2>2 DEF PeersAreHonest
  <2>4. s.header \in [id: Nat, hash: Nat] /\ t.header \in [id: Nat, hash: Nat]
    BY <2>2, SyncStateAssumption
  <2>5. QED BY <2>1, <2>3, <2>4
<1>6. IsOnTheWay(t.peer, t.header)' \/ HasArrived(t.header.hash)
  <2>1. CASE s.at = "downloading" BY <1>2, <1>3, <1>4, <1>5, <2>1 DEF IsOnTheWay
  <2>2. CASE s.at = "finished"
    BY <1>1, <1>3, <1>5, <2>2 DEF HandInv, FinishedHaveAnswered, IsOnTheWay
  <2>3. QED BY <1>3, <2>1, <2>2
<1>7. AnswersAreIntact' BY <1>1 DEF HandInv, AnswersAreIntact
<1>8. \A u \in current_queries' :
        \E r \in BagToSet(fetches') : Url(r) = u /\ r.at \in {"downloading", "finished"}
  BY <1>1, <1>2, QueriesMove
<1>9. t.at # "finished" BY <1>1
<1>10. QED BY <1>1, <1>2, <1>6, <1>7, <1>8, <1>9, TaskInHand

LEMMA EventSent ==
  ASSUME OthersOK, HandInv, NEW e \in NetworkEvent, network_events' = Append(network_events, e),
         e.type = "BlockFetched" => e.intact
  PROVE  /\ ToSet(network_events) \subseteq ToSet(network_events')
         /\ e \in ToSet(network_events')
         /\ AnswersAreIntact'
<1>1. network_events \in Seq(NetworkEvent) BY DEF OthersOK
<1>2. ToSet(network_events') = ToSet(network_events) \cup {e} BY <1>1, Appended
<1>3. QED BY <1>2 DEF HandInv, AnswersAreIntact

LEMMA FinishInHand ==
  ASSUME OthersOK, HandInv, PeersAreHonest, NEW t \in BagToSet(fetches), FinishDownload(t)
  PROVE  HandInv'
<1> DEFINE intact == t.header.hash \in Serves[t.peer] /\ t.header.id = Id[t.header.hash]
           e == Event("BlockFetched", t, intact)
           s == [t EXCEPT !.at = "finished"]
<1>1. /\ t.at = "downloading"
      /\ t.header.hash \in Serves[t.peer] \cup Corrupts[t.peer]
      /\ network_events' = Append(network_events, e)
      /\ fetches' = Moved(t, "finished")
      /\ UNCHANGED <<blocks_to_fetch, selected, current_queries, verifying, consensusVars>>
  BY DEF FinishDownload, At, syncVars
<1>2. t \in Task BY DEF OthersOK
<1>3. t.peer \in Peer /\ t.header \in Header BY <1>2 DEF Task
<1>4. intact BY <1>1, <1>3 DEF PeersAreHonest
<1>5. intact \in BOOLEAN OBVIOUS
<1> HIDE DEF intact
<1>6. /\ e \in NetworkEvent /\ e.type = "BlockFetched" /\ e.intact
      /\ e.peer = t.peer /\ e.header = t.header
  BY <1>3, <1>4, <1>5 DEF Event, NetworkEvent
<1> HIDE DEF e
<1>7. /\ ToSet(network_events) \subseteq ToSet(network_events') /\ e \in ToSet(network_events')
      /\ AnswersAreIntact'
  BY <1>1, <1>6, EventSent
<1>8. /\ BagToSet(fetches) \ {t} \subseteq BagToSet(fetches')
      /\ \A r \in BagToSet(fetches') : r \in BagToSet(fetches) \/ r = s
      /\ s \in BagToSet(fetches')
      /\ s.peer = t.peer /\ s.header = t.header /\ s.at = "finished"
  BY <1>1, MovedTask
<1> HIDE DEF s
<1>9. IsOnTheWay(t.peer, t.header)' BY <1>6, <1>7 DEF IsOnTheWay
<1>10. ASSUME NEW u \in current_queries'
       PROVE  \E r \in BagToSet(fetches') : Url(r) = u /\ r.at \in {"downloading", "finished"}
  <2>1. PICK r \in BagToSet(fetches) : Url(r) = u /\ r.at \in {"downloading", "finished"}
    BY <1>1 DEF HandInv, QueriesHaveTasks
  <2>2. CASE r = t BY <1>8, <2>1, <2>2 DEF Url
  <2>3. CASE r # t BY <1>8, <2>1, <2>3
  <2>4. QED BY <2>2, <2>3
<1>11. \E f \in ToSet(network_events') : f.peer = t.peer /\ f.header = t.header
                                         /\ f.type = "BlockFetched"
  BY <1>6, <1>7
<1>12. QED BY <1>1, <1>7, <1>8, <1>9, <1>10, <1>11, TaskInHand DEF s

LEMMA EndInHand ==
  ASSUME OthersOK, HandInv, NEW t \in BagToSet(fetches), EndTask(t) PROVE HandInv'
<1>1. /\ t.at = "finished" /\ fetches' = BagRemove(fetches, t)
      /\ current_queries' = current_queries \ {Url(t)}
      /\ UNCHANGED <<blocks_to_fetch, selected, network_events, verifying, consensusVars>>
  BY DEF EndTask, At, syncVars
<1>2. /\ BagToSet(fetches) \ {t} \subseteq BagToSet(fetches')
      /\ BagToSet(fetches') \subseteq BagToSet(fetches)
  BY <1>1, EndedTask
<1>3. AnswersAreIntact' BY <1>1 DEF HandInv, AnswersAreIntact
<1>4. \A u \in current_queries' :
        \E r \in BagToSet(fetches') : Url(r) = u /\ r.at \in {"downloading", "finished"}
  BY <1>1, <1>2, QueriesMove
<1>5. "downloading" # "finished" OBVIOUS
<1>6. QED BY <1>1, <1>2, <1>3, <1>4, <1>5, TaskInHand

LEMMA FailInHand ==
  ASSUME OthersOK, HandInv, NEW t \in BagToSet(fetches), FailDownload(t) PROVE HandInv'
<1> DEFINE e == Event("BlockFetchFailed", t, FALSE)
<1>1. /\ t.at = "downloading" /\ fetches' = BagRemove(fetches, t)
      /\ current_queries' = current_queries \ {Url(t)}
      /\ network_events' = Append(network_events, e)
      /\ UNCHANGED <<blocks_to_fetch, selected, verifying, consensusVars>>
  BY DEF FailDownload, At, syncVars
<1>2. t \in Task BY DEF OthersOK
<1>3. /\ e \in NetworkEvent /\ e.type = "BlockFetchFailed"
      /\ e.peer = t.peer /\ e.header = t.header
  BY <1>2 DEF Event, NetworkEvent, Task
<1> HIDE DEF e
<1>4. /\ ToSet(network_events) \subseteq ToSet(network_events') /\ e \in ToSet(network_events')
      /\ AnswersAreIntact'
  BY <1>1, <1>3, EventSent
<1>5. /\ BagToSet(fetches) \ {t} \subseteq BagToSet(fetches')
      /\ BagToSet(fetches') \subseteq BagToSet(fetches)
  BY <1>1, EndedTask
<1>6. IsOnTheWay(t.peer, t.header)' BY <1>3, <1>4 DEF IsOnTheWay
<1>7. \A u \in current_queries' :
        \E r \in BagToSet(fetches') : Url(r) = u /\ r.at \in {"downloading", "finished"}
  BY <1>1, <1>5, QueriesMove
<1>8. "downloading" # "finished" OBVIOUS
<1>9. QED BY <1>1, <1>4, <1>5, <1>6, <1>7, <1>8, TaskInHand

LEMMA TaskStepInHand ==
  ASSUME OthersOK, HandInv, PeersAreHonest, NEW t \in BagToSet(fetches), TaskStep(t)
  PROVE  HandInv'
BY StartInHand, SkipInHand, FinishInHand, EndInHand, FailInHand DEF TaskStep

LEMMA NodeStepInHand ==
  ASSUME SyncTypeOK, OthersOK, HandInv, PeersAreHonest, NodeStep PROVE HandInv'
<1>1. ASSUME NEW i \in DOMAIN verifying, Verify(i) PROVE HandInv'
  <2>1. UNCHANGED <<blocks_to_fetch, selected, network_events, fetches, current_queries>>
    BY <1>1 DEF Verify, syncVars, netVars
  <2>2. ArrivedStays BY <1>1, VerifiedArrives DEF ArrivedStays
  <2>3. QED BY <2>1, <2>2, OtherStepsInHand
<1>2. CASE HandleFetchedBlock
  <2>1. UNCHANGED <<blocks_to_fetch, selected, network_events, fetches, current_queries>>
    BY <1>2 DEF HandleFetchedBlock, syncVars, netVars
  <2>2. ArrivedStays BY <1>2, HandleFetchedArrives DEF ArrivedStays, PeersAreHonest
  <2>3. QED BY <2>1, <2>2, OtherStepsInHand
<1>3. CASE HandleBlockFetchRequest
  <2>1. UNCHANGED <<blocks_to_fetch, selected, network_events, fetches, current_queries>>
    BY <1>3 DEF HandleBlockFetchRequest, AddEntry, netVars
  <2>2. ArrivedStays BY <1>3, ArrivedFrame DEF HandleBlockFetchRequest, ArrivedStays
  <2>3. QED BY <2>1, <2>2, OtherStepsInHand
<1>4. QED
  BY <1>1, <1>2, <1>3, RequestInHand, FetchedInHand, FetchFailedInHand, TaskStepInHand, UpdatedInHand,
     TickInHand DEF NodeStep

LEMMA StepInHand ==
  ASSUME SyncTypeOK, OthersOK, HandInv, PeersAreHonest, [Next]_vars PROVE HandInv'
<1>1. ASSUME NEW p \in Peer, NEW h \in Header, Announce(p, h) PROVE HandInv'
  <2>1. UNCHANGED <<blocks_to_fetch, selected, network_events, fetches, current_queries>>
    BY <1>1 DEF Announce, AddEntry, netVars
  <2>2. ArrivedStays BY <1>1, ArrivedFrame DEF Announce, ArrivedStays
  <2>3. QED BY <2>1, <2>2, OtherStepsInHand
<1>2. ASSUME NEW p \in Peer, Depart(p) PROVE HandInv'
  <2>1. UNCHANGED <<blocks_to_fetch, selected, network_events, fetches, current_queries>>
    BY <1>2 DEF Depart, syncVars, netVars
  <2>2. ArrivedStays BY <1>2, ArrivedFrame DEF Depart, ArrivedStays
  <2>3. QED BY <2>1, <2>2, OtherStepsInHand
<1>3. CASE UNCHANGED vars
  <2>1. UNCHANGED <<blocks_to_fetch, selected, network_events, fetches, current_queries>>
    BY <1>3 DEF vars, syncVars, netVars
  <2>2. ArrivedStays BY <1>3, ArrivedFrame DEF vars, ArrivedStays
  <2>3. QED BY <2>1, <2>2, OtherStepsInHand
<1>4. QED BY <1>1, <1>2, <1>3, NodeStepInHand DEF Next

LEMMA StartsInHand == Init => HandInv
<1> SUFFICES ASSUME Init PROVE HandInv
  OBVIOUS
<1>1. BagToSet(fetches) = {} BY DEF Init, EmptyBag, SetToBag, BagToSet
<1>2. ToSet(network_events) = {} BY EmptyToSet DEF Init
<1>3. FetchingIsInHand BY DEF Init, SyncInit, Unlisted, FetchingIsInHand, IsFetching
<1>4. QED
  BY <1>1, <1>2, <1>3
     DEF Init, HandInv, AnswersAreIntact, QueriesHaveTasks, FinishedHaveAnswered

-----------------------------------------------------------------------------
(* The theorems.                                                           *)

\* The lists of the peers, the tasks of the network controller, the events and requests in
\* the channels and the blocks of the mempool hold only what their types say: above all, what
\* the consensus thread asks for is a header that the peers could have announced.
THEOREM FetchingTyped == Spec => []TypeOK
<1>1. Init => FetchingOK BY FetchingStart, SyncStart DEF FetchingOK
<1>2. FetchingOK => TypeOK BY TypesTogether DEF FetchingOK, SyncInv
<1>3. QED BY <1>1, <1>2, FetchingNext, PTL DEF Spec

\* The threads together do to the lists nothing but calls of the methods that the module
\* BlockchainSyncState specifies, one at a time: its specification is implemented here.
THEOREM FetchingCallsSyncState == Spec => SyncSpec
<1>1. Init => FetchingOK /\ SyncInit BY FetchingStart, SyncStart DEF FetchingOK
<1>2. QED BY <1>1, FetchingNext, PTL DEF Spec, SyncSpec

\* No more blocks are marked Fetching from a peer than batch_size, in the whole way of a block
\* from a peer into the chain: the subtraction of the quota never underflows.
THEOREM QuotaIsKeptAlways == Spec => []QuotaIsKept
BY FetchingCallsSyncState, SyncStateCorrect, PTL

\* An entry is marked Fetching only while an answer to its fetch is to be handled, or its block
\* has arrived: where every peer answers with what it is asked for, no entry uses up the quota
\* of its peer for a fetch that nobody has in hand, though a task that finds its url being
\* fetched ends without a word.
THEOREM FetchingIsInHandAmongHonestPeers ==
  ASSUME PeersAreHonest
  PROVE  Spec => []FetchingIsInHand
<1> DEFINE Inv == FetchingOK /\ HandInv
<1>1. Init => Inv BY FetchingStart, SyncStart, StartsInHand DEF FetchingOK
<1>2. Inv /\ [Next]_vars => Inv'
  BY FetchingNext, StepInHand DEF FetchingOK, SyncInv
<1>3. Inv => FetchingIsInHand BY DEF HandInv
<1> HIDE DEF Inv
<1>4. QED BY <1>1, <1>2, <1>3, PTL DEF Spec

=============================================================================
