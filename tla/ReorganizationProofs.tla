------------------------ MODULE ReorganizationProofs ------------------------
(***************************************************************************)
(* The longest chain of Blockchain: whatever the tree of blocks, the       *)
(* window, and the order in which blocks come, reorganising the chain      *)
(* block by block, and deleting the old ones on the way, leaves the flags, *)
(* the ring and the head in agreement, on one chain of blocks, and every   *)
(* block that is looked up on the way is there.                            *)
(*                                                                         *)
(* Core is what holds at every step of a reorganisation: the blocks that   *)
(* are on the chain at the moment are a path from the tip down, the ring   *)
(* names them, and no block is known below the ring or at a height where   *)
(* the chain has none.  A lemma for each operation of the ring (wound on   *)
(* the tip, wound below the head, unwound, deleted, added) says what it    *)
(* makes of Core.  ReorgInv adds what add_block is about to do: the two    *)
(* branches it has collected, and how far along them it is.                *)
(*                                                                         *)
(* That a deletion takes nothing from the chain but its lower end rests on *)
(* where a chain may start, and that the tip comes back after a failure on *)
(* how little was done before it: see PeersAgreeOnStart and                *)
(* FailsBeforeItMoves.                                                     *)
(*                                                                         *)
(* On this rests that the chain is the right one.  Work is a sum over a    *)
(* set, and Ancestors a recursion: that they have the values they should   *)
(* is shown first.  Then the two branches add_block walks down to where    *)
(* they part give the answer of LongestChain!Beats, which compares whole   *)
(* branches and is transitive; ChoiceInv follows the choice to the end of  *)
(* the call, and StandsInv the blocks that go on the way.                  *)
(*                                                                         *)
(* The utxoset is compared with the branch of the tip the ring has at the  *)
(* moment, whose ancestors do not change: ReplayInv says that the two      *)
(* agree on the slips of the window at every step, and that a block that   *)
(* was found valid once spends what its branch has to spend, then and when *)
(* it is wound again.                                                      *)
(***************************************************************************)
EXTENDS BlockchainProofs, WellFoundedInduction, FiniteSetTheorems

-----------------------------------------------------------------------------
(* The longest chain as a path through the known blocks.  B stands for the *)
(* blocks that are kept, C for those of the longest chain, O for those an  *)
(* unfinished reorganisation has unwound, t for the tip, r for the ring, x *)
(* for the height last_block_id.                                           *)

\* Block::create gives a block the height above its parent's, and the first block
\* height 1; validate() checks neither.
BlocksFollowParents ==
  \A h \in Hash : /\ Parent[h] \in Hash => Id[h] = Id[Parent[h]] + 1
                  /\ Parent[h] = NoHash => Id[h] = 1

EntryFor(r, h) == Entry(r, SlotOf(Id[h]))

\* From the tip down without a gap, and as far as the parents are known.
IsPath(B, C, t) ==
  /\ C \subseteq B
  /\ IF t = NoHash THEN C = {} ELSE t \in C
  /\ \A g, h \in C : Id[g] = Id[h] => g = h
  /\ \A h \in C : Id[h] <= Id[t]
  /\ \A h \in C : h # t => \E g \in C : Parent[g] = h
  /\ \A h \in C : Parent[h] \in B => Parent[h] \in C

\* A set of numbers that is not empty has a least member.
LEMMA LeastNumber ==
  ASSUME NEW S \in SUBSET Nat, S # {}
  PROVE  \E n \in S : \A m \in S : n <= m
<1>1. PICK n \in S : \A m \in S : ~(<<m, n>> \in OpToRel(<, Nat))
  BY NatLessThanWellFounded, WFMin
<1>2. \A m \in S : ~(m < n)
  BY <1>1 DEF OpToRel
<1>3. QED
  BY <1>2

\* Between a block of the chain and the tip every height has one.
LEMMA PathIsUnbroken ==
  ASSUME BlocksFollowParents, NEW B \in SUBSET Hash, NEW C, NEW t \in Hash \cup {NoHash},
         IsPath(B, C, t), NEW h \in C, NEW n \in Nat, Id[h] <= n, n <= Id[t]
  PROVE  \E w \in C : Id[w] = n
<1> DEFINE Gaps == {k \in Nat : \E w \in C : Id[w] + k = n}
<1>1. C \subseteq Hash /\ \A w \in C : Id[w] \in Nat
  BY RingAssumption DEF IsPath
<1>2. Gaps # {}
  <2>1. n - Id[h] \in Nat /\ Id[h] + (n - Id[h]) = n
    BY <1>1
  <2>2. QED
    BY <2>1
<1>3. PICK k \in Gaps : \A m \in Gaps : k <= m
  BY <1>2, LeastNumber
<1>4. PICK w \in C : Id[w] + k = n
  OBVIOUS
<1>5. CASE k = 0
  BY <1>1, <1>4, <1>5
<1>6. CASE k # 0
  <2>1. w # t
    BY <1>1, <1>4, <1>6, RingAssumption
  <2>2. PICK g \in C : Parent[g] = w
    BY <2>1 DEF IsPath
  <2>3. Id[g] = Id[w] + 1
    BY <1>1, <2>2 DEF BlocksFollowParents
  <2>4. k - 1 \in Nat /\ Id[g] + (k - 1) = n
    BY <1>1, <1>4, <1>6, <2>3
  <2>5. k - 1 \in Gaps
    BY <2>4
  <2>6. QED
    BY <1>3, <2>5
<1>7. QED
  BY <1>5, <1>6

\* A block of the chain that is not its lowest has its parent there.
LEMMA ParentOnPath ==
  ASSUME BlocksFollowParents, NEW B \in SUBSET Hash, NEW C, NEW t \in Hash \cup {NoHash},
         IsPath(B, C, t), NEW w \in C, NEW g \in C, Id[w] < Id[g]
  PROVE  Parent[g] \in C
<1>1. C \subseteq Hash /\ \A v \in C : Id[v] \in Nat /\ Id[v] <= Id[t]
  BY RingAssumption DEF IsPath
<1>2. t \in C
  BY DEF IsPath
<1>3. Id[g] - 1 \in Nat /\ Id[w] <= Id[g] - 1 /\ Id[g] - 1 <= Id[t]
  BY <1>1, <1>2
<1>4. PICK v \in C : Id[v] = Id[g] - 1
  BY <1>3, PathIsUnbroken
<1>5. v # t
  BY <1>1, <1>2, <1>4
<1>6. PICK c \in C : Parent[c] = v
  BY <1>5 DEF IsPath
<1>7. Id[c] = Id[v] + 1
  BY <1>1, <1>6 DEF BlocksFollowParents
<1>8. c = g
  BY <1>1, <1>4, <1>7 DEF IsPath
<1>9. QED
  BY <1>6, <1>8

\* A child of the tip, if its height is higher than all others, makes a longer path.
LEMMA PathGrows ==
  ASSUME BlocksFollowParents, NEW B \in SUBSET Hash, NEW C, NEW t \in Hash \cup {NoHash},
         IsPath(B, C, t), NEW h \in B,
         t # NoHash => Parent[h] = t,
         t = NoHash => Parent[h] \notin B
  PROVE  IsPath(B, C \cup {h}, h) /\ h \notin C /\ \A c \in C : Id[c] < Id[h]
<1>1. C \subseteq Hash /\ \A v \in C : Id[v] \in Nat
  BY RingAssumption DEF IsPath
<1>2. Id[h] \in Nat /\ h # NoHash
  BY RingAssumption
<1>3. t # NoHash => Id[h] = Id[t] + 1 /\ t \in C
  BY DEF BlocksFollowParents, IsPath
<1>4. \A c \in C : Id[c] < Id[h]
  BY <1>1, <1>2, <1>3 DEF IsPath
<1>5. \A c \in C : Parent[c] # h
  <2>1. SUFFICES ASSUME NEW c \in C, Parent[c] = h
                 PROVE  FALSE
    OBVIOUS
  <2>2. Id[c] = Id[h] + 1
    BY <1>1, <2>1 DEF BlocksFollowParents
  <2>3. QED
    BY <1>1, <1>2, <1>4, <2>2
<1>6. \A g, c \in C \cup {h} : Id[g] = Id[c] => g = c
  BY <1>1, <1>2, <1>4 DEF IsPath
<1>7. \A c \in C \cup {h} : Id[c] <= Id[h]
  BY <1>1, <1>2, <1>4
<1>8. \A c \in C \cup {h} : c # h => \E g \in C \cup {h} : Parent[g] = c
  BY <1>3 DEF IsPath
<1>9. \A c \in C \cup {h} : Parent[c] \in B => Parent[c] \in C \cup {h}
  BY <1>3 DEF IsPath
<1>10. QED
  BY <1>1, <1>2, <1>4, <1>6, <1>7, <1>8, <1>9 DEF IsPath

\* The path without its tip ends at the tip's parent, if there is one on it.
LEMMA PathShrinks ==
  ASSUME BlocksFollowParents, NEW B \in SUBSET Hash, NEW C, NEW t \in Hash,
         IsPath(B, C, t)
  PROVE  IsPath(B, C \ {t}, IF Parent[t] \in C THEN Parent[t] ELSE NoHash)
<1> DEFINE p == Parent[t]
           u == IF p \in C THEN p ELSE NoHash
           D == C \ {t}
<1>1. C \subseteq Hash /\ \A v \in C : Id[v] \in Nat /\ v # NoHash
  BY RingAssumption DEF IsPath
<1>2. t \in C /\ \A v \in C : Id[v] <= Id[t]
  BY RingAssumption DEF IsPath
<1>3. CASE p \in C
  <2>1. Id[t] = Id[p] + 1
    BY <1>1, <1>2, <1>3 DEF BlocksFollowParents
  <2>2. p \in D /\ u = p
    BY <1>1, <1>2, <1>3, <2>1
  <2>3. \A c \in D : Id[c] <= Id[p]
    <3>1. \A c \in D : Id[c] # Id[t]
      BY <1>2 DEF IsPath
    <3>2. QED
      BY <1>1, <1>2, <1>3, <2>1, <3>1
  <2>4. \A c \in D : c # p => \E g \in D : Parent[g] = c
    BY <1>2 DEF IsPath
  <2>5. \A c \in D : Parent[c] \in B => Parent[c] \in D
    <3>1. ASSUME NEW c \in D, Parent[c] = t
          PROVE  FALSE
      <4>1. Id[c] = Id[t] + 1
        BY <1>1, <1>2, <3>1 DEF BlocksFollowParents
      <4>2. QED
        BY <1>1, <1>2, <4>1
    <3>2. QED
      BY <3>1 DEF IsPath
  <2>6. D \subseteq B /\ u # NoHash /\ \A g, h \in D : Id[g] = Id[h] => g = h
    BY <1>1, <2>2 DEF IsPath
  <2> HIDE DEF D, u
  <2>7. IsPath(B, D, u)
    BY <2>2, <2>3, <2>4, <2>5, <2>6 DEF IsPath
  <2>8. QED
    BY <2>7 DEF D, u
<1>4. CASE p \notin C
  <2>1. D = {}
    <3>1. SUFFICES ASSUME NEW c \in D
                   PROVE  FALSE
      OBVIOUS
    <3>2. Id[c] # Id[t]
      BY <1>2 DEF IsPath
    <3>3. Id[c] < Id[t]
      BY <1>1, <1>2, <3>2
    <3>4. QED
      BY <1>2, <1>4, <3>3, ParentOnPath
  <2>2. u = NoHash
    BY <1>4
  <2>3. IsPath(B, {}, NoHash)
    BY DEF IsPath
  <2>4. QED
    BY <2>1, <2>2, <2>3
<1>5. QED
  BY <1>3, <1>4

-----------------------------------------------------------------------------
(* The core of the invariant: the ring, the flags and the head tell one    *)
(* chain.                                                                  *)

\* The ring names the blocks of the chain, and up to the head no other.
IsNoted(B, C, r, x) ==
  /\ \A h \in C : EntryFor(r, h) = h
  /\ \A h \in B : (Id[h] <= x /\ EntryFor(r, h) = h) => h \in C

\* No block is further below the head than the ring is long, and there is no
\* block at a height below the head at which the chain has none.
IsCovered(B, C, x) ==
  \A b \in B : /\ Id[b] > x - RingSize
               /\ Id[b] <= x => \E c \in C : Id[c] = Id[b]

\* A block off the chain has its parent, or it is a first block, or a deletion has
\* just taken its parent away.
IsGrounded(B, C, x) ==
  \A b \in B \ C : \/ Parent[b] \in B \/ x = 0 \/ Id[b] = 1
                   \/ (Id[b] > 2 /\ Id[b] = x - RingSize + 2)

Core(B, C, O, r, H, g) ==
  /\ IsPath(B, C, LatestHash(r))
  /\ IsNoted(B, C, r, H.id)
  /\ IsCovered(B, C \cup O, H.id)
  /\ IsGrounded(B, C \cup O, H.id)
  /\ O \subseteq B /\ \A o \in O : Id[o] <= H.id
  /\ g = 0 \/ \E c \in C \cup O : Id[c] = g
  /\ LatestId(r) <= H.id
  /\ H.hash \in C => H.id = LatestId(r) /\ H.hash = LatestHash(r)

ChainHead == [id: Nat, hash: Hash \cup {NoHash}]

\* Blocks have slots, heights and entries.
LEMMA BlockType ==
  ASSUME NEW h \in Hash
  PROVE  Id[h] \in Nat /\ Id[h] > 0 /\ h # NoHash /\ SlotOf(Id[h]) \in Slots
BY RingAssumption, SlotOfType

\* On the chain, the height of the tip is that of the ring.
LEMMA TipHeight ==
  ASSUME NEW r, NEW B, NEW C, IsPath(B, C, LatestHash(r)), C # {}
  PROVE  LatestHash(r) # NoHash /\ LatestHash(r) \in C /\ LatestId(r) = Id[LatestHash(r)]
BY DEF IsPath, LatestId

\* What the ring says depends on its entries and its tip.
LEMMA CoreOfEntries ==
  ASSUME NEW B \in SUBSET Hash, NEW C, NEW O, NEW r, NEW q, NEW H, NEW g,
         Core(B, C, O, r, H, g),
         \A s \in Slots : Entry(q, s) = Entry(r, s),
         LatestHash(q) = LatestHash(r), LatestId(q) = LatestId(r)
  PROVE  Core(B, C, O, q, H, g)
<1>1. \A h \in B : EntryFor(q, h) = EntryFor(r, h)
  BY BlockType DEF EntryFor
<1>2. C \subseteq B
  BY DEF Core, IsPath
<1>3. IsNoted(B, C, q, H.id)
  BY <1>1, <1>2 DEF Core, IsNoted
<1>4. QED
  BY <1>3 DEF Core

\* The height of a block that is taken in is covered, and no block is its child.
LEMMA CoreHasNoChild ==
  ASSUME BlocksFollowParents,
         NEW B \in SUBSET Hash, NEW C, NEW r \in Ring, NEW H \in ChainHead, NEW g, NEW h \in Hash, h \notin B,
         Core(B, C, {}, r, H, g),
         H.id = 0 => B = {},
         Id[h] <= H.id => \E w \in C : Id[w] = Id[h],
         Parent[h] \in B \/ Id[h] = 1 \/ H.id = 0,
         NEW b \in B
  PROVE  Parent[b] # h
<1> SUFFICES ASSUME Parent[b] = h PROVE FALSE
  OBVIOUS
<1>1. Id[b] = Id[h] + 1 /\ b \in Hash
  BY DEF BlocksFollowParents
<1>2. IsPath(B, C, LatestHash(r)) /\ IsCovered(B, C, H.id) /\ IsGrounded(B, C, H.id) /\ LatestId(r) <= H.id
  BY DEF Core
<1>3. C \subseteq B /\ H.id # 0 /\ H.id \in Nat /\ Id[h] \in Nat /\ Id[h] > 0
  BY <1>2, BlockType DEF IsPath, ChainHead
<1>4. LatestHash(r) \in Hash \cup {NoHash} /\ LatestId(r) \in Nat
  BY LatestType
<1>5. CASE b \in C
  <2>1. Id[b] <= LatestId(r)
    BY <1>2, <1>5, TipHeight DEF IsPath
  <2>2. PICK w \in C : Id[w] = Id[h]
    <3>1. Id[h] <= H.id
      BY <1>1, <1>2, <1>3, <1>4, <2>1
    <3>2. QED
      BY <3>1
  <2>3. Id[w] < Id[b]
    BY <1>1, <1>3, <2>2
  <2>4. Parent[b] \in C
    BY <1>2, <1>4, <1>5, <2>3, ParentOnPath
  <2>5. QED
    BY <1>3, <2>4
<1>6. CASE b \notin C
  <2>1. RingSize \in Nat
    BY RingSizeType
  <2>2. Id[h] > 1 /\ Id[h] = H.id - RingSize + 1
    BY <1>1, <1>2, <1>3, <1>6, <2>1 DEF IsGrounded
  <2>3. Parent[h] \in B /\ Parent[h] \in Hash
    BY <1>3, <2>2
  <2>4. Id[h] = Id[Parent[h]] + 1 /\ Id[Parent[h]] \in Nat
    BY <2>3, BlockType DEF BlocksFollowParents
  <2>5. Id[Parent[h]] > H.id - RingSize
    BY <1>2, <2>3 DEF IsCovered
  <2>6. QED
    BY <1>3, <2>1, <2>2, <2>4, <2>5
<1>7. QED
  BY <1>5, <1>6

\* add_block takes a block in.
LEMMA CoreTakesIn ==
  ASSUME BlocksFollowParents,
         NEW B \in SUBSET Hash, NEW C, NEW r \in Ring, NEW H \in ChainHead, NEW g, NEW h \in Hash, h \notin B,
         Core(B, C, {}, r, H, g),
         H.id = 0 => B = {},
         Id[h] <= H.id => \E w \in C : Id[w] = Id[h],
         Parent[h] \in B \/ Id[h] = 1 \/ H.id = 0,
         Id[h] > H.id - RingSize,
         LatestHash(r) = NoHash => r.lc_pos = NoSlot
  PROVE  /\ Core(B \cup {h}, C, {}, AddToRing(r, h), H, g)
         /\ LatestHash(AddToRing(r, h)) = LatestHash(r)
         /\ LatestId(AddToRing(r, h)) = LatestId(r)
<1> DEFINE q == AddToRing(r, h)
           D == B \cup {h}
<1>1. /\ IsPath(B, C, LatestHash(r)) /\ IsNoted(B, C, r, H.id)
      /\ IsCovered(B, C, H.id) /\ IsGrounded(B, C, H.id)
      /\ LatestId(r) <= H.id
      /\ g = 0 \/ \E c \in C : Id[c] = g
      /\ H.hash \in C => H.id = LatestId(r) /\ H.hash = LatestHash(r)
  BY DEF Core
<1>2. C \subseteq B /\ B \subseteq Hash /\ D \subseteq Hash
  BY <1>1 DEF IsPath
<1>3. /\ q.lc_pos = r.lc_pos
      /\ \A s \in Slots : /\ Entry(r, s) # NoHash => Entry(q, s) = Entry(r, s)
                          /\ Entry(q, s) \in {Entry(r, s), h}
  BY EntriesAfterAdd
<1>4. LatestHash(q) = LatestHash(r) /\ LatestId(q) = LatestId(r)
  <2>1. r.lc_pos # NoSlot => r.lc_pos \in Slots /\ Entry(r, r.lc_pos) # NoHash
    BY DEF Ring, LatestHash, Entry
  <2> HIDE DEF q
  <2>2. QED
    BY <1>3, <2>1, LatestOfEntries
<1> HIDE DEF q
<1>5. IsPath(D, C, LatestHash(q))
  <2>1. \A b \in B : Parent[b] # h
    BY CoreHasNoChild
  <2>2. \A b \in C : Parent[b] \in D => Parent[b] \in C
    BY <1>1, <1>2, <2>1 DEF IsPath
  <2>3. QED
    BY <1>1, <1>2, <1>4, <2>2 DEF IsPath
<1>6. IsNoted(D, C, q, H.id)
  <2>1. \A c \in C : EntryFor(q, c) = c
    BY <1>1, <1>2, <1>3, BlockType DEF IsNoted, EntryFor
  <2>2. ASSUME NEW b \in D, Id[b] <= H.id, EntryFor(q, b) = b
        PROVE  b \in C
    <3>1. CASE b = h
      <4>1. PICK w \in C : Id[w] = Id[h]
        BY <2>2, <3>1
      <4>2. EntryFor(q, h) = w
        BY <2>1, <4>1 DEF EntryFor
      <4>3. QED
        BY <2>2, <3>1, <4>2
    <3>2. CASE b # h
      <4>1. EntryFor(r, b) = b /\ b \in B
        BY <1>2, <1>3, <2>2, <3>2, BlockType DEF EntryFor
      <4>2. QED
        BY <1>1, <2>2, <4>1 DEF IsNoted
    <3>3. QED
      BY <3>1, <3>2
  <2>3. QED
    BY <2>1, <2>2 DEF IsNoted
<1>7. IsCovered(D, C, H.id)
  BY <1>1 DEF IsCovered
<1>8. IsGrounded(D, C, H.id)
  BY <1>1 DEF IsGrounded
<1>9. Core(D, C, {}, q, H, g)
  <2>1. C \cup {} = C
    OBVIOUS
  <2>2. QED
    BY <1>1, <1>4, <1>5, <1>6, <1>7, <1>8, <2>1 DEF Core
<1>10. QED
  BY <1>4, <1>9 DEF q

\* unwind_chain takes the tip off the chain.
LEMMA CoreUnwinds ==
  ASSUME BlocksFollowParents,
         NEW B \in SUBSET Hash, NEW C, NEW O, NEW P, NEW r \in Ring, NEW H \in ChainHead, NEW g,
         NEW h \in Hash, HoldsExactly(r, B),
         Core(B, C, O, r, H, g), LatestHash(r) = h,
         O \subseteq P, h \in P, P \subseteq B, \A o \in P : Id[o] <= H.id,
         H.hash \notin C \ {h}
  PROVE  /\ Core(B, C \ {h}, P, TakeOffLongestChain(r, h), H, g)
         /\ LatestHash(TakeOffLongestChain(r, h)) = IF Parent[h] \in C THEN Parent[h] ELSE NoHash
<1> DEFINE q == TakeOffLongestChain(r, h)
           D == C \ {h}
           u == IF Parent[h] \in C THEN Parent[h] ELSE NoHash
           e == Entry(r, SlotOf(Id[h] - 1))
<1>1. /\ IsPath(B, C, h) /\ IsNoted(B, C, r, H.id)
      /\ IsCovered(B, C \cup O, H.id) /\ IsGrounded(B, C \cup O, H.id)
      /\ LatestId(r) <= H.id
      /\ g = 0 \/ \E c \in C \cup O : Id[c] = g
  BY DEF Core
<1>2. C \subseteq B /\ B \subseteq Hash /\ h \in C /\ h # NoHash /\ Id[h] \in Nat /\ Id[h] > 0
  BY <1>1, BlockType DEF IsPath
<1>3. /\ \A s \in Slots : Entry(q, s) = IF s = SlotOf(Id[h]) THEN NoHash ELSE Entry(r, s)
      /\ LatestHash(q) = IF e # NoHash /\ Id[e] = Id[h] - 1 THEN e ELSE NoHash
  BY EntriesAfterTakeOff
<1>4. q \in Ring
  BY ReorganizationType
<1>5. LatestHash(q) = u
  <2>1. ASSUME Parent[h] \in C
        PROVE  e = Parent[h] /\ e # NoHash /\ Id[e] = Id[h] - 1
    <3>1. Id[h] = Id[Parent[h]] + 1 /\ Parent[h] \in Hash /\ Id[Parent[h]] \in Nat
      BY <1>2, <2>1, BlockType DEF BlocksFollowParents
    <3>2. Id[Parent[h]] = Id[h] - 1
      BY <1>2, <3>1
    <3>3. EntryFor(r, Parent[h]) = Parent[h]
      BY <1>1, <2>1 DEF IsNoted
    <3>4. QED
      BY <3>1, <3>2, <3>3, BlockType DEF EntryFor
  <2>2. ASSUME e # NoHash, Id[e] = Id[h] - 1
        PROVE  Parent[h] \in C
    <3>1. SlotOf(Id[h] - 1) \in Slots
      BY <1>2, SlotOfType
    <3>2. e \in B
      BY <2>2, <3>1, EntryIsHeld
    <3>3. EntryFor(r, e) = e
      BY <2>2 DEF EntryFor
    <3>4. Id[e] <= H.id /\ Id[e] < Id[h]
      <4>1. LatestId(r) = Id[h]
        BY <1>2 DEF LatestId
      <4>2. QED
        BY <1>1, <1>2, <2>2, <4>1 DEF ChainHead
    <3>5. e \in C
      BY <1>1, <3>2, <3>3, <3>4 DEF IsNoted
    <3>6. QED
      BY <1>1, <1>2, <3>4, <3>5, ParentOnPath
  <2>3. QED
    BY <1>3, <2>1, <2>2
<1>6. IsPath(B, D, LatestHash(q))
  BY <1>1, <1>5, PathShrinks
<1> HIDE DEF q, u, e
<1>7. IsNoted(B, D, q, H.id)
  <2>1. ASSUME NEW c \in D
        PROVE  EntryFor(q, c) = c
    <3>1. EntryFor(r, c) = c /\ EntryFor(r, h) = h
      BY <1>1, <1>2 DEF IsNoted
    <3>2. SlotOf(Id[c]) # SlotOf(Id[h])
      BY <3>1 DEF EntryFor
    <3>3. QED
      BY <1>2, <1>3, <3>1, <3>2, BlockType DEF EntryFor
  <2>2. ASSUME NEW b \in B, Id[b] <= H.id, EntryFor(q, b) = b
        PROVE  b \in D
    <3>1. b # NoHash /\ SlotOf(Id[b]) \in Slots
      BY <1>2, BlockType
    <3>2. SlotOf(Id[b]) # SlotOf(Id[h]) /\ EntryFor(r, b) = b
      BY <1>3, <2>2, <3>1 DEF EntryFor
    <3>3. QED
      BY <1>1, <2>2, <3>2 DEF IsNoted
  <2>3. QED
    BY <2>1, <2>2 DEF IsNoted
<1>8. C \cup O \subseteq D \cup P
  OBVIOUS
<1>9. IsCovered(B, D \cup P, H.id) /\ IsGrounded(B, D \cup P, H.id)
  BY <1>1, <1>8 DEF IsCovered, IsGrounded
<1>10. LatestId(q) <= H.id
  <2>1. LatestHash(q) # NoHash => LatestHash(q) \in P \cup C /\ Id[LatestHash(q)] <= Id[h]
    BY <1>1, <1>5 DEF u, IsPath
  <2>2. Id[h] <= H.id /\ H.id \in Nat
    BY DEF ChainHead
  <2>3. LatestId(q) \in Nat /\ LatestHash(q) \in Hash \cup {NoHash}
    BY <1>4, LatestType
  <2>4. QED
    BY <1>2, <2>1, <2>2, <2>3, BlockType DEF LatestId
<1>11. g = 0 \/ \E c \in D \cup P : Id[c] = g
  BY <1>1, <1>8
<1>12. Core(B, D, P, q, H, g)
  BY <1>6, <1>7, <1>9, <1>10, <1>11 DEF Core
<1>13. QED
  BY <1>5, <1>12 DEF q, u

\* The ring after wind_chain, up to the head: the entries of the chain are where they
\* were, but for one that shares the slot of the block.
LEMMA NotedAfterPut ==
  ASSUME NEW B \in SUBSET Hash, NEW C, NEW r \in Ring, NEW x \in Nat, NEW h \in B,
         C \subseteq B, HoldsExactly(r, B), IsNoted(B, C, r, x)
  PROVE  /\ EntryFor(PutOnLongestChain(r, h), h) = h
         /\ \A c \in C : SlotOf(Id[c]) # SlotOf(Id[h]) => EntryFor(PutOnLongestChain(r, h), c) = c
         /\ \A b \in B : EntryFor(PutOnLongestChain(r, h), b) = b =>
              b = h \/ ((Id[b] <= x => b \in C) /\ SlotOf(Id[b]) # SlotOf(Id[h]))
<1> DEFINE q == PutOnLongestChain(r, h)
<1>1. \A s \in Slots : Entry(q, s) = IF s = SlotOf(Id[h]) THEN h ELSE Entry(r, s)
  BY EntriesAfterPut
<1> HIDE DEF q
<1>2. EntryFor(q, h) = h
  BY <1>1, BlockType DEF EntryFor
<1>3. ASSUME NEW c \in C, SlotOf(Id[c]) # SlotOf(Id[h])
      PROVE  EntryFor(q, c) = c
  BY <1>1, <1>3, BlockType DEF EntryFor, IsNoted
<1>4. ASSUME NEW b \in B, EntryFor(q, b) = b
      PROVE  b = h \/ ((Id[b] <= x => b \in C) /\ SlotOf(Id[b]) # SlotOf(Id[h]))
  <2>1. CASE SlotOf(Id[b]) = SlotOf(Id[h])
    BY <1>1, <1>4, <2>1, BlockType DEF EntryFor
  <2>2. CASE SlotOf(Id[b]) # SlotOf(Id[h])
    <3>1. EntryFor(r, b) = b
      BY <1>1, <1>4, <2>2, BlockType DEF EntryFor
    <3>2. QED
      BY <2>2, <3>1 DEF IsNoted
  <2>3. QED
    BY <2>1, <2>2
<1>5. QED
  BY <1>2, <1>3, <1>4 DEF q

\* wind_chain takes a block back that is not above the head.
LEMMA CoreWindsBelow ==
  ASSUME BlocksFollowParents,
         NEW B \in SUBSET Hash, NEW C, NEW O, NEW r \in Ring, NEW H \in ChainHead, NEW g, NEW h \in B,
         HoldsExactly(r, B), Core(B, C, O, r, H, g),
         LatestHash(r) # NoHash => Parent[h] = LatestHash(r),
         LatestHash(r) = NoHash => Parent[h] \notin B,
         Id[h] <= H.id, H.hash \notin C \cup {h}
  PROVE  Core(B, C \cup {h}, O, PutOnLongestChain(r, h), H, g)
<1> DEFINE q == PutOnLongestChain(r, h)
           D == C \cup {h}
<1>1. /\ IsPath(B, C, LatestHash(r)) /\ IsNoted(B, C, r, H.id)
      /\ IsCovered(B, C \cup O, H.id) /\ IsGrounded(B, C \cup O, H.id)
      /\ g = 0 \/ \E c \in C \cup O : Id[c] = g
      /\ O \subseteq B /\ \A o \in O : Id[o] <= H.id
  BY DEF Core
<1>2. C \subseteq B /\ h \in Hash /\ Id[h] \in Nat /\ H.id \in Nat /\ \A c \in C : Id[c] \in Nat
  BY <1>1, BlockType DEF IsPath, ChainHead
<1>3. LatestHash(q) = h /\ LatestId(q) = Id[h]
  BY EntriesAfterPut
<1>4. LatestHash(r) \in Hash \cup {NoHash}
  BY LatestType
<1>5. IsPath(B, D, h) /\ h \notin C /\ \A c \in C : Id[c] < Id[h]
  BY <1>1, <1>4, PathGrows
<1>6. ASSUME NEW c \in C
      PROVE  SlotOf(Id[c]) # SlotOf(Id[h])
  <2>1. Id[c] > H.id - RingSize
    BY <1>1, <1>2 DEF IsCovered
  <2>2. Id[h] < Id[c] + RingSize /\ Id[c] <= Id[h] /\ Id[c] # Id[h]
    BY <1>2, <1>5, <2>1, RingSizeType
  <2>3. QED
    BY <1>2, <2>2, SlotsAreApart
<1>7. IsNoted(B, D, q, H.id)
  <2>1. /\ EntryFor(q, h) = h
        /\ \A c \in C : EntryFor(q, c) = c
        /\ \A b \in B : EntryFor(q, b) = b => b = h \/ (Id[b] <= H.id => b \in C)
    BY <1>1, <1>2, <1>6, NotedAfterPut
  <2> HIDE DEF q
  <2>2. QED
    BY <2>1 DEF IsNoted
<1>8. IsCovered(B, D \cup O, H.id) /\ IsGrounded(B, D \cup O, H.id)
  BY <1>1 DEF IsCovered, IsGrounded
<1>9. g = 0 \/ \E c \in D \cup O : Id[c] = g
  BY <1>1
<1> HIDE DEF q, D
<1>10. Core(B, D, O, q, H, g)
  BY <1>1, <1>3, <1>5, <1>7, <1>8, <1>9 DEF Core, D
<1>11. QED
  BY <1>10 DEF q, D

\* What update_genesis_period deletes once a block is wound at the height above the
\* head: all blocks of the height that leaves the ring, and those of the next that
\* are not on the chain.
LEMMA PurgedAfterPut ==
  ASSUME NEW B \in SUBSET Hash, NEW C, NEW r \in Ring, NEW x \in Nat, NEW h \in B,
         C \subseteq B, HoldsExactly(r, B), HoldsOnce(r), IsNoted(B, C, r, x),
         Id[h] = x + 1, x # 0, NEW floor \in Int, floor = x + 1 - RingSize
  PROVE  PurgedBelow(PutOnLongestChain(r, h)) =
           {b \in B : floor > 0 /\ (Id[b] = floor \/ (Id[b] = floor + 1 /\ b \notin C))}
<1> DEFINE q == PutOnLongestChain(r, h)
           e == LongestChainHashAt(q, floor + 1)
<1>1. q \in Ring /\ HoldsExactly(q, B) /\ LatestId(q) = x + 1
  BY ReorganizationType, ReorganizationHolds, EntriesAfterPut
<1>2. /\ EntryFor(q, h) = h
      /\ \A c \in C : SlotOf(Id[c]) # SlotOf(Id[h]) => EntryFor(q, c) = c
      /\ \A b \in B : EntryFor(q, b) = b =>
           b = h \/ ((Id[b] <= x => b \in C) /\ SlotOf(Id[b]) # SlotOf(Id[h]))
  BY NotedAfterPut
<1> HIDE DEF q
<1>3. LatestId(q) - RingSize = floor
  BY <1>1, RingSizeType
<1>4. CASE floor < 1
  BY <1>3, <1>4 DEF PurgedBelow, q
<1>5. CASE ~(floor < 1)
  <2>1. floor \in Nat /\ floor + 1 \in Nat /\ floor > 0
    BY <1>5
  <2>2. HashesAt(q, floor) = {b \in B : Id[b] = floor}
    BY <1>1, <2>1, HeightIsRead
  <2>3. /\ HashesAt(q, floor + 1) = {b \in B : Id[b] = floor + 1}
        /\ e # NoHash => Entry(q, SlotOf(floor + 1)) = e
        /\ \A b \in Hash : (Id[b] = floor + 1 /\ Entry(q, SlotOf(Id[b])) = b) => e = b
    BY <1>1, <2>1, HeightIsRead
  <2>4. PurgedBelow(q) = HashesAt(q, floor) \cup (HashesAt(q, floor + 1) \ {e})
    BY <1>3, <1>5 DEF PurgedBelow
  <2> HIDE DEF e
  <2>5. ASSUME NEW b \in B, Id[b] = floor + 1
        PROVE  b = e <=> b \in C
    <3>1. Id[b] < Id[h] /\ Id[b] <= x /\ b # h /\ Id[h] < Id[b] + RingSize
      BY <2>1, <2>5, RingSizeType
    <3>2. SlotOf(Id[b]) # SlotOf(Id[h])
      <4>1. Id[b] \in Int /\ Id[h] \in Int /\ Id[b] # Id[h] /\ Id[b] <= Id[h]
        BY <2>5, <3>1, BlockType
      <4>2. QED
        BY <3>1, <4>1, SlotsAreApart
    <3>3. b \in C => b = e
      BY <1>2, <2>3, <2>5, <3>2 DEF EntryFor
    <3>4. b = e => EntryFor(q, b) = b
      BY <2>3, <2>5, BlockType DEF EntryFor
    <3>5. QED
      BY <1>2, <3>1, <3>3, <3>4
  <2>6. QED
    BY <2>1, <2>2, <2>3, <2>4, <2>5 DEF q
<1>6. QED
  BY <1>4, <1>5

\* The height under which the ring has no room once the block above the head is in.
Floor(H) == H.id + 1 - RingSize

\* The height wind_chain looks for to move genesis_block_id, and what it becomes.
Window(h) == Max2(Monus(Id[h], GenesisPeriod), 1)
GenesisFrom(r, h, g) == IF LongestChainHashAt(r, Window(h)) # NoHash THEN Window(h) ELSE g

\* What was unwound reaches down no further than the chain below the head does.
Meets(B, C, O, H) ==
  /\ \E w \in C : \A o \in O : Id[w] <= Id[o] \/ Id[w] <= Floor(H) + 1
  /\ \A o \in O : Parent[o] \in B \/ Id[o] = 1 \/ Id[o] <= Floor(H) + 1

\* wind_chain puts a block above the head: the head moves, the ring is full again and
\* what falls out of it is about to be deleted.  The chain reaches down as far as
\* what was unwound for it, or as the ring.
LEMMA CoreWindsHead ==
  ASSUME BlocksFollowParents,
         NEW B \in SUBSET Hash, NEW C, NEW O, NEW r \in Ring, NEW H \in ChainHead, NEW g, NEW h \in B,
         HoldsExactly(r, B), HoldsOnce(r), Core(B, C, O, r, H, g),
         LatestHash(r) # NoHash, Parent[h] = LatestHash(r), H.id # 0, H.id < Id[h],
         Meets(B, C, O, H)
  PROVE  LET P == PurgedBelow(PutOnLongestChain(r, h))
         IN  /\ Core(B \ P, (C \cup {h}) \ P, {}, PutOnLongestChain(r, h),
                     [id |-> Id[h], hash |-> h], GenesisFrom(PutOnLongestChain(r, h), h, g))
             /\ \A d \in P : d \in B /\ Id[d] < Id[h]
             /\ \A d \in P : \E c \in (C \cup {h}) \ P : SlotOf(Id[c]) = SlotOf(Id[d])
<1> DEFINE q == PutOnLongestChain(r, h)
           D == C \cup {h}
           t == LatestHash(r)
           floor == Floor(H)
           id == Window(h)
           G == GenesisFrom(PutOnLongestChain(r, h), h, g)
           P == PurgedBelow(PutOnLongestChain(r, h))
<1> /\ floor \in Int /\ floor = H.id + 1 - RingSize
    /\ id \in Nat /\ id = Max2(Monus(Id[h], GenesisPeriod), 1)
    /\ G = IF LongestChainHashAt(PutOnLongestChain(r, h), id) # NoHash THEN id ELSE g
    /\ \E w \in C : \A o \in O : Id[w] <= Id[o] \/ Id[w] <= floor + 1
    /\ \A o \in O : Parent[o] \in B \/ Id[o] = 1 \/ Id[o] <= floor + 1
  <2>1. Id[h] \in Nat /\ H.id \in Nat /\ RingSize \in Nat /\ GenesisPeriod \in Nat
    BY BlockType, RingSizeType, RingAssumption DEF ChainHead, Core, IsPath
  <2>2. floor \in Int /\ floor = H.id + 1 - RingSize
    BY <2>1 DEF Floor
  <2>3. id \in Nat /\ id = Max2(Monus(Id[h], GenesisPeriod), 1)
    BY <2>1 DEF Window, Max2, Monus
  <2>4. QED
    BY <2>2, <2>3 DEF GenesisFrom, Meets
<1> HIDE DEF floor, id, G, P
<1>1. /\ IsPath(B, C, t) /\ IsNoted(B, C, r, H.id)
      /\ IsCovered(B, C \cup O, H.id) /\ IsGrounded(B, C \cup O, H.id)
      /\ g = 0 \/ \E c \in C \cup O : Id[c] = g
      /\ O \subseteq B /\ \A o \in O : Id[o] <= H.id
      /\ LatestId(r) <= H.id
  BY DEF Core
<1>2. C \subseteq B /\ h \in Hash /\ H.id \in Nat /\ \A b \in B : Id[b] \in Nat /\ Id[b] > 0
  BY <1>1, BlockType DEF IsPath, ChainHead
<1>3. LatestHash(q) = h /\ LatestId(q) = Id[h]
  BY EntriesAfterPut
<1>4. t \in Hash /\ t \in C /\ LatestId(r) = Id[t]
  BY <1>1, LatestType, RingAssumption DEF IsPath, LatestId
<1>5. IsPath(B, D, h) /\ h \notin C /\ \A c \in C : Id[c] < Id[h]
  BY <1>1, <1>4, PathGrows
<1>6. Id[h] = H.id + 1
  <2>1. Id[h] = Id[t] + 1
    BY <1>2, <1>4 DEF BlocksFollowParents
  <2>2. QED
    BY <1>1, <1>2, <1>4, <2>1
<1>7. RingSize \in Nat /\ RingSize > 1 /\ floor + RingSize = Id[h] /\ floor + 1 <= H.id
  BY <1>2, <1>6, RingSizeType
<1>8. q \in Ring /\ HoldsExactly(q, B)
  BY ReorganizationType, ReorganizationHolds
<1>9. P = {b \in B : floor > 0 /\ (Id[b] = floor \/ (Id[b] = floor + 1 /\ b \notin C))}
  BY <1>1, <1>2, <1>6, PurgedAfterPut DEF P
<1>10. /\ EntryFor(q, h) = h
       /\ \A c \in C : SlotOf(Id[c]) # SlotOf(Id[h]) => EntryFor(q, c) = c
       /\ \A b \in B : EntryFor(q, b) = b =>
            b = h \/ ((Id[b] <= H.id => b \in C) /\ SlotOf(Id[b]) # SlotOf(Id[h]))
  BY <1>1, <1>2, NotedAfterPut
<1> HIDE DEF q, D, t
<1>11. h \notin P
  BY <1>2, <1>6, <1>7, <1>9
<1>12. D \subseteq B /\ D = C \cup {h} /\ \A c \in D : c \in P <=> Id[c] = floor
  BY <1>2, <1>6, <1>7, <1>9, <1>11 DEF D
<1>13. \A b \in B : Id[b] >= floor /\ (b \notin P => Id[b] > floor)
  BY <1>1, <1>2, <1>7, <1>9 DEF IsCovered
\* Above the height that goes, the chain has what was there before.
<1>14. ASSUME NEW b \in B, Id[b] <= H.id, Id[b] > floor
       PROVE  \E c \in D \ P : Id[c] = Id[b]
  <2>1. PICK c \in C \cup O : Id[c] = Id[b]
    BY <1>1, <1>14 DEF IsCovered
  <2>2. CASE c \in C
    BY <1>12, <1>14, <1>2, <2>1, <2>2
  <2>3. CASE c \in O
    <3>1. PICK w \in C : Id[w] <= Id[c] \/ Id[w] <= floor + 1
      BY <2>3
    <3>2. Id[w] <= Id[b] /\ w \in D
      BY <1>2, <1>12, <1>14, <2>1, <3>1
    <3>3. Id[b] <= Id[h] /\ Id[b] \in Nat
      BY <1>2, <1>6, <1>14
    <3>4. PICK v \in D : Id[v] = Id[b]
      BY <1>2, <1>5, <3>2, <3>3, PathIsUnbroken
    <3>5. QED
      BY <1>2, <1>12, <1>14, <3>4
  <2>4. QED
    BY <2>1, <2>2, <2>3
<1>15. IsCovered(B \ P, D \ P, Id[h])
  <2>1. ASSUME NEW b \in B \ P
        PROVE  /\ Id[b] > Id[h] - RingSize
               /\ Id[b] <= Id[h] => \E c \in D \ P : Id[c] = Id[b]
    <3>1. Id[b] > floor /\ Id[b] \in Nat
      BY <1>2, <1>13
    <3>2. CASE Id[b] <= H.id
      BY <1>7, <1>14, <3>1, <3>2
    <3>3. CASE ~(Id[b] <= H.id)
      <4>1. Id[b] <= Id[h] => Id[b] = Id[h]
        BY <1>2, <1>6, <3>1, <3>3
      <4>2. QED
        BY <1>2, <1>7, <1>11, <1>12, <3>1, <4>1
    <3>4. QED
      BY <3>2, <3>3
  <2>2. QED
    BY <2>1 DEF IsCovered
<1>16. IsGrounded(B \ P, D \ P, Id[h])
  <2>1. ASSUME NEW b \in B \ P, b \notin D
        PROVE  \/ Parent[b] \in B \ P \/ Id[b] = 1
               \/ (Id[b] > 2 /\ Id[b] = Id[h] - RingSize + 2)
    <3>1. Id[b] > floor /\ Id[b] \in Nat /\ b \in Hash /\ b \notin C
      BY <1>2, <1>12, <1>13, <2>1
    <3>2. floor > 0 => Id[b] # floor + 1
      BY <1>9, <2>1, <3>1
    <3>3. CASE Parent[b] \in B
      <4>1. Id[b] = Id[Parent[b]] + 1
        BY <3>1, <3>3 DEF BlocksFollowParents
      <4>2. CASE Parent[b] \in P
        <5>1. floor > 0 /\ (Id[Parent[b]] = floor \/ Id[Parent[b]] = floor + 1)
          BY <1>9, <4>2
        <5>2. Id[b] = floor + 2
          BY <3>2, <4>1, <5>1
        <5>3. QED
          BY <1>2, <1>7, <5>1, <5>2
      <4>3. QED
        BY <3>3, <4>2
    <3>4. CASE Parent[b] \notin B
      <4>1. Id[b] = 1 \/ Id[b] <= floor + 1
        <5>1. CASE b \in O
          BY <3>4, <5>1
        <5>2. CASE b \notin O
          <6>1. b \in B \ (C \cup O)
            BY <3>1, <5>2
          <6>2. Id[b] = 1 \/ Id[b] = H.id - RingSize + 2
            BY <1>1, <3>4, <6>1 DEF IsGrounded
          <6>3. QED
            BY <1>2, <1>7, <3>1, <6>2
        <5>3. QED
          BY <5>1, <5>2
      <4>2. QED
        BY <1>2, <3>1, <3>2, <4>1
    <3>5. QED
      BY <3>3, <3>4
  <2>2. QED
    BY <2>1 DEF IsGrounded
<1>17. IsPath(B \ P, D \ P, h)
  <2>1. D \ P \subseteq B \ P /\ h \in D \ P /\ h # NoHash
    BY <1>2, <1>11, <1>12, RingAssumption
  <2>2. /\ \A a, b \in D \ P : Id[a] = Id[b] => a = b
        /\ \A b \in D \ P : Id[b] <= Id[h]
    BY <1>5 DEF IsPath
  <2>3. ASSUME NEW c \in D \ P, c # h
        PROVE  \E a \in D \ P : Parent[a] = c
    <3>1. PICK a \in D : Parent[a] = c
      BY <1>5, <2>3 DEF IsPath
    <3>2. Id[a] = Id[c] + 1 /\ Id[c] \in Nat /\ Id[c] >= floor
      BY <1>2, <1>12, <1>13, <3>1 DEF BlocksFollowParents
    <3>3. a \notin P
      BY <1>12, <3>2
    <3>4. QED
      BY <3>1, <3>3
  <2>4. \A c \in D \ P : Parent[c] \in B \ P => Parent[c] \in D \ P
    BY <1>5 DEF IsPath
  <2>5. QED
    BY <2>1, <2>2, <2>3, <2>4 DEF IsPath
<1>18. IsNoted(B \ P, D \ P, q, Id[h])
  <2>1. ASSUME NEW c \in D \ P
        PROVE  EntryFor(q, c) = c
    <3>1. CASE c = h
      BY <1>10, <3>1
    <3>2. CASE c # h
      <4>1. c \in C /\ Id[c] > floor /\ Id[c] < Id[h] /\ Id[c] \in Int /\ Id[h] \in Int
        BY <1>2, <1>5, <1>12, <1>13, <3>2
      <4>2. Id[h] < Id[c] + RingSize /\ Id[c] <= Id[h] /\ Id[c] # Id[h]
        BY <1>7, <4>1
      <4>3. SlotOf(Id[c]) # SlotOf(Id[h])
        BY <4>1, <4>2, SlotsAreApart
      <4>4. QED
        BY <1>10, <4>1, <4>3
    <3>3. QED
      BY <3>1, <3>2
  <2>2. ASSUME NEW b \in B \ P, Id[b] <= Id[h], EntryFor(q, b) = b
        PROVE  b \in D \ P
    <3>1. b = h \/ ((Id[b] <= H.id => b \in C) /\ SlotOf(Id[b]) # SlotOf(Id[h]))
      BY <1>10, <2>2
    <3>2. Id[b] = Id[h] \/ Id[b] <= H.id
      BY <1>2, <1>6, <2>2
    <3>3. QED
      BY <1>12, <3>1, <3>2
  <2>3. QED
    BY <2>1, <2>2 DEF IsNoted
<1>19. G = 0 \/ \E c \in D \ P : Id[c] = G
  <2>1. id >= 1 /\ id > floor /\ id >= floor + 1 /\ id <= Id[h] /\ id <= H.id
    <3>1. RingSize = 2 * GenesisPeriod /\ GenesisPeriod \in Nat /\ GenesisPeriod > 0
      BY RingAssumption DEF RingSize
    <3>2. QED
      BY <1>2, <1>6, <1>7, <3>1 DEF Max2, Monus
  <2>2. /\ LongestChainHashAt(q, id) # NoHash =>
             /\ LongestChainHashAt(q, id) \in B
             /\ Id[LongestChainHashAt(q, id)] = id
             /\ Entry(q, SlotOf(id)) = LongestChainHashAt(q, id)
        /\ \A b \in Hash : (Id[b] = id /\ Entry(q, SlotOf(Id[b])) = b) => LongestChainHashAt(q, id) = b
    BY <1>8, HeightIsRead
  <2>3. CASE LongestChainHashAt(q, id) # NoHash
    <3> DEFINE e == LongestChainHashAt(q, id)
    <3>1. e \in B /\ Id[e] = id /\ EntryFor(q, e) = e
      BY <2>2, <2>3 DEF EntryFor
    <3>2. e \in D
      BY <1>10, <1>12, <2>1, <3>1
    <3>3. e \notin P
      BY <1>12, <2>1, <3>1, <3>2
    <3>4. G = id
      BY <2>3 DEF q
    <3>5. QED
      BY <3>1, <3>2, <3>3, <3>4
  <2>4. CASE LongestChainHashAt(q, id) = NoHash
    <3>1. G = g
      BY <2>4 DEF q
    <3>2. ASSUME NEW w \in D, Id[w] <= id
          PROVE  FALSE
      <4>1. PICK v \in D : Id[v] = id
        BY <1>5, <2>1, <3>2, PathIsUnbroken
      <4>2. v \in D \ P /\ v \in Hash /\ v # NoHash
        BY <1>12, <2>1, <4>1, BlockType
      <4>3. EntryFor(q, v) = v
        BY <1>18, <4>2 DEF IsNoted
      <4>4. QED
        BY <2>2, <2>4, <4>1, <4>2, <4>3 DEF EntryFor
    <3>3. ASSUME NEW c \in C, Id[c] = g
          PROVE  \E v \in D \ P : Id[v] = g
      <4>1. c \in D /\ Id[c] \in Nat
        BY <1>2, <1>12
      <4>2. Id[c] # floor
        BY <2>1, <3>2, <4>1
      <4>3. QED
        BY <1>12, <3>3, <4>1, <4>2
    <3>4. ASSUME NEW c \in O, Id[c] = g
          PROVE  \E v \in D \ P : Id[v] = g
      <4>1. PICK w \in C : Id[w] <= Id[c] \/ Id[w] <= floor + 1
        OBVIOUS
      <4>2. w \in D /\ Id[w] \in Nat /\ Id[c] \in Nat /\ Id[c] <= H.id
        BY <1>1, <1>2, <1>12
      <4>3. ~(Id[w] <= id)
        BY <3>2, <4>2
      <4>4. Id[c] > floor
        BY <2>1, <4>1, <4>2, <4>3
      <4>5. QED
        BY <1>1, <1>14, <3>4, <4>2, <4>4
    <3>5. QED
      BY <1>1, <3>1, <3>3, <3>4
  <2>5. QED
    BY <2>3, <2>4
<1>20. Core(B \ P, D \ P, {}, q, [id |-> Id[h], hash |-> h], G)
  <2> DEFINE N == [id |-> Id[h], hash |-> h]
  <2>1. N.id = Id[h] /\ N.hash = h /\ Id[h] <= Id[h]
    BY <1>2
  <2>2. (D \ P) \cup {} = D \ P
    OBVIOUS
  <2> HIDE DEF N
  <2>3. Core(B \ P, D \ P, {}, q, N, G)
    BY <1>3, <1>15, <1>16, <1>17, <1>18, <1>19, <2>1, <2>2 DEF Core
  <2>4. QED
    BY <2>3 DEF N
<1>21. \A d \in P : d \in B /\ Id[d] < Id[h]
  BY <1>2, <1>6, <1>7, <1>9
<1>22. ASSUME NEW d \in P
       PROVE  \E c \in D \ P : SlotOf(Id[c]) = SlotOf(Id[d])
  <2>1. d \in B /\ floor > 0 /\ (Id[d] = floor \/ Id[d] = floor + 1)
    BY <1>9
  <2>2. CASE Id[d] = floor
    <3>1. SlotOf(Id[h]) = SlotOf(floor)
      BY <1>7, SlotComesBack
    <3>2. QED
      BY <1>11, <1>12, <2>2, <3>1
  <2>3. CASE Id[d] = floor + 1
    BY <1>7, <1>14, <2>1, <2>3
  <2>4. QED
    BY <2>1, <2>2, <2>3
<1>23. QED
  BY <1>20, <1>21, <1>22 DEF q, D, G, P

\* The first block of a chain is wound.
LEMMA CoreWindsFirst ==
  ASSUME BlocksFollowParents, NEW h \in Hash, NEW r \in Ring,
         HoldsExactly(r, {h}), HoldsOnce(r),
         NEW id \in Nat,
         NEW G, G = IF LongestChainHashAt(PutOnLongestChain(r, h), id) # NoHash THEN id ELSE 0
  PROVE  /\ Core({h}, {h}, {}, PutOnLongestChain(r, h), [id |-> Id[h], hash |-> h], G)
         /\ PurgedBelow(PutOnLongestChain(r, h)) = {}
<1> DEFINE q == PutOnLongestChain(r, h)
           B == {h}
           floor == Id[h] - RingSize
<1>1. /\ q \in Ring /\ HoldsExactly(q, B) /\ LatestHash(q) = h /\ LatestId(q) = Id[h]
      /\ Entry(q, SlotOf(Id[h])) = h
  BY ReorganizationType, ReorganizationHolds, EntriesAfterPut, BlockType
<1>2. Id[h] \in Nat /\ Id[h] > 0 /\ h # NoHash /\ RingSize \in Nat /\ RingSize > 1
  BY BlockType, RingSizeType
<1>3. Parent[h] # h
  BY <1>2 DEF BlocksFollowParents
<1> HIDE DEF q, B
<1>4. PurgedBelow(q) = {}
  <2>1. CASE floor < 1
    BY <1>1, <2>1 DEF PurgedBelow
  <2>2. CASE ~(floor < 1)
    <3>1. floor \in Nat /\ floor + 1 \in Nat /\ Id[h] # floor /\ Id[h] # floor + 1
      BY <1>2, <2>2
    <3>2. B \subseteq Hash /\ B = {h}
      BY DEF B
    <3>3. HashesAt(q, floor) = {} /\ HashesAt(q, floor + 1) = {}
      BY <1>1, <3>1, <3>2, HeightIsRead
    <3>4. QED
      BY <1>1, <2>2, <3>3 DEF PurgedBelow
  <2>3. QED
    BY <2>1, <2>2
<1>5. IsPath(B, B, h)
  BY <1>2, <1>3 DEF IsPath, B
<1>6. IsNoted(B, B, q, Id[h])
  BY <1>1 DEF IsNoted, EntryFor, B
<1>7. IsCovered(B, B, Id[h]) /\ IsGrounded(B, B, Id[h])
  BY <1>2 DEF IsCovered, IsGrounded, B
<1>8. G = 0 \/ \E c \in B : Id[c] = G
  <2>1. B \subseteq Hash
    BY DEF B
  <2>2. LongestChainHashAt(q, id) # NoHash =>
          LongestChainHashAt(q, id) \in B /\ Id[LongestChainHashAt(q, id)] = id
    BY <1>1, <2>1, HeightIsRead
  <2>3. QED
    BY <2>2 DEF q
<1>9. Core(B, B, {}, q, [id |-> Id[h], hash |-> h], G)
  <2> DEFINE N == [id |-> Id[h], hash |-> h]
  <2>1. N.id = Id[h] /\ N.hash = h /\ Id[h] <= Id[h] /\ B \cup {} = B
    BY <1>2
  <2> HIDE DEF N
  <2>2. Core(B, B, {}, q, N, G)
    BY <1>1, <1>5, <1>6, <1>7, <1>8, <2>1 DEF Core
  <2>3. QED
    BY <2>2 DEF N
<1>10. QED
  BY <1>4, <1>9 DEF q, B

\* add_block_failure deletes a block off the chain that nothing was built on.
LEMMA CoreLosesBlock ==
  ASSUME BlocksFollowParents,
         NEW B \in SUBSET Hash, NEW C, NEW r \in Ring, NEW H \in ChainHead, NEW g, NEW d \in B,
         HoldsExactly(r, B), HoldsOnce(r), Core(B, C, {}, r, H, g),
         LatestHash(r) # NoHash, d \notin C, \A b \in B : Parent[b] # d
  PROVE  /\ Core(B \ {d}, C, {}, DeleteFromRing(r, d), H, g)
         /\ LatestHash(DeleteFromRing(r, d)) = LatestHash(r)
         /\ LatestId(DeleteFromRing(r, d)) = LatestId(r)
<1> DEFINE q == DeleteFromRing(r, d)
           D == B \ {d}
           t == LatestHash(r)
<1>1. /\ IsPath(B, C, t) /\ IsNoted(B, C, r, H.id)
      /\ IsCovered(B, C, H.id) /\ IsGrounded(B, C, H.id)
      /\ g = 0 \/ \E c \in C : Id[c] = g
      /\ LatestId(r) <= H.id
      /\ H.hash \in C => H.id = LatestId(r) /\ H.hash = t
  BY DEF Core
<1>2. C \subseteq B /\ B \subseteq Hash /\ D \subseteq Hash /\ C \subseteq D
  BY <1>1 DEF IsPath
<1>3. /\ q.lc_pos = r.lc_pos
      /\ \A s \in Slots : (s # SlotOf(Id[d]) \/ Entry(r, s) \notin {NoHash, d}) => Entry(q, s) = Entry(r, s)
  BY EntriesAfterDelete
<1>4. t \in C /\ t # d /\ r.lc_pos \in Slots /\ Entry(r, r.lc_pos) = t
  BY <1>1, LatestIsEntry, BlockType DEF IsPath
<1>5. q \in Ring /\ HoldsExactly(q, D)
  BY DeleteFromRingType, DeleteFromRingHolds
<1> HIDE DEF q
<1>6. LatestHash(q) = t /\ LatestId(q) = LatestId(r)
  BY <1>3, <1>4, LatestOfEntries
<1>7. \A c \in C : EntryFor(q, c) = c
  BY <1>1, <1>2, <1>3, BlockType DEF IsNoted, EntryFor
<1>8. ASSUME NEW b \in D, Id[b] <= H.id, EntryFor(q, b) = b
      PROVE  b \in C
  <2>1. b \in B /\ b \in Hash /\ b # NoHash
    BY <1>2, BlockType
  <2>2. PICK c \in C : Id[c] = Id[b]
    BY <1>1, <1>8, <2>1 DEF IsCovered
  <2>3. EntryFor(q, b) = c
    BY <1>7, <2>2 DEF EntryFor
  <2>4. QED
    BY <1>8, <2>3
<1>9. IsNoted(D, C, q, H.id)
  BY <1>7, <1>8 DEF IsNoted
<1>10. IsPath(D, C, t)
  BY <1>1, <1>2 DEF IsPath
<1>11. IsCovered(D, C, H.id) /\ IsGrounded(D, C, H.id)
  BY <1>1 DEF IsCovered, IsGrounded
<1>12. Core(D, C, {}, q, H, g)
  <2>1. C \cup {} = C
    OBVIOUS
  <2>2. QED
    BY <1>1, <1>6, <1>9, <1>10, <1>11, <2>1 DEF Core
<1>13. QED
  BY <1>6, <1>12 DEF q

\* Entries above the tip are reset: none of them is of the chain.
LEMMA CoreDisconnects ==
  ASSUME NEW B \in SUBSET Hash, NEW C, NEW r \in Ring, NEW q, NEW H \in ChainHead, NEW g, NEW gone,
         HoldsExactly(r, B), Core(B, C, {}, r, H, g), gone \cap C = {}, NoHash \notin gone,
         q.lc_pos = r.lc_pos,
         \A s \in Slots : Entry(q, s) = IF Entry(r, s) \in gone THEN NoHash ELSE Entry(r, s)
  PROVE  /\ Core(B, C, {}, q, H, g)
         /\ LatestHash(q) = LatestHash(r) /\ LatestId(q) = LatestId(r)
<1>1. IsPath(B, C, LatestHash(r)) /\ IsNoted(B, C, r, H.id)
  BY DEF Core
<1>2. C \subseteq B
  BY <1>1 DEF IsPath
<1>3. LatestHash(q) = LatestHash(r) /\ LatestId(q) = LatestId(r)
  <2>1. r.lc_pos # NoSlot => r.lc_pos \in Slots /\ LatestHash(r) = Entry(r, r.lc_pos)
    BY DEF Ring, LatestHash, Entry
  <2>2. r.lc_pos # NoSlot => Entry(q, r.lc_pos) = Entry(r, r.lc_pos)
    BY <1>1, <2>1 DEF IsPath
  <2>3. QED
    BY <2>2, LatestOfEntries
<1>4. IsNoted(B, C, q, H.id)
  <2>1. \A c \in C : EntryFor(q, c) = c
    BY <1>1, <1>2, BlockType DEF IsNoted, EntryFor
  <2>2. \A b \in B : EntryFor(q, b) = b => EntryFor(r, b) = b
    BY BlockType DEF EntryFor
  <2>3. QED
    BY <1>1, <2>1, <2>2 DEF IsNoted
<1>5. QED
  BY <1>3, <1>4 DEF Core

\* delete_block takes a block out of a slot whose entry is another: no entry changes.
LEMMA DeleteKeepsEntries ==
  ASSUME NEW r \in Ring, NEW d \in Hash, NEW c \in Hash,
         SlotOf(Id[c]) = SlotOf(Id[d]), EntryFor(r, c) = c, c # d
  PROVE  /\ \A s \in Slots : Entry(DeleteFromRing(r, d), s) = Entry(r, s)
         /\ LatestHash(DeleteFromRing(r, d)) = LatestHash(r)
         /\ LatestId(DeleteFromRing(r, d)) = LatestId(r)
<1> DEFINE q == DeleteFromRing(r, d)
<1>1. Entry(r, SlotOf(Id[d])) \notin {NoHash, d}
  BY BlockType DEF EntryFor
<1>2. \A s \in Slots : Entry(q, s) = Entry(r, s)
  BY <1>1, EntriesAfterDelete
<1>3. q.lc_pos = r.lc_pos /\ (r.lc_pos # NoSlot => r.lc_pos \in Slots)
  BY EntriesAfterDelete DEF Ring
<1> HIDE DEF q
<1>4. LatestHash(q) = LatestHash(r) /\ LatestId(q) = LatestId(r)
  BY <1>2, <1>3, LatestOfEntries
<1>5. QED
  BY <1>2, <1>4 DEF q

-----------------------------------------------------------------------------
(* The two chains add_block compares: branches, from their tips down.      *)

IsBranch(c) ==
  /\ \A i \in 1 .. Len(c) - 1 : Parent[c[i]] = c[i + 1]
  /\ \A i \in 1 .. Len(c) : Id[c[i]] + i = Id[c[1]] + 1

Bottom(c) == c[Len(c)]

\* The blocks of a chain.
LEMMA ChainBlocks ==
  ASSUME NEW c \in Seq(Hash)
  PROVE  /\ Len(c) \in Nat /\ DOMAIN c = 1 .. Len(c) /\ (c = <<>> <=> Len(c) = 0)
         /\ InChain(c) = {c[i] : i \in 1 .. Len(c)} /\ InChain(c) \subseteq Hash
         /\ c # <<>> => /\ Len(c) \in 1 .. Len(c) /\ 1 \in 1 .. Len(c)
                        /\ Bottom(c) \in InChain(c) /\ c[1] \in InChain(c)
<1>1. Len(c) \in Nat /\ DOMAIN c = 1 .. Len(c) /\ (c = <<>> <=> Len(c) = 0)
  BY LenProperties, EmptySeq
<1>2. InChain(c) = {c[i] : i \in 1 .. Len(c)}
  BY <1>1 DEF InChain
<1>3. \A i \in 1 .. Len(c) : c[i] \in Hash
  BY ElementOfSeq
<1>4. QED
  BY <1>1, <1>2, <1>3 DEF Bottom

LEMMA EmptyBranch == IsBranch(<<>>) /\ InChain(<<>>) = {} /\ Len(<<>>) = 0
BY EmptySeq DEF IsBranch, InChain

\* The walk down a chain makes a branch, block by block.
LEMMA BranchGrows ==
  ASSUME BlocksFollowParents, NEW c \in Seq(Hash), NEW k \in Hash, IsBranch(c),
         c # <<>> => Parent[Bottom(c)] = k
  PROVE  /\ IsBranch(Append(c, k)) /\ Bottom(Append(c, k)) = k /\ Append(c, k) # <<>>
         /\ InChain(Append(c, k)) = InChain(c) \cup {k}
         /\ Append(c, k)[1] = IF c = <<>> THEN k ELSE c[1]
<1> DEFINE n == Len(c)
           d == Append(c, k)
<1>1. n \in Nat /\ (c = <<>> <=> n = 0) /\ \A i \in 1 .. n : c[i] \in Hash
  BY ChainBlocks, ElementOfSeq
<1>2. /\ d \in Seq(Hash) /\ Len(d) = n + 1 /\ d # <<>>
      /\ \A i \in 1 .. n : d[i] = c[i]
      /\ d[n + 1] = k
  BY <1>1, AppendProperties, EmptySeq
<1>3. InChain(d) = {d[i] : i \in 1 .. n + 1} /\ InChain(c) = {c[i] : i \in 1 .. n}
  BY <1>2, ChainBlocks
<1>4. n # 0 => c[n] \in Hash /\ Parent[c[n]] = k /\ Id[c[n]] = Id[k] + 1 /\ Id[c[n]] + n = Id[c[1]] + 1
  BY <1>1 DEF Bottom, BlocksFollowParents, IsBranch
<1>5. Id[k] \in Nat /\ \A i \in 1 .. n : Id[c[i]] \in Nat
  BY <1>1, BlockType
<1> HIDE DEF n, d
<1>6. d[1] = IF n = 0 THEN k ELSE c[1]
  BY <1>1, <1>2
<1>7. \A i \in 1 .. Len(d) - 1 : Parent[d[i]] = d[i + 1]
  <2>1. ASSUME NEW i \in 1 .. n
        PROVE  Parent[d[i]] = d[i + 1]
    <3>1. CASE i = n
      BY <1>1, <1>2, <1>4, <3>1
    <3>2. CASE i # n
      BY <1>1, <1>2, <3>2 DEF IsBranch, n
    <3>3. QED
      BY <3>1, <3>2
  <2>2. QED
    BY <1>1, <1>2, <2>1
<1>8. \A i \in 1 .. Len(d) : Id[d[i]] + i = Id[d[1]] + 1
  <2>1. ASSUME NEW i \in 1 .. n
        PROVE  Id[d[i]] + i = Id[d[1]] + 1
    BY <1>1, <1>2, <1>6 DEF IsBranch, n
  <2>2. Id[d[n + 1]] + (n + 1) = Id[d[1]] + 1
    <3>1. CASE n = 0
      BY <1>2, <3>1
    <3>2. CASE n # 0
      <4>1. 1 \in 1 .. n
        BY <1>1, <3>2
      <4>2. d[n + 1] = k /\ d[1] = c[1]
        BY <1>2, <1>6, <3>2
      <4>3. (Id[k] + 1) + n = Id[c[1]] + 1 /\ Id[c[1]] \in Nat
        BY <1>4, <1>5, <3>2, <4>1
      <4>4. Id[k] + (n + 1) = Id[c[1]] + 1
        <5>1. \A x, y \in Nat : (x + 1) + n = y + 1 => x + (n + 1) = y + 1
          BY <1>1
        <5>2. QED
          BY <1>5, <4>3, <5>1
      <4>5. QED
        BY <4>2, <4>4
    <3>3. QED
      BY <3>1, <3>2
  <2>3. QED
    BY <1>1, <1>2, <2>1, <2>2
<1>9. IsBranch(d) /\ Bottom(d) = k
  BY <1>2, <1>7, <1>8 DEF IsBranch, Bottom
<1>10. InChain(d) = InChain(c) \cup {k}
  BY <1>1, <1>2, <1>3
<1>11. QED
  BY <1>1, <1>2, <1>6, <1>9, <1>10 DEF d, n

\* Heights fall by one from block to block.
LEMMA BranchHeights ==
  ASSUME NEW c \in Seq(Hash), IsBranch(c), c # <<>>
  PROVE  /\ \A i \in 1 .. Len(c) : Id[c[i]] = Id[c[1]] + 1 - i /\ Id[c[i]] \in Nat
         /\ \A i, j \in 1 .. Len(c) : c[i] = c[j] => i = j
         /\ \A h \in InChain(c) : Id[Bottom(c)] <= Id[h] /\ Id[h] <= Id[c[1]]
         /\ \A n \in Nat : (Id[Bottom(c)] <= n /\ n <= Id[c[1]]) => \E h \in InChain(c) : Id[h] = n
<1>1. /\ Len(c) \in Nat /\ Len(c) \in 1 .. Len(c) /\ 1 \in 1 .. Len(c)
      /\ InChain(c) = {c[i] : i \in 1 .. Len(c)}
  BY ChainBlocks
<1>2. \A i \in 1 .. Len(c) : Id[c[i]] \in Nat
  BY ElementOfSeq, BlockType
<1>3. \A i \in 1 .. Len(c) : Id[c[i]] = Id[c[1]] + 1 - i
  BY <1>1, <1>2 DEF IsBranch
<1>4. \A i, j \in 1 .. Len(c) : c[i] = c[j] => i = j
  BY <1>1, <1>2, <1>3
<1>5. \A h \in InChain(c) : Id[Bottom(c)] <= Id[h] /\ Id[h] <= Id[c[1]]
  BY <1>1, <1>2, <1>3 DEF Bottom
<1>6. ASSUME NEW n \in Nat, Id[Bottom(c)] <= n, n <= Id[c[1]]
      PROVE  \E h \in InChain(c) : Id[h] = n
  <2> DEFINE i == Id[c[1]] + 1 - n
  <2>1. i \in 1 .. Len(c) /\ Id[c[1]] + 1 - i = n
    <3>1. Id[Bottom(c)] = Id[c[1]] + 1 - Len(c)
      BY <1>1, <1>3 DEF Bottom
    <3>2. QED
      BY <1>1, <1>2, <1>6, <3>1
  <2> HIDE DEF i
  <2>2. Id[c[i]] = n /\ c[i] \in InChain(c)
    BY <1>1, <1>3, <2>1
  <2>3. QED
    BY <2>2
<1>7. QED
  BY <1>2, <1>3, <1>4, <1>5, <1>6

\* The old chain is the upper end of the longest chain: what it leaves out is at or
\* below the parent of its last block.
LEMMA OldChainIsTop ==
  ASSUME BlocksFollowParents, NEW B \in SUBSET Hash, NEW C, NEW c \in Seq(Hash),
         c # <<>>, IsBranch(c), IsPath(B, C, c[1]), InChain(c) \subseteq C,
         NEW v \in C, v \notin InChain(c)
  PROVE  Id[v] < Id[Bottom(c)] /\ Parent[Bottom(c)] \in C
<1>1. C \subseteq Hash /\ Bottom(c) \in C /\ c[1] \in Hash /\ Id[v] \in Nat /\ c[1] # NoHash
  BY ChainBlocks, BlockType DEF IsPath
<1>2. Id[v] <= Id[c[1]] /\ Id[c[1]] \in Nat /\ Id[Bottom(c)] \in Nat
  BY <1>1, BlockType DEF IsPath
<1>3. Id[v] < Id[Bottom(c)]
  <2>1. SUFFICES ASSUME Id[Bottom(c)] <= Id[v]
                 PROVE  FALSE
    BY <1>1, <1>2
  <2>2. PICK h \in InChain(c) : Id[h] = Id[v]
    BY <1>1, <1>2, <2>1, BranchHeights
  <2>3. h = v
    BY <2>2 DEF IsPath
  <2>4. QED
    BY <2>2, <2>3
<1>4. QED
  BY <1>1, <1>3, ParentOnPath

-----------------------------------------------------------------------------
(* The invariant of Blockchain, for as long as nothing fails half-way.     *)

\* Of what FirstBlock stands for: the peers a node meets first have all the same idea of
\* where to start, at the first block of the chain or at a later one.  When a node
\* that took a later block for its first one is given another branch from height 1
\* on, the flags and the ring come apart.
PeersAgreeOnStart ==
  \/ \A h \in FirstBlock : Parent[h] = NoHash
  \/ \A h \in FirstBlock : Parent[h] # NoHash

\* The steps for which the chain keeps its form.  No crash: after one the head is read
\* from the configuration, and the files of one height come in an order of their own.
\* A block that fails does so before the chain has moved for it: it is the first that
\* is unwound, or wound when there is nothing to unwind.  A failure further on makes
\* validate() go on with the wrong one of the two chains (the run bad_start), and one
\* that validate_total_supply finds after the last block deletes the block that is
\* the tip by then.  The very first block of all does not fail:
\* RingItem::delete_block leaves the empty slot a position, and the next block there
\* passes for one of the longest chain.
FailsBeforeItMoves ==
  /\ ~Crash
  /\ (RejectBlock \/ WindCheckpoint) => old_chain = <<>> /\ wind.index = Len(new_chain)
  /\ UnwindCheckpoint => wind.index = 1
  /\ Fail => ~verdict /\ latest # NoHash

\* The chain is being reorganised.
Moving == pc \in {"unwind", "wind", "purge"}

\* The new block carries the flag, but is not on the chain yet.
FlaggedOnly ==
  \/ pc \in {"unwind", "wind"}
  \/ pc = "purge" /\ wind.index # 1
  \/ pc = "verdict" /\ ~verdict

Kept == blocks \ purge

Wound == (IF FlaggedOnly THEN in_longest_chain \ {adding} ELSE in_longest_chain) \ purge

\* What an unfinished reorganisation has unwound.
Unwound == IF Moving /\ last_block.hash \notin Wound THEN InChain(old_chain) ELSE {}

CoreInv ==
  /\ Core(Kept, Wound, Unwound, blockring, last_block, genesis_block_id)
  /\ ~Moving => last_block.id = LatestId(blockring) /\ last_block.hash = LatestHash(blockring)

\* No longest chain entry, and no tip.
IsBlank(r) == r.lc_pos = NoSlot /\ \A s \in Slots : r.items[s].lc_pos = NoPos

Early == {"idle", "batch", "new chain", "old chain", "select"}

\* Until the first block is wound there is none.
StartInv ==
  /\ last_block.id = 0 =>
       /\ last_block.hash = NoHash
       /\ IsBlank(blockring)
       /\ genesis_block_id = 0
       /\ blocks \subseteq (IF Settled THEN {} ELSE {adding})
       /\ ~Settled => latest = NoHash
       /\ pc \in Early => blockring.empty
  /\ blockring.empty => last_block.id = 0 /\ ~Moving

\* A block is deleted only when another of the chain has its slot.
PurgeInv ==
  /\ pc # "purge" => purge = {}
  /\ purge \subseteq blocks
  /\ \A d \in purge : \E c \in Wound : SlotOf(Id[c]) = SlotOf(Id[d])

\* A node without a block takes first blocks only.
WaitInv ==
  /\ loaded
  /\ waiting => blocks \cup batch \cup blocks_queue \subseteq FirstBlock
  /\ ~waiting => genesis_block_id # 0
  /\ updates # <<>> => last_block.id # 0

\* Nothing was built on the block that is being added.
AddingInv == ~Settled => adding \in Kept /\ \A b \in Kept : Parent[b] # adding

\* The walk down the new chain.
NewWalk ==
  /\ adding \notin in_longest_chain
  /\ latest = Tip
  /\ IsBranch(new_chain)
  /\ InChain(new_chain) \subseteq blocks \ in_longest_chain
  /\ new_chain # <<>> => new_chain[1] = adding

\* The walk down the old chain.
OldWalk ==
  /\ NewWalk
  /\ new_chain # <<>>
  /\ Parent[Bottom(new_chain)] = shared \/ (shared = NoHash /\ Parent[Bottom(new_chain)] \notin blocks)
  /\ shared = NoHash \/ shared \in in_longest_chain
  /\ IsBranch(old_chain)
  /\ InChain(old_chain) \subseteq in_longest_chain
  /\ shared \notin InChain(old_chain)
  /\ IF old_chain = <<>> THEN cursor = latest
     ELSE old_chain[1] = latest /\ cursor = Parent[Bottom(old_chain)]

\* Two branches, from one block if they share one.
Branches ==
  /\ new_chain # <<>> /\ new_chain[1] = adding
  /\ IsBranch(new_chain) /\ IsBranch(old_chain)
  /\ InChain(new_chain) \cap InChain(old_chain) = {}
  /\ ~wind.failure
  /\ shared # NoHash => Parent[Bottom(new_chain)] = shared

\* The height the new chain starts at, when neither chain has its parent any more:
\* the first, or the one whose parents a deletion has just taken away.
StartsAtEdge ==
  /\ Parent[Bottom(old_chain)] \notin blocks
  /\ Parent[Bottom(new_chain)] \notin blocks
  /\ \E o \in InChain(old_chain) : Id[o] = Id[Bottom(new_chain)]
  /\ \/ Id[Bottom(new_chain)] = 1
     \/ Id[Bottom(new_chain)] > 2 /\ Id[Bottom(new_chain)] = last_block.id - RingSize + 2

\* The head was unwound, the new chain is to reach above it.
CatchesUp ==
  /\ purge = {}
  /\ old_chain # <<>> /\ old_chain[1] = last_block.hash
  /\ InChain(old_chain) \subseteq blocks
  /\ Id[adding] > last_block.id
  /\ shared # NoHash => shared \in Wound /\ Parent[Bottom(old_chain)] = shared
  /\ shared = NoHash => StartsAtEdge

Unwinds ==
  /\ CatchesUp
  /\ last_block.id # 0
  /\ wind.slice = Len(new_chain)
  /\ latest = old_chain[1]
  /\ wind.index \in 1 .. Len(old_chain)
  /\ Tip = old_chain[wind.index]
  /\ \A i \in 1 .. Len(old_chain) : old_chain[i] \in Wound <=> i >= wind.index
  /\ InChain(new_chain) \subseteq blocks
  /\ InChain(new_chain) \cap Wound = {}

\* How much of the new chain is still to be wound.
Rest == IF pc = "wind" THEN wind.index ELSE wind.index - 1

Winds ==
  /\ Rest \in 0 .. Len(new_chain)
  /\ pc = "wind" => Rest # 0
  /\ \A i \in 1 .. Rest : new_chain[i] \in Kept
  /\ Tip = IF Rest < Len(new_chain) THEN new_chain[Rest + 1] ELSE shared
  /\ InChain(old_chain) \cap Wound = {}
  /\ last_block.id = 0 => pc = "wind" /\ Len(new_chain) = 1 /\ shared = NoHash /\ old_chain = <<>>
  /\ (last_block.id # 0 /\ last_block.hash \notin Wound) =>
       /\ CatchesUp
       /\ Rest # 0
       /\ \A i \in Rest + 1 .. Len(new_chain) : new_chain[i] \in Wound
  /\ (Rest = Len(new_chain) /\ old_chain = <<>>) => latest = Tip

PhaseInv ==
  /\ pc = "new chain" => /\ NewWalk
                         /\ old_chain = <<>> /\ shared = NoHash
                         /\ IF new_chain = <<>> THEN cursor = adding
                            ELSE cursor = Parent[Bottom(new_chain)]
  /\ pc \in {"old chain", "select"} => OldWalk
  /\ pc = "select" => ~GoesOn
  /\ Moving => Branches
  /\ pc = "unwind" => Unwinds
  /\ pc \in {"wind", "purge"} => Winds
  /\ pc = "verdict" => IF verdict THEN last_block.id # 0 ELSE Tip = latest
  /\ pc = "success" => last_block.id # 0

\* A block that failed has left the tip where it was.
RestoreInv == (Settled /\ adding # NoHash /\ adding \notin blocks) => Tip = latest

ReorgInv ==
  /\ CoreInv /\ StartInv /\ PurgeInv /\ WaitInv /\ AddingInv /\ PhaseInv /\ RestoreInv

-----------------------------------------------------------------------------
(* Where nothing moves.                                                    *)

\* No reorganisation is under way, and none has just failed.
Rests == ~Moving /\ ~(pc = "verdict" /\ ~verdict)

\* There the flags are those of the longest chain.
LEMMA AtRest ==
  /\ (Rests /\ PurgeInv) => Kept = blocks /\ Wound = in_longest_chain /\ Unwound = {}
  /\ (Rests /\ PurgeInv)' => Kept' = blocks' /\ Wound' = in_longest_chain' /\ Unwound' = {}
<1>1. (Rests /\ PurgeInv) => Kept = blocks /\ Wound = in_longest_chain /\ Unwound = {}
  BY DEF Rests, PurgeInv, Moving, Kept, Wound, Unwound, FlaggedOnly
<1>2. (Rests /\ PurgeInv)' => Kept' = blocks' /\ Wound' = in_longest_chain' /\ Unwound' = {}
  BY DEF Rests, PurgeInv, Moving, Kept, Wound, Unwound, FlaggedOnly
<1>3. QED
  BY <1>1, <1>2

\* A blank ring has no tip.
LEMMA BlankRing ==
  ASSUME NEW r \in Ring, IsBlank(r)
  PROVE  LatestHash(r) = NoHash /\ LatestId(r) = 0 /\ \A s \in Slots : Entry(r, s) = NoHash
<1>1. \A s \in Slots : r.items[s].hashes \in Seq(Hash) /\ NoPos \notin DOMAIN r.items[s].hashes
  BY ItemType, LenProperties DEF NoPos
<1>2. QED
  BY <1>1 DEF IsBlank, LatestHash, LatestId, Entry, LongestChainEntry

\* The types, in the terms of the lemmas.
LEMMA Types ==
  ASSUME TypeInv
  PROVE  /\ blocks \subseteq Hash /\ in_longest_chain \subseteq Hash /\ purge \subseteq Hash
         /\ blockring \in Ring /\ last_block \in ChainHead /\ genesis_block_id \in Nat
         /\ batch \subseteq Hash /\ blocks_queue \subseteq Hash
         /\ adding \in Hash \cup {NoHash} /\ (~Settled => adding \in Hash)
         /\ latest \in Hash \cup {NoHash}
         /\ new_chain \in Seq(Hash) /\ old_chain \in Seq(Hash)
         /\ cursor \in Hash \cup {NoHash} /\ shared \in Hash \cup {NoHash}
         /\ wind \in WindArguments /\ wind.index \in Nat /\ wind.slice \in Nat
         /\ pc = "purge" => wind.index # 0
         /\ Kept \subseteq Hash /\ last_block.id \in Nat
<1>1. wind \in WindArguments
  BY DEF TypeInv, TypeOK
<1>2. wind.index \in Nat /\ wind.slice \in Nat
  BY <1>1 DEF WindArguments
<1>3. last_block \in ChainHead /\ last_block.id \in Nat
  BY DEF TypeInv, TypeOK, ChainHead
<1>4. pc = "purge" => wind.index # 0
  BY DEF TypeInv, WindIsUnderWay
<1>5. ~Settled => adding \in Hash
  BY DEF TypeInv, AddingIsBlock, Settled
<1>6. blocks \subseteq Hash /\ Kept \subseteq Hash
  BY DEF TypeInv, TypeOK, Kept
<1>7. QED
  BY <1>1, <1>2, <1>3, <1>4, <1>5, <1>6 DEF TypeInv, TypeOK

\* The head is the tip once it is on the chain, or when there is no chain.
LEMMA HeadOnChain ==
  ASSUME TypeInv, CoreInv, StartInv, last_block.hash \in Wound \/ last_block.id = 0
  PROVE  last_block.id = LatestId(blockring) /\ last_block.hash = LatestHash(blockring)
<1>1. CASE last_block.hash \in Wound
  BY <1>1 DEF CoreInv, Core
<1>2. CASE last_block.id = 0
  <2>1. last_block.hash = NoHash /\ IsBlank(blockring) /\ blockring \in Ring
    BY <1>2, Types DEF StartInv
  <2>2. QED
    BY <1>2, <2>1, BlankRing
<1>3. QED
  BY <1>1, <1>2

\* BlockRing::empty is no part of what the ring says.
LEMMA NotEmptyAnyMore ==
  ASSUME NEW r \in Ring, NEW q, q = r \/ q = [r EXCEPT !.empty = FALSE]
  PROVE  /\ \A s \in Slots : Entry(q, s) = Entry(r, s)
         /\ LatestHash(q) = LatestHash(r) /\ LatestId(q) = LatestId(r)
         /\ IsBlank(q) <=> IsBlank(r)
         /\ q.empty => r.empty
<1>1. q.items = r.items /\ q.lc_pos = r.lc_pos /\ (q.empty => r.empty)
  BY DEF Ring
<1>2. QED
  BY <1>1 DEF Entry, LatestHash, LatestId, IsBlank

\* The core depends on what is kept, wound and unwound, on the entries and the head.
LEMMA CoreFrame ==
  ASSUME TypeInv, CoreInv, UNCHANGED <<Kept, Wound, Unwound, last_block, genesis_block_id>>,
         \A s \in Slots : Entry(blockring', s) = Entry(blockring, s),
         LatestHash(blockring') = LatestHash(blockring), LatestId(blockring') = LatestId(blockring),
         ~Moving' => ~Moving \/ (last_block.id = LatestId(blockring) /\ last_block.hash = LatestHash(blockring))
  PROVE  CoreInv'
<1>1. Core(Kept, Wound, Unwound, blockring, last_block, genesis_block_id)
  BY DEF CoreInv
<1>2. Kept \in SUBSET Hash
  BY Types
<1>3. Core(Kept, Wound, Unwound, blockring', last_block, genesis_block_id)
  BY <1>1, <1>2, CoreOfEntries
<1>4. QED
  BY <1>3 DEF CoreInv

\* A step that touches neither the blocks nor the chain.
Quiet ==
  /\ UNCHANGED <<blocks, in_longest_chain, purge, last_block, genesis_block_id, adding>>
  /\ blockring' = blockring \/ blockring' = [blockring EXCEPT !.empty = FALSE]
  /\ Rests /\ Rests'
  /\ Settled' \/ ~Settled
  /\ last_block.id = 0 =>
       UNCHANGED <<latest, blockring>> /\ (Settled' <=> Settled) /\ pc \in Early

LEMMA QuietKeeps ==
  ASSUME TypeInv, ReorgInv, Quiet
  PROVE  CoreInv' /\ PurgeInv' /\ AddingInv' /\ StartInv'
<1>1. CoreInv /\ StartInv /\ PurgeInv /\ AddingInv
  BY DEF ReorgInv
<1>2. blockring \in Ring
  BY Types
<1>3. /\ \A s \in Slots : Entry(blockring', s) = Entry(blockring, s)
      /\ LatestHash(blockring') = LatestHash(blockring) /\ LatestId(blockring') = LatestId(blockring)
      /\ IsBlank(blockring') <=> IsBlank(blockring)
      /\ blockring'.empty => blockring.empty
  BY <1>2, NotEmptyAnyMore DEF Quiet
<1>4. ~Moving /\ ~Moving' /\ Rests /\ Rests'
  BY DEF Quiet, Rests
<1>5. purge = {} /\ purge' = {} /\ Kept = blocks /\ Wound = in_longest_chain /\ Unwound = {}
  BY <1>1, <1>4, AtRest DEF Quiet, PurgeInv, Moving
<1>6. PurgeInv'
  BY <1>5 DEF PurgeInv
<1>7. Kept' = blocks' /\ Wound' = in_longest_chain' /\ Unwound' = {}
  BY <1>4, <1>6, AtRest
<1>8. UNCHANGED <<Kept, Wound, Unwound, last_block, genesis_block_id>>
  BY <1>5, <1>7 DEF Quiet
<1>9. CoreInv'
  BY <1>1, <1>3, <1>4, <1>8, CoreFrame
<1>10. AddingInv'
  BY <1>1, <1>8 DEF AddingInv, Quiet
<1>11. StartInv'
  <2>1. last_block' = last_block /\ genesis_block_id' = genesis_block_id /\ blocks' = blocks /\ adding' = adding
    BY DEF Quiet
  <2>2. blockring'.empty => last_block'.id = 0 /\ ~Moving'
    BY <1>1, <1>3, <1>4, <2>1 DEF StartInv
  <2>3. ASSUME last_block.id = 0
        PROVE  /\ last_block.hash = NoHash
               /\ IsBlank(blockring')
               /\ genesis_block_id = 0
               /\ blocks \subseteq (IF Settled' THEN {} ELSE {adding})
               /\ ~Settled' => latest' = NoHash
               /\ blockring'.empty
    BY <1>1, <1>3, <2>3 DEF StartInv, Quiet
  <2>4. QED
    BY <2>1, <2>2, <2>3 DEF StartInv
<1>12. QED
  BY <1>6, <1>9, <1>10, <1>11

\* A quiet step disturbs what waits and what is under way, at most.
LEMMA QuietStep ==
  ASSUME TypeInv, ReorgInv, Quiet, WaitInv', PhaseInv', RestoreInv'
  PROVE  ReorgInv'
BY QuietKeeps DEF ReorgInv

\* Between two calls of add_block nothing is under way.
LEMMA SettledPhase ==
  /\ Settled => PhaseInv /\ Rests
  /\ Settled' => PhaseInv' /\ Rests'
BY DEF Settled, PhaseInv, Rests, Moving

LEMMA InitReorg == Init => ReorgInv
<1> SUFFICES ASSUME Init PROVE ReorgInv
  OBVIOUS
<1>1. /\ blocks = {} /\ in_longest_chain = {} /\ purge = {} /\ pc = "idle"
      /\ blockring = NewRing /\ last_block = NoHead /\ genesis_block_id = 0
      /\ loaded /\ waiting /\ updates = <<>> /\ batch = {} /\ blocks_queue = {} /\ adding = NoHash
  BY DEF Init
<1>2. Settled /\ ~Moving /\ PurgeInv
  BY <1>1 DEF Settled, Moving, PurgeInv
<1>3. Kept = {} /\ Wound = {} /\ Unwound = {}
  BY <1>1, <1>2, AtRest, SettledPhase
<1>4. IsBlank(NewRing) /\ NewRing \in Ring /\ LatestHash(NewRing) = NoHash /\ LatestId(NewRing) = 0
  <2>1. IsBlank(NewRing)
    BY DEF IsBlank, NewRing
  <2>2. QED
    BY <2>1, NewRingHolds, BlankRing
<1>5. CoreInv
  <2>1. last_block.id = 0 /\ last_block.hash = NoHash
    BY <1>1 DEF NoHead
  <2>2. Core({}, {}, {}, NewRing, last_block, 0)
    BY <1>4, <2>1 DEF Core, IsPath, IsNoted, IsCovered, IsGrounded
  <2>3. QED
    BY <1>1, <1>3, <1>4, <2>1, <2>2 DEF CoreInv
<1>6. StartInv
  BY <1>1, <1>2, <1>4 DEF StartInv, NoHead, NewRing
<1>7. WaitInv
  BY <1>1 DEF WaitInv
<1>8. QED
  BY <1>1, <1>2, <1>5, <1>6, <1>7, SettledPhase DEF ReorgInv, AddingInv, RestoreInv

\* Nothing changes.
LEMMA SameReorg == ReorgInv /\ UNCHANGED vars => ReorgInv'
<1> SUFFICES ASSUME ReorgInv, UNCHANGED vars
             PROVE  ReorgInv'
  OBVIOUS
<1> USE DEF vars, blockVars, nodeVars, callVars, chainVars, headVars
<1>1. UNCHANGED <<Moving, Settled, FlaggedOnly, Kept, Tip>>
  BY DEF Moving, Settled, FlaggedOnly, Kept, Tip
<1>2. Wound' = Wound
  BY <1>1 DEF Wound
<1>3. Unwound' = Unwound
  BY <1>1, <1>2 DEF Unwound
<1>4. CoreInv'
  BY <1>1, <1>2, <1>3 DEF ReorgInv, CoreInv
<1>5. StartInv' /\ PurgeInv' /\ WaitInv' /\ AddingInv' /\ RestoreInv'
  BY <1>1, <1>2 DEF ReorgInv, StartInv, PurgeInv, WaitInv, AddingInv, RestoreInv
<1>6. PhaseInv'
  <2>1. UNCHANGED <<NewWalk, OldWalk, Branches, CatchesUp, GoesOn, Rest>>
    BY <1>1, <1>2 DEF NewWalk, OldWalk, Branches, CatchesUp, StartsAtEdge, GoesOn, Rest
  <2>2. UNCHANGED <<Unwinds, Winds>>
    BY <1>1, <1>2, <2>1 DEF Unwinds, Winds
  <2>3. QED
    BY <1>1, <2>1, <2>2 DEF ReorgInv, PhaseInv
<1>7. QED
  BY <1>4, <1>5, <1>6 DEF ReorgInv

\* A block arrives.
LEMMA ReceiveReorg ==
  ASSUME TypeInv, ReorgInv, NEW h \in Hash, ReceiveBlock(h) \/ IgnoreBlock(h)
  PROVE  ReorgInv'
<1>1. CASE IgnoreBlock(h)
  <2>1. UNCHANGED vars
    BY <1>1 DEF IgnoreBlock
  <2>2. QED
    BY <2>1, SameReorg
<1>2. CASE ReceiveBlock(h)
  <2>1. /\ UNCHANGED <<blocks, in_longest_chain, purge, last_block, genesis_block_id, adding, latest, blockring>>
        /\ UNCHANGED <<loaded, waiting, updates>>
        /\ pc = "idle" /\ pc' = "batch" /\ batch' = blocks_queue \cup {h} /\ blocks_queue' = {}
        /\ waiting => h \in FirstBlock
    BY <1>2 DEF ReceiveBlock, StartBatch, blockVars, headVars
  <2>2. Settled /\ Settled' /\ pc \in Early
    BY <2>1 DEF Settled, Early
  <2>3. Quiet
    BY <2>1, <2>2, SettledPhase DEF Quiet
  <2>4. WaitInv'
    BY <2>1 DEF ReorgInv, WaitInv
  <2>5. RestoreInv'
    BY <2>1, <2>2 DEF ReorgInv, RestoreInv, Tip
  <2>6. QED
    BY <2>2, <2>3, <2>4, <2>5, SettledPhase, QuietStep
<1>3. QED
  BY <1>1, <1>2

\* A block of the batch is put aside.
LEMMA BatchReorg ==
  ASSUME TypeInv, ReorgInv, NEW h \in batch, Refuse(h) \/ Postpone(h)
  PROVE  ReorgInv'
<1>1. /\ UNCHANGED <<blocks, in_longest_chain, purge, last_block, genesis_block_id, adding, latest, blockring>>
      /\ UNCHANGED <<loaded, waiting, updates>>
      /\ pc = "batch" /\ pc' = "batch"
      /\ batch' \subseteq batch /\ blocks_queue' \subseteq blocks_queue \cup {h}
  BY DEF Refuse, Postpone, BackToQueue, blockVars, headVars, nodeVars, callVars
<1>2. Settled /\ Settled' /\ pc \in Early
  BY <1>1 DEF Settled, Early
<1>3. Quiet
  BY <1>1, <1>2, SettledPhase DEF Quiet
<1>4. WaitInv'
  BY <1>1 DEF ReorgInv, WaitInv
<1>5. RestoreInv'
  BY <1>1, <1>2 DEF ReorgInv, RestoreInv, Tip
<1>6. QED
  BY <1>2, <1>3, <1>4, <1>5, SettledPhase, QuietStep

\* The batch is done.
LEMMA EndBatchReorg ==
  ASSUME TypeInv, ReorgInv, EndBatch
  PROVE  ReorgInv'
<1>1. /\ UNCHANGED <<blocks, in_longest_chain, purge, last_block, genesis_block_id, adding, latest, blockring>>
      /\ UNCHANGED <<updates, batch>>
      /\ pc = "batch" /\ pc' = "idle"
  BY DEF EndBatch, blockVars, headVars, callVars
<1>2. loaded
  BY DEF ReorgInv, WaitInv
<1>3. UNCHANGED <<loaded, waiting, blocks_queue>>
  BY <1>2 DEF EndBatch
<1>4. Settled /\ Settled' /\ pc \in Early
  BY <1>1 DEF Settled, Early
<1>5. Quiet
  BY <1>1, <1>4, SettledPhase DEF Quiet
<1>6. WaitInv'
  BY <1>1, <1>3 DEF ReorgInv, WaitInv
<1>7. RestoreInv'
  BY <1>1, <1>4 DEF ReorgInv, RestoreInv, Tip
<1>8. QED
  BY <1>4, <1>5, <1>6, <1>7, SettledPhase, QuietStep

\* What waits is left alone while the chain is dealt with.
LEMMA WaitFrame ==
  WaitInv /\ UNCHANGED <<loaded, waiting, updates, blocks, batch, blocks_queue, genesis_block_id, last_block>>
    => WaitInv'
BY DEF WaitInv

\* A block joins the new chain.
LEMMA ExtendNewReorg ==
  ASSUME TypeInv, ReorgInv, BlocksFollowParents, ExtendNewChain
  PROVE  ReorgInv'
<1>1. /\ UNCHANGED <<blocks, in_longest_chain, purge, last_block, genesis_block_id, adding, latest, blockring>>
      /\ UNCHANGED <<loaded, waiting, updates, batch, blocks_queue, old_chain, shared>>
      /\ pc = "new chain" /\ pc' = "new chain"
      /\ cursor \in blocks \ in_longest_chain
      /\ new_chain' = Append(new_chain, cursor) /\ cursor' = Parent[cursor]
  BY DEF ExtendNewChain, blockVars, headVars, nodeVars, callVars
<1>2. ~Settled /\ ~Settled' /\ pc \in Early /\ Rests /\ Rests'
  BY <1>1 DEF Settled, Early, Rests, Moving
<1>3. Quiet
  BY <1>1, <1>2 DEF Quiet
<1>4. WaitInv'
  BY <1>1, WaitFrame DEF ReorgInv
<1>5. RestoreInv'
  BY <1>2 DEF RestoreInv
<1>6. /\ NewWalk /\ old_chain = <<>> /\ shared = NoHash
      /\ IF new_chain = <<>> THEN cursor = adding ELSE cursor = Parent[Bottom(new_chain)]
  BY <1>1 DEF ReorgInv, PhaseInv
<1>7. new_chain \in Seq(Hash) /\ cursor \in Hash
  BY <1>1, Types
<1>8. /\ IsBranch(new_chain') /\ Bottom(new_chain') = cursor /\ new_chain' # <<>>
      /\ InChain(new_chain') = InChain(new_chain) \cup {cursor}
      /\ new_chain'[1] = IF new_chain = <<>> THEN cursor ELSE new_chain[1]
  BY <1>1, <1>6, <1>7, BranchGrows DEF NewWalk
<1>9. NewWalk'
  <2>1. adding' \notin in_longest_chain' /\ latest' = Tip'
    BY <1>1, <1>6 DEF NewWalk, Tip
  <2>2. InChain(new_chain') \subseteq blocks' \ in_longest_chain'
    BY <1>1, <1>6, <1>8 DEF NewWalk
  <2>3. new_chain'[1] = adding'
    BY <1>1, <1>6, <1>8 DEF NewWalk
  <2>4. QED
    BY <1>8, <2>1, <2>2, <2>3 DEF NewWalk
<1>10. PhaseInv'
  <2>1. pc' = "new chain"
    BY <1>1
  <2>2. old_chain' = <<>> /\ shared' = NoHash /\ new_chain' # <<>> /\ cursor' = Parent[Bottom(new_chain')]
    BY <1>1, <1>6, <1>8
  <2>3. QED
    BY <1>9, <2>1, <2>2 DEF PhaseInv, Moving
<1>11. QED
  BY <1>3, <1>4, <1>5, <1>10, QuietStep

\* The core, where nothing moves.
LEMMA RestCore ==
  ASSUME TypeInv, ReorgInv, Rests
  PROVE  /\ Core(blocks, in_longest_chain, {}, blockring, last_block, genesis_block_id)
         /\ last_block.id = LatestId(blockring) /\ last_block.hash = Tip
         /\ IsPath(blocks, in_longest_chain, Tip)
         /\ purge = {} /\ Kept = blocks /\ Wound = in_longest_chain /\ Unwound = {}
<1>1. CoreInv /\ PurgeInv /\ ~Moving
  BY DEF ReorgInv, Rests
<1>2. purge = {} /\ Kept = blocks /\ Wound = in_longest_chain /\ Unwound = {}
  BY <1>1, AtRest DEF PurgeInv, Moving
<1>3. QED
  BY <1>1, <1>2 DEF CoreInv, Core, Tip

\* The new block is not purged, and nothing was built on it.
LEMMA NewBlockIsKept ==
  ASSUME ReorgInv, ~Settled
  PROVE  adding \in Kept /\ \A b \in Kept : Parent[b] # adding
BY DEF ReorgInv, AddingInv

LEMMA NewWalkFrame ==
  NewWalk /\ UNCHANGED <<adding, in_longest_chain, latest, Tip, new_chain, blocks>> => NewWalk'
BY DEF NewWalk

\* The new chain has met the longest chain.
LEMMA FindReorg ==
  ASSUME TypeInv, ReorgInv, FindSharedAncestor
  PROVE  ReorgInv'
<1>1. /\ UNCHANGED <<blocks, in_longest_chain, purge, last_block, genesis_block_id, adding, latest, blockring>>
      /\ UNCHANGED <<loaded, waiting, updates, batch, blocks_queue, old_chain, new_chain>>
      /\ pc = "new chain" /\ pc' = "old chain"
      /\ cursor \in blocks \cap in_longest_chain
      /\ shared' = cursor /\ cursor' = latest
  BY DEF FindSharedAncestor, blockVars, headVars, nodeVars, callVars
<1>2. ~Settled /\ ~Settled' /\ pc \in Early /\ Rests /\ Rests'
  BY <1>1 DEF Settled, Early, Rests, Moving
<1>3. Quiet
  BY <1>1, <1>2 DEF Quiet
<1>4. WaitInv'
  BY <1>1, WaitFrame DEF ReorgInv
<1>5. RestoreInv'
  BY <1>2 DEF RestoreInv
<1>6. /\ NewWalk /\ old_chain = <<>>
      /\ IF new_chain = <<>> THEN cursor = adding ELSE cursor = Parent[Bottom(new_chain)]
  BY <1>1 DEF ReorgInv, PhaseInv
<1>7. NewWalk'
  BY <1>1, <1>6, NewWalkFrame DEF Tip
<1>8. new_chain # <<>> /\ Parent[Bottom(new_chain)] = cursor
  BY <1>1, <1>6 DEF NewWalk
<1>9. OldWalk'
  BY <1>1, <1>6, <1>7, <1>8, EmptyBranch DEF OldWalk
<1>10. PhaseInv'
  BY <1>1, <1>9 DEF PhaseInv, Moving
<1>11. QED
  BY <1>3, <1>4, <1>5, <1>10, QuietStep

\* A block joins the old chain: it is one of the longest chain.
LEMMA ExtendOldReorg ==
  ASSUME TypeInv, ReorgInv, BlocksFollowParents, ExtendOldChain
  PROVE  ReorgInv'
<1>1. /\ UNCHANGED <<blocks, in_longest_chain, purge, last_block, genesis_block_id, adding, latest, blockring>>
      /\ UNCHANGED <<loaded, waiting, updates, batch, blocks_queue, new_chain, shared>>
      /\ pc = "old chain" /\ pc' = "old chain" /\ GoesOn
      /\ old_chain' = Append(old_chain, cursor) /\ cursor' = Parent[cursor]
  BY DEF ExtendOldChain, blockVars, headVars, nodeVars, callVars
<1>2. ~Settled /\ ~Settled' /\ pc \in Early /\ Rests /\ Rests'
  BY <1>1 DEF Settled, Early, Rests, Moving
<1>3. Quiet
  BY <1>1, <1>2 DEF Quiet
<1>4. WaitInv'
  BY <1>1, WaitFrame DEF ReorgInv
<1>5. RestoreInv'
  BY <1>2 DEF RestoreInv
<1>6. OldWalk
  BY <1>1 DEF ReorgInv, PhaseInv
<1>7. old_chain \in Seq(Hash) /\ blocks \subseteq Hash /\ cursor \in blocks /\ cursor \in Hash /\ cursor # NoHash
  BY <1>1, Types, BlockType DEF GoesOn
<1>8. cursor # shared
  BY <1>1, <1>7 DEF GoesOn
<1>9. cursor \in in_longest_chain
  <2>1. IsPath(blocks, in_longest_chain, Tip)
    BY <1>2, RestCore
  <2>2. CASE old_chain = <<>>
    BY <1>6, <1>7, <2>1, <2>2 DEF OldWalk, NewWalk, IsPath
  <2>3. CASE old_chain # <<>>
    <3>1. Bottom(old_chain) \in in_longest_chain /\ cursor = Parent[Bottom(old_chain)]
      BY <1>6, <1>7, <2>3, ChainBlocks DEF OldWalk
    <3>2. QED
      BY <1>7, <2>1, <3>1 DEF IsPath
  <2>4. QED
    BY <2>2, <2>3
<1>10. /\ IsBranch(old_chain') /\ Bottom(old_chain') = cursor /\ old_chain' # <<>>
       /\ InChain(old_chain') = InChain(old_chain) \cup {cursor}
       /\ old_chain'[1] = IF old_chain = <<>> THEN cursor ELSE old_chain[1]
  BY <1>1, <1>6, <1>7, BranchGrows DEF OldWalk
<1>11. OldWalk'
  <2>1. NewWalk'
    BY <1>1, <1>6, NewWalkFrame DEF OldWalk, Tip
  <2>2. InChain(old_chain') \subseteq in_longest_chain' /\ shared' \notin InChain(old_chain')
    BY <1>1, <1>6, <1>8, <1>9, <1>10 DEF OldWalk
  <2>3. old_chain'[1] = latest' /\ cursor' = Parent[Bottom(old_chain')]
    BY <1>1, <1>6, <1>10 DEF OldWalk
  <2>4. QED
    BY <1>1, <1>6, <1>10, <2>1, <2>2, <2>3 DEF OldWalk
<1>12. PhaseInv'
  BY <1>1, <1>11 DEF PhaseInv, Moving
<1>13. QED
  BY <1>3, <1>4, <1>5, <1>12, QuietStep

\* The walk down the old chain ends.
LEMMA EndOldReorg ==
  ASSUME TypeInv, ReorgInv, EndOldChain
  PROVE  ReorgInv'
<1>1. /\ UNCHANGED <<blocks, in_longest_chain, purge, last_block, genesis_block_id, adding, latest, blockring>>
      /\ UNCHANGED <<loaded, waiting, updates, batch, blocks_queue, new_chain, old_chain, shared, cursor>>
      /\ pc = "old chain" /\ pc' = "select" /\ ~GoesOn
  BY DEF EndOldChain, blockVars, headVars, nodeVars, callVars, chainVars
<1>2. ~Settled /\ ~Settled' /\ pc \in Early /\ Rests /\ Rests'
  BY <1>1 DEF Settled, Early, Rests, Moving
<1>3. Quiet
  BY <1>1, <1>2 DEF Quiet
<1>4. WaitInv'
  BY <1>1, WaitFrame DEF ReorgInv
<1>5. RestoreInv'
  BY <1>2 DEF RestoreInv
<1>6. OldWalk
  BY <1>1 DEF ReorgInv, PhaseInv
<1>7. OldWalk' /\ ~GoesOn'
  BY <1>1, <1>6 DEF OldWalk, NewWalk, GoesOn, Tip
<1>8. PhaseInv'
  BY <1>1, <1>7 DEF PhaseInv, Moving
<1>9. QED
  BY <1>3, <1>4, <1>5, <1>8, QuietStep

\* A block that makes no longer chain: there is a chain already.
LEMMA SelectOtherReorg ==
  ASSUME TypeInv, ReorgInv, SelectOther
  PROVE  ReorgInv'
<1>1. /\ UNCHANGED <<blocks, in_longest_chain, purge, last_block, genesis_block_id, adding, latest>>
      /\ UNCHANGED <<loaded, waiting, updates, batch, blocks_queue>>
      /\ blockring' = [blockring EXCEPT !.empty = FALSE]
      /\ pc = "select" /\ pc' = "success" /\ ~IsLongest
  BY DEF SelectOther, blockVars, headVars, nodeVars, callVars, chainVars
<1>2. ~Settled /\ ~Settled' /\ pc \in Early /\ Rests /\ Rests'
  BY <1>1 DEF Settled, Early, Rests, Moving
<1>3. last_block.id # 0
  <2>1. SUFFICES ASSUME last_block.id = 0
                 PROVE  IsLongest
    BY <1>1
  <2>2. blockring.empty /\ LatestId(blockring) = 0
    BY <1>2, <2>1, RestCore DEF ReorgInv, StartInv
  <2>3. Monus(0, GenesisPeriod) = 0
    BY RingAssumption DEF Monus
  <2>4. Id[adding] > 0
    BY <1>2, Types, BlockType
  <2>5. QED
    BY <2>2, <2>3, <2>4 DEF IsLongest, IsNewChainTheLongest, InWindow
<1>4. Quiet
  BY <1>1, <1>2, <1>3 DEF Quiet
<1>5. WaitInv'
  BY <1>1, WaitFrame DEF ReorgInv
<1>6. RestoreInv'
  BY <1>2 DEF RestoreInv
<1>7. PhaseInv'
  BY <1>1, <1>3 DEF PhaseInv, Moving
<1>8. QED
  BY <1>4, <1>5, <1>6, <1>7, QuietStep

\* The new tip is accepted.
LEMMA AcceptReorg ==
  ASSUME TypeInv, ReorgInv, Accept
  PROVE  ReorgInv'
<1>1. /\ UNCHANGED <<blocks, in_longest_chain, purge, last_block, genesis_block_id, adding, latest, blockring>>
      /\ UNCHANGED <<loaded, waiting, updates, batch, blocks_queue, verdict>>
      /\ pc = "verdict" /\ pc' = "success" /\ verdict
  BY DEF Accept, blockVars, headVars, nodeVars, callVars, chainVars
<1>2. ~Settled /\ ~Settled' /\ Rests /\ Rests'
  BY <1>1 DEF Settled, Rests, Moving
<1>3. last_block.id # 0
  BY <1>1 DEF ReorgInv, PhaseInv
<1>4. Quiet
  BY <1>1, <1>2, <1>3 DEF Quiet
<1>5. WaitInv'
  BY <1>1, WaitFrame DEF ReorgInv
<1>6. RestoreInv'
  BY <1>2 DEF RestoreInv
<1>7. PhaseInv'
  BY <1>1, <1>3 DEF PhaseInv, Moving
<1>8. QED
  BY <1>4, <1>5, <1>6, <1>7, QuietStep

\* add_block is done with the block.
LEMMA SucceedReorg ==
  ASSUME TypeInv, ReorgInv, Succeed
  PROVE  ReorgInv'
<1>1. /\ UNCHANGED <<blocks, in_longest_chain, purge, last_block, genesis_block_id, adding, latest, blockring>>
      /\ UNCHANGED <<loaded, waiting, batch, blocks_queue>>
      /\ pc = "success" /\ pc' = "batch"
  BY DEF Succeed, blockVars, headVars, nodeVars, callVars, chainVars
<1>2. ~Settled /\ Settled' /\ Rests /\ Rests'
  BY <1>1 DEF Settled, Rests, Moving
<1>3. last_block.id # 0
  BY <1>1 DEF ReorgInv, PhaseInv
<1>4. Quiet
  BY <1>1, <1>2, <1>3 DEF Quiet
<1>5. WaitInv'
  BY <1>1, <1>3 DEF ReorgInv, WaitInv
<1>6. RestoreInv'
  <2>1. adding \in blocks
    <3>1. adding \in Kept
      BY <1>2, NewBlockIsKept
    <3>2. Kept = blocks
      BY <1>2, RestCore
    <3>3. QED
      BY <3>1, <3>2
  <2>2. QED
    BY <1>1, <2>1 DEF RestoreInv
<1>7. QED
  BY <1>2, <1>4, <1>5, <1>6, SettledPhase, QuietStep

\* The routing thread hears of a block.
LEMMA UpdateReorg ==
  ASSUME TypeInv, ReorgInv, HandleUpdate
  PROVE  ReorgInv'
<1>1. /\ UNCHANGED <<blocks, in_longest_chain, purge, last_block, adding, latest, blockring>>
      /\ UNCHANGED <<loaded, batch, blocks_queue, pc>>
      /\ pc = "idle" /\ updates # <<>>
      /\ genesis_block_id' = IF Head(updates) THEN LatestId(blockring) ELSE genesis_block_id
      /\ waiting' = (waiting /\ ~Head(updates))
  BY DEF HandleUpdate, blockVars, callVars
<1>2. Settled /\ Settled' /\ ~Moving /\ ~Moving' /\ Rests /\ Rests'
  BY <1>1, SettledPhase DEF Settled, Moving
<1>3. /\ Core(blocks, in_longest_chain, {}, blockring, last_block, genesis_block_id)
      /\ last_block.id = LatestId(blockring) /\ last_block.hash = LatestHash(blockring)
      /\ IsPath(blocks, in_longest_chain, LatestHash(blockring))
  BY <1>2, RestCore DEF Tip
<1>4. last_block.id # 0
  BY <1>1 DEF ReorgInv, WaitInv
<1>5. CoreInv'
  <2>1. LatestHash(blockring) # NoHash
    BY <1>3, <1>4 DEF LatestId
  <2>2. LatestHash(blockring) \in in_longest_chain /\ LatestId(blockring) = Id[LatestHash(blockring)]
    BY <1>3, <2>1 DEF IsPath, LatestId
  <2>3. genesis_block_id' = 0 \/ \E c \in in_longest_chain \cup {} : Id[c] = genesis_block_id'
    BY <1>1, <1>3, <2>2 DEF Core
  <2>4. Core(blocks, in_longest_chain, {}, blockring, last_block, genesis_block_id')
    BY <1>3, <2>3 DEF Core
  <2>5. PurgeInv'
    BY <1>1, <1>2, RestCore DEF PurgeInv, Moving
  <2>6. Kept' = blocks' /\ Wound' = in_longest_chain' /\ Unwound' = {}
    BY <1>2, <2>5, AtRest
  <2>7. QED
    BY <1>1, <1>3, <2>4, <2>6 DEF CoreInv
<1>6. PurgeInv'
  BY <1>1, <1>2, RestCore DEF PurgeInv, Moving
<1>7. StartInv'
  BY <1>1, <1>2, <1>4 DEF ReorgInv, StartInv
<1>8. WaitInv'
  BY <1>1, <1>3, <1>4 DEF ReorgInv, WaitInv
<1>9. QED
  BY <1>1, <1>2, <1>5, <1>6, <1>7, <1>8, SettledPhase DEF ReorgInv, AddingInv, RestoreInv, Tip

\* What the tests of add_block say of the block it takes in: the chain has a block at
\* its height unless it is above the tip, and the block has its parent or needs none.
LEMMA TakenInFits ==
  ASSUME TypeInv, ReorgInv, BlocksFollowParents, PeersAgreeOnStart, NEW h \in batch, TakeIn(h)
  PROVE  /\ h \in Hash /\ h \notin blocks /\ Rests
         /\ last_block.id = 0 => blocks = {}
         /\ Parent[h] \in blocks \/ Id[h] = 1 \/ last_block.id = 0
         /\ Id[h] <= last_block.id => \E w \in in_longest_chain : Id[w] = Id[h]
         /\ Id[h] > last_block.id - RingSize
         /\ Tip = NoHash => IsBlank(blockring)
<1>1. /\ pc = "batch" /\ h \notin blocks /\ ~(Id[h] < genesis_block_id) /\ ~IsOrphan(h)
  BY DEF TakeIn, IsRefused
<1>2. Settled /\ Rests
  BY <1>1, SettledPhase DEF Settled
<1>3. StartInv /\ WaitInv
  BY DEF ReorgInv
<1>4. /\ h \in Hash /\ Id[h] \in Nat /\ Id[h] > 0 /\ genesis_block_id \in Nat /\ last_block.id \in Nat
      /\ blocks \subseteq Hash /\ Tip \in Hash \cup {NoHash}
  BY Types, BlockType, LatestType DEF Tip
<1>5. /\ Core(blocks, in_longest_chain, {}, blockring, last_block, genesis_block_id)
      /\ last_block.id = LatestId(blockring) /\ IsPath(blocks, in_longest_chain, Tip)
  BY <1>2, RestCore
<1>6. in_longest_chain \cup {} = in_longest_chain
  OBVIOUS
<1>7. IsCovered(blocks, in_longest_chain, last_block.id)
  BY <1>5, <1>6 DEF Core
<1>8. last_block.id = 0 => blocks = {}
  BY <1>2, <1>3 DEF StartInv
<1>9. last_block.id # 0 => Tip \in in_longest_chain /\ last_block.id = Id[Tip] /\ Tip # NoHash
  BY <1>5 DEF LatestId, Tip, IsPath
<1>10. Tip = NoHash => IsBlank(blockring)
  BY <1>3, <1>5 DEF LatestId, Tip, StartInv
<1>11. last_block.id = 0 \/ Parent[h] \in blocks \/ Parent[h] = NoHash
  BY <1>1, <1>3 DEF IsOrphan, HasParent, WaitInv, StartInv
<1>12. Parent[h] = NoHash => Id[h] = 1
  BY <1>4 DEF BlocksFollowParents
<1>13. ASSUME Id[h] <= last_block.id
       PROVE  \E w \in in_longest_chain : Id[w] = Id[h]
  <2>1. last_block.id # 0
    BY <1>4, <1>13
  <2>2. CASE Parent[h] \in blocks
    <3>1. Parent[h] \in Hash /\ Id[h] = Id[Parent[h]] + 1 /\ Id[Parent[h]] \in Nat
      BY <1>4, <2>2, BlockType DEF BlocksFollowParents
    <3>2. Id[Parent[h]] <= last_block.id
      BY <1>4, <1>13, <3>1
    <3>3. PICK c \in in_longest_chain : Id[c] = Id[Parent[h]]
      BY <1>7, <2>2, <3>2 DEF IsCovered
    <3>4. Id[c] <= Id[h] /\ Id[h] <= Id[Tip]
      BY <1>9, <1>13, <2>1, <3>1, <3>3
    <3>5. QED
      BY <1>4, <1>5, <3>4, PathIsUnbroken
  <2>3. CASE Parent[h] = NoHash /\ ~waiting
    <3>1. genesis_block_id = 1 /\ Id[h] = 1
      BY <1>1, <1>3, <1>4, <1>12, <2>3 DEF WaitInv
    <3>2. QED
      BY <1>5, <1>6, <3>1 DEF Core
  <2>4. CASE Parent[h] = NoHash /\ waiting
    <3>1. blocks \subseteq FirstBlock /\ h \in FirstBlock
      BY <1>3, <2>4 DEF WaitInv
    <3>2. Tip \in blocks
      BY <1>5, <1>9, <2>1 DEF IsPath
    <3>3. Parent[Tip] = NoHash
      BY <2>4, <3>1, <3>2 DEF PeersAgreeOnStart
    <3>4. Id[Tip] = 1 /\ Id[h] = 1
      BY <1>4, <1>12, <2>4, <3>2, <3>3 DEF BlocksFollowParents
    <3>5. QED
      BY <1>9, <2>1, <3>4
  <2>5. QED
    BY <1>11, <2>1, <2>2, <2>3, <2>4
<1>14. Id[h] > last_block.id - RingSize
  <2>1. CASE Id[h] > last_block.id
    BY <1>4, <2>1, RingSizeType
  <2>2. CASE ~(Id[h] > last_block.id)
    <3>1. Id[h] <= last_block.id
      BY <1>4, <2>2
    <3>2. PICK w \in in_longest_chain : Id[w] = Id[h]
      BY <1>13, <3>1
    <3>3. w \in blocks
      BY <1>5 DEF IsPath
    <3>4. QED
      BY <1>7, <3>2, <3>3 DEF IsCovered
  <2>3. QED
    BY <2>1, <2>2
<1>15. QED
  BY <1>1, <1>2, <1>4, <1>8, <1>10, <1>11, <1>12, <1>13, <1>14

\* add_block takes a block in.
LEMMA TakeInReorg ==
  ASSUME TypeInv, RingIndexesBlocks, ReorgInv, BlocksFollowParents, PeersAgreeOnStart,
         NEW h \in batch, TakeIn(h)
  PROVE  ReorgInv'
<1>1. /\ UNCHANGED <<in_longest_chain, purge, last_block, genesis_block_id>>
      /\ UNCHANGED <<loaded, waiting, updates, blocks_queue>>
      /\ pc = "batch" /\ pc' = "new chain"
      /\ batch' \subseteq batch /\ blocks' = blocks \cup {h}
      /\ blockring' = IF ContainsHash(blockring, h) THEN blockring ELSE AddToRing(blockring, h)
      /\ adding' = h /\ latest' = LatestHash(blockring)
      /\ new_chain' = <<>> /\ old_chain' = <<>> /\ cursor' = h /\ shared' = NoHash
  BY DEF TakeIn, headVars, nodeVars
<1>2. Settled /\ ~Settled' /\ Rests' /\ ~Moving'
  BY <1>1 DEF Settled, Rests, Moving
<1>3. /\ h \in Hash /\ h \notin blocks /\ Rests
      /\ last_block.id = 0 => blocks = {}
      /\ Parent[h] \in blocks \/ Id[h] = 1 \/ last_block.id = 0
      /\ Id[h] <= last_block.id => \E w \in in_longest_chain : Id[w] = Id[h]
      /\ Id[h] > last_block.id - RingSize
      /\ Tip = NoHash => IsBlank(blockring)
  BY TakenInFits
<1>4. blocks \in SUBSET Hash /\ blockring \in Ring /\ last_block \in ChainHead
  BY Types
<1>5. blockring' = AddToRing(blockring, h)
  <2>1. SlotOf(Id[h]) \in Slots
    BY <1>3, BlockType
  <2>2. ~ContainsHash(blockring, h)
    BY <1>3, <2>1 DEF ContainsHash, RingIndexesBlocks
  <2>3. QED
    BY <1>1, <2>2
<1>6. /\ Core(blocks, in_longest_chain, {}, blockring, last_block, genesis_block_id)
      /\ last_block.id = LatestId(blockring) /\ last_block.hash = LatestHash(blockring)
      /\ IsPath(blocks, in_longest_chain, Tip) /\ purge = {}
  BY <1>3, RestCore DEF Tip
<1>7. LatestHash(blockring) = NoHash => blockring.lc_pos = NoSlot
  BY <1>3 DEF Tip, IsBlank
<1>8. /\ Core(blocks \cup {h}, in_longest_chain, {}, blockring', last_block, genesis_block_id)
      /\ LatestHash(blockring') = LatestHash(blockring)
      /\ LatestId(blockring') = LatestId(blockring)
  BY <1>3, <1>4, <1>5, <1>6, <1>7, CoreTakesIn
<1>9. PurgeInv'
  BY <1>1, <1>6 DEF PurgeInv
<1>10. Kept' = blocks \cup {h} /\ Wound' = in_longest_chain /\ Unwound' = {}
  BY <1>1, <1>2, <1>9, AtRest
<1>11. CoreInv'
  BY <1>1, <1>6, <1>8, <1>10 DEF CoreInv
<1>12. AddingInv'
  <2>1. \A b \in blocks : Parent[b] # h
    BY <1>3, <1>4, <1>6, CoreHasNoChild
  <2>2. Parent[h] # h
    BY <1>3, BlockType DEF BlocksFollowParents
  <2>3. QED
    BY <1>1, <1>10, <2>1, <2>2 DEF AddingInv
<1>13. StartInv'
  <2>1. StartInv
    BY DEF ReorgInv
  <2>2. blockring'.empty = blockring.empty
    BY <1>4, <1>5 DEF AddToRing, Ring
  <2>3. IsBlank(blockring) => IsBlank(blockring')
    <3>1. blockring'.lc_pos = blockring.lc_pos
      BY <1>4, <1>5 DEF AddToRing, Ring
    <3>2. \A s \in Slots : blockring'.items[s].lc_pos = blockring.items[s].lc_pos
      BY <1>3, <1>4, <1>5, BlockType, ItemType DEF AddToRing, Ring, RingItem
    <3>3. QED
      BY <3>1, <3>2 DEF IsBlank
  <2>4. IsBlank(blockring) => LatestHash(blockring) = NoHash
    BY <1>4, BlankRing
  <2>5. ASSUME last_block.id = 0
        PROVE  /\ last_block.hash = NoHash /\ IsBlank(blockring') /\ genesis_block_id = 0
               /\ blocks' \subseteq {adding'} /\ latest' = NoHash /\ blockring'.empty
    <3>1. last_block.hash = NoHash /\ IsBlank(blockring) /\ genesis_block_id = 0 /\ blocks = {}
      BY <1>2, <2>1, <2>5 DEF StartInv
    <3>2. blockring.empty
      BY <1>1, <2>1, <2>5 DEF StartInv, Early
    <3>3. QED
      BY <1>1, <2>2, <2>3, <2>4, <3>1, <3>2
  <2>6. blockring'.empty => last_block'.id = 0 /\ ~Moving'
    BY <1>1, <1>2, <2>1, <2>2 DEF StartInv
  <2>7. QED
    BY <1>1, <1>2, <2>5, <2>6 DEF StartInv
<1>14. WaitInv'
  BY <1>1 DEF ReorgInv, WaitInv
<1>15. NewWalk'
  <2>1. h \notin in_longest_chain
    BY <1>3, <1>6 DEF IsPath
  <2>2. latest' = Tip'
    BY <1>1, <1>8 DEF Tip
  <2>3. QED
    BY <1>1, <2>1, <2>2, EmptyBranch DEF NewWalk
<1>16. PhaseInv'
  BY <1>1, <1>15 DEF PhaseInv, Moving
<1>17. RestoreInv'
  BY <1>2 DEF RestoreInv
<1>18. QED
  BY <1>9, <1>11, <1>12, <1>13, <1>14, <1>16, <1>17 DEF ReorgInv

\* The new chain has not met the longest chain; entries above the tip are reset.
LEMMA MissReorg ==
  ASSUME TypeInv, RingIndexesBlocks, ReorgInv, MissSharedAncestor
  PROVE  ReorgInv'
<1> DEFINE gone == IF /\ ~blockring.empty /\ latest # NoHash
                      /\ latest = LatestHash(blockring) /\ InWindow(Id[adding])
                   THEN Disconnected(Id[adding]) ELSE {}
<1>1. /\ UNCHANGED <<blocks, purge, last_block, genesis_block_id, adding, latest>>
      /\ UNCHANGED <<loaded, waiting, updates, batch, blocks_queue, old_chain, new_chain, shared>>
      /\ pc = "new chain" /\ pc' = "old chain"
      /\ cursor \notin blocks /\ cursor' = latest
      /\ blockring' = [blockring EXCEPT !.items =
                         [s \in Slots |-> IF LongestChainEntry(@[s]) \in gone
                                          THEN [@[s] EXCEPT !.lc_pos = NoPos] ELSE @[s]]]
      /\ in_longest_chain' = in_longest_chain \ gone
  BY DEF MissSharedAncestor, headVars, nodeVars, callVars
<1>2. gone \subseteq {h \in Hash : LatestId(blockring) < Id[h]}
  BY DEF Disconnected
<1> HIDE DEF gone
<1>3. ~Settled /\ ~Settled' /\ pc \in Early /\ Rests /\ Rests' /\ ~Moving'
  BY <1>1 DEF Settled, Early, Rests, Moving
<1>4. blocks \in SUBSET Hash /\ blockring \in Ring /\ last_block \in ChainHead
  BY Types
<1>5. /\ Core(blocks, in_longest_chain, {}, blockring, last_block, genesis_block_id)
      /\ last_block.id = LatestId(blockring) /\ last_block.hash = LatestHash(blockring)
      /\ IsPath(blocks, in_longest_chain, Tip) /\ purge = {} /\ Kept = blocks
  BY <1>3, RestCore DEF Tip
<1>6. gone \cap in_longest_chain = {} /\ NoHash \notin gone
  <2>1. ASSUME NEW c \in in_longest_chain
        PROVE  c \notin gone
    <3>1. c \in Hash /\ Id[c] <= Id[Tip] /\ Tip \in in_longest_chain /\ Tip \in Hash
      BY <1>4, <1>5, <2>1, BlockType DEF IsPath
    <3>2. LatestId(blockring) = Id[Tip]
      BY <3>1, BlockType DEF LatestId, Tip
    <3>3. Id[c] \in Nat /\ Id[Tip] \in Nat
      BY <3>1, BlockType
    <3>4. QED
      BY <1>2, <3>1, <3>2, <3>3
  <2>2. QED
    BY <1>2, <2>1, BlockType
<1>7. in_longest_chain' = in_longest_chain
  BY <1>1, <1>6
<1>8. /\ blockring'.lc_pos = blockring.lc_pos /\ blockring'.empty = blockring.empty
      /\ \A s \in Slots : blockring'.items[s] = IF LongestChainEntry(blockring.items[s]) \in gone
                                                THEN [blockring.items[s] EXCEPT !.lc_pos = NoPos]
                                                ELSE blockring.items[s]
  BY <1>1, <1>4 DEF Ring
<1>9. \A s \in Slots : Entry(blockring', s) = IF Entry(blockring, s) \in gone THEN NoHash ELSE Entry(blockring, s)
  <2>1. ASSUME NEW s \in Slots, LongestChainEntry(blockring.items[s]) \in gone
        PROVE  Entry(blockring', s) = NoHash
    <3>1. blockring'.items[s] = [blockring.items[s] EXCEPT !.lc_pos = NoPos]
      BY <1>8, <2>1
    <3>2. /\ blockring.items[s] \in RingItem /\ blockring.items[s].hashes \in Seq(Hash)
      BY <1>4, ItemType
    <3>3. blockring'.items[s].lc_pos = NoPos /\ blockring'.items[s].hashes = blockring.items[s].hashes
      BY <3>1, <3>2 DEF RingItem
    <3>4. NoPos \notin DOMAIN blockring.items[s].hashes
      BY <3>2, LenProperties DEF NoPos
    <3>5. QED
      BY <3>3, <3>4 DEF Entry, LongestChainEntry
  <2>2. QED
    BY <1>8, <2>1 DEF Entry
<1>10. /\ Core(blocks, in_longest_chain, {}, blockring', last_block, genesis_block_id)
       /\ LatestHash(blockring') = LatestHash(blockring)
       /\ LatestId(blockring') = LatestId(blockring)
  BY <1>4, <1>5, <1>6, <1>8, <1>9, IndexHolds, CoreDisconnects
<1>11. PurgeInv'
  BY <1>1, <1>5 DEF PurgeInv
<1>12. Kept' = blocks /\ Wound' = in_longest_chain /\ Unwound' = {}
  BY <1>1, <1>3, <1>7, <1>11, AtRest
<1>13. CoreInv'
  BY <1>1, <1>5, <1>10, <1>12 DEF CoreInv
<1>14. AddingInv'
  BY <1>1, <1>3, <1>5, <1>12, NewBlockIsKept DEF AddingInv
<1>15. StartInv'
  <2>1. StartInv
    BY DEF ReorgInv
  <2>2. IsBlank(blockring) => IsBlank(blockring')
    <3>1. ASSUME NEW s \in Slots, IsBlank(blockring)
          PROVE  blockring'.items[s].lc_pos = NoPos
      BY <1>4, <1>8, <3>1, ItemType DEF IsBlank, RingItem
    <3>2. QED
      BY <1>8, <3>1 DEF IsBlank
  <2>3. blockring'.empty => last_block'.id = 0 /\ ~Moving'
    BY <1>1, <1>3, <1>8, <2>1 DEF StartInv
  <2>4. ASSUME last_block.id = 0
        PROVE  /\ last_block.hash = NoHash /\ IsBlank(blockring') /\ genesis_block_id = 0
               /\ blocks \subseteq {adding} /\ latest = NoHash /\ blockring'.empty
    BY <1>3, <1>8, <2>1, <2>2, <2>4 DEF StartInv
  <2>5. QED
    BY <1>1, <1>3, <2>3, <2>4 DEF StartInv
<1>16. WaitInv'
  BY <1>1, WaitFrame DEF ReorgInv
<1>17. /\ NewWalk /\ old_chain = <<>> /\ shared = NoHash
       /\ IF new_chain = <<>> THEN cursor = adding ELSE cursor = Parent[Bottom(new_chain)]
  BY <1>1 DEF ReorgInv, PhaseInv
<1>18. OldWalk'
  <2>1. NewWalk'
    BY <1>1, <1>7, <1>10, <1>17, NewWalkFrame DEF Tip
  <2>2. new_chain # <<>> /\ Parent[Bottom(new_chain)] \notin blocks
    BY <1>1, <1>3, <1>5, <1>17, NewBlockIsKept
  <2>3. QED
    BY <1>1, <1>17, <2>1, <2>2, EmptyBranch, Types, BlockType DEF OldWalk
<1>19. PhaseInv'
  BY <1>1, <1>18 DEF PhaseInv, Moving
<1>20. RestoreInv'
  BY <1>3 DEF RestoreInv
<1>21. QED
  BY <1>11, <1>13, <1>14, <1>15, <1>16, <1>19, <1>20 DEF ReorgInv

\* The two chains when the new one is chosen and there is a chain to unwind.
LEMMA ChosenAgainstOld ==
  ASSUME TypeInv, ReorgInv, BlocksFollowParents, pc = "select", IsLongest, old_chain # <<>>
  PROVE  /\ last_block.id # 0 /\ last_block.id < Id[adding]
         /\ shared # NoHash => Parent[Bottom(old_chain)] = shared
         /\ shared = NoHash => StartsAtEdge
<1>1. Rests /\ StartInv /\ OldWalk /\ ~GoesOn /\ NewWalk
  BY DEF ReorgInv, PhaseInv, Rests, Moving, OldWalk
<1>2. /\ Core(blocks, in_longest_chain, {}, blockring, last_block, genesis_block_id)
      /\ last_block.id = LatestId(blockring) /\ IsPath(blocks, in_longest_chain, Tip)
  BY <1>1, RestCore
<1>3. /\ blocks \in SUBSET Hash /\ old_chain \in Seq(Hash) /\ new_chain \in Seq(Hash)
      /\ last_block.id \in Nat /\ Len(old_chain) \in Nat /\ Len(new_chain) \in Nat
  BY Types, LenProperties
<1>4. in_longest_chain \cup {} = in_longest_chain
  OBVIOUS
<1>5. IsCovered(blocks, in_longest_chain, last_block.id) /\ IsGrounded(blocks, in_longest_chain, last_block.id)
  BY <1>2, <1>4 DEF Core
<1>6. /\ old_chain[1] \in in_longest_chain /\ Bottom(old_chain) \in in_longest_chain
      /\ old_chain[1] = latest /\ latest = Tip /\ cursor = Parent[Bottom(old_chain)]
      /\ InChain(old_chain) \subseteq in_longest_chain
  BY <1>1, <1>3, ChainBlocks DEF OldWalk, NewWalk
<1>7. Tip \in Hash /\ Tip # NoHash /\ last_block.id = Id[Tip] /\ last_block.id # 0
  <2>1. Tip \in Hash
    BY <1>2, <1>3, <1>6 DEF IsPath
  <2>2. QED
    BY <1>2, <2>1, BlockType DEF LatestId, Tip
<1>8. ~blockring.empty
  BY <1>1, <1>7 DEF StartInv
<1>9. last_block.id < Id[adding] /\ Len(old_chain) < Len(new_chain)
  BY <1>2, <1>8 DEF IsLongest, IsNewChainTheLongest
<1>10. ASSUME NEW v \in in_longest_chain, v \notin InChain(old_chain)
       PROVE  cursor \in blocks
  <2>1. Parent[Bottom(old_chain)] \in in_longest_chain
    BY <1>1, <1>2, <1>3, <1>6, <1>10, OldChainIsTop DEF OldWalk
  <2>2. QED
    BY <1>2, <1>6, <2>1 DEF IsPath
<1>11. ASSUME shared # NoHash
       PROVE  Parent[Bottom(old_chain)] = shared
  <2>1. cursor \in blocks
    BY <1>1, <1>10, <1>11 DEF OldWalk
  <2>2. QED
    BY <1>1, <1>6, <1>11, <2>1 DEF GoesOn
<1>12. ASSUME shared = NoHash
       PROVE  StartsAtEdge
  <2> DEFINE b == Bottom(new_chain)
  <2>1. b \in blocks /\ b \notin in_longest_chain /\ b \in Hash /\ Id[b] \in Nat
    BY <1>1, <1>3, ChainBlocks, BlockType DEF OldWalk, NewWalk
  <2>2. Parent[b] \notin blocks
    BY <1>1, <1>3, <1>12, BlockType DEF OldWalk
  <2>3. cursor \notin blocks
    BY <1>1, <1>3, <1>9, <1>12 DEF GoesOn
  <2> HIDE DEF b
  <2>4. Id[b] = 1 \/ (Id[b] > 2 /\ Id[b] = last_block.id - RingSize + 2)
    BY <1>5, <1>7, <2>1, <2>2 DEF IsGrounded
  <2>5. Id[b] <= last_block.id
    BY <1>3, <1>7, <2>1, <2>4, RingSizeType
  <2>6. PICK o \in in_longest_chain : Id[o] = Id[b]
    BY <1>5, <2>1, <2>5 DEF IsCovered
  <2>7. o \in InChain(old_chain)
    BY <1>10, <2>3, <2>6
  <2>8. QED
    BY <1>6, <2>2, <2>3, <2>4, <2>6, <2>7 DEF StartsAtEdge, b
<1>13. QED
  BY <1>7, <1>9, <1>11, <1>12

\* The new chain is chosen: the block gets its flag before anything is wound.
LEMMA SelectLongestReorg ==
  ASSUME TypeInv, ReorgInv, BlocksFollowParents, SelectLongest
  PROVE  ReorgInv'
<1>1. /\ UNCHANGED <<blocks, purge, last_block, genesis_block_id, adding, latest>>
      /\ UNCHANGED <<loaded, waiting, updates, batch, blocks_queue, old_chain, new_chain, shared, cursor>>
      /\ pc = "select" /\ IsLongest
      /\ blockring' = [blockring EXCEPT !.empty = FALSE]
      /\ in_longest_chain' = in_longest_chain \cup {adding}
      /\ \/ pc' = "verdict" /\ verdict' = FALSE
         \/ /\ old_chain = <<>> /\ pc' = "wind"
            /\ wind' = [index |-> Len(new_chain), failure |-> FALSE, slice |-> Len(new_chain)]
         \/ /\ old_chain # <<>> /\ pc' = "unwind"
            /\ wind' = [index |-> 1, failure |-> FALSE, slice |-> Len(new_chain)]
  BY DEF SelectLongest, headVars, nodeVars, callVars, chainVars
<1>2. ~Settled /\ ~Settled' /\ pc \in Early /\ pc' \notin Early /\ Rests
  BY <1>1 DEF Settled, Early, Rests, Moving
<1>3. /\ blocks \in SUBSET Hash /\ blockring \in Ring
      /\ new_chain \in Seq(Hash) /\ old_chain \in Seq(Hash)
      /\ Len(new_chain) \in Nat /\ adding \in Hash /\ last_block.id \in Nat
  BY <1>2, Types, LenProperties
<1>4. /\ Core(blocks, in_longest_chain, {}, blockring, last_block, genesis_block_id)
      /\ last_block.id = LatestId(blockring) /\ last_block.hash = Tip
      /\ IsPath(blocks, in_longest_chain, Tip) /\ purge = {} /\ Kept = blocks
  BY <1>2, RestCore
<1>5. /\ \A s \in Slots : Entry(blockring', s) = Entry(blockring, s)
      /\ LatestHash(blockring') = LatestHash(blockring)
      /\ LatestId(blockring') = LatestId(blockring)
      /\ IsBlank(blockring') <=> IsBlank(blockring)
      /\ ~blockring'.empty
  <2>1. ~blockring'.empty
    BY <1>1, <1>3 DEF Ring
  <2>2. QED
    BY <1>1, <1>3, <2>1, NotEmptyAnyMore
<1>6. OldWalk /\ NewWalk /\ ~GoesOn
  BY <1>1 DEF ReorgInv, PhaseInv, OldWalk
<1>7. adding \notin in_longest_chain /\ latest = Tip /\ Tip' = Tip
  BY <1>5, <1>6 DEF NewWalk, Tip
<1>8. PurgeInv'
  BY <1>1, <1>4 DEF PurgeInv
<1>9. Kept' = blocks /\ Wound' = in_longest_chain /\ purge' = {}
  <2>1. FlaggedOnly' /\ purge' = {} /\ adding' = adding
    BY <1>1, <1>4 DEF FlaggedOnly
  <2>2. QED
    BY <1>1, <1>7, <2>1 DEF Kept, Wound
<1>10. Tip = NoHash \/ Tip \in in_longest_chain
  BY <1>4 DEF IsPath
<1>11. Tip = NoHash => in_longest_chain = {} /\ old_chain = <<>> /\ InChain(old_chain) = {}
  <2>1. ASSUME Tip = NoHash
        PROVE  in_longest_chain = {} /\ InChain(old_chain) = {}
    BY <1>4, <1>6, <2>1 DEF IsPath, OldWalk
  <2>2. old_chain # <<>> => InChain(old_chain) # {}
    BY <1>3, ChainBlocks
  <2>3. QED
    BY <2>1, <2>2
<1>12. Unwound' = {}
  <2>1. CASE Tip \in in_longest_chain
    BY <1>1, <1>4, <1>9, <2>1 DEF Unwound
  <2>2. CASE Tip = NoHash
    BY <1>1, <1>11, <2>2 DEF Unwound
  <2>3. QED
    BY <1>10, <2>1, <2>2
<1>13. CoreInv'
  <2>1. Core(blocks, in_longest_chain, {}, blockring', last_block, genesis_block_id)
    BY <1>3, <1>4, <1>5, CoreOfEntries
  <2>2. QED
    BY <1>1, <1>4, <1>5, <1>9, <1>12, <2>1 DEF CoreInv, Tip
<1>14. StartInv'
  <2>1. StartInv
    BY DEF ReorgInv
  <2>2. last_block.id = 0 => /\ last_block.hash = NoHash /\ IsBlank(blockring') /\ genesis_block_id = 0
                             /\ blocks \subseteq {adding} /\ latest = NoHash
    BY <1>2, <1>5, <2>1 DEF StartInv
  <2>3. QED
    BY <1>1, <1>2, <1>5, <2>2 DEF StartInv
<1>15. WaitInv'
  BY <1>1, WaitFrame DEF ReorgInv
<1>16. AddingInv'
  BY <1>1, <1>2, <1>4, <1>9, NewBlockIsKept DEF AddingInv
<1>17. RestoreInv'
  BY <1>2 DEF RestoreInv
<1>18. Moving' => Branches'
  <2>1. InChain(new_chain) \cap InChain(old_chain) = {}
    BY <1>6 DEF OldWalk, NewWalk
  <2>2. Moving' => ~wind'.failure
    BY <1>1 DEF Moving
  <2>3. new_chain # <<>> /\ new_chain[1] = adding /\ IsBranch(new_chain) /\ IsBranch(old_chain)
    BY <1>6 DEF OldWalk, NewWalk
  <2>4. shared # NoHash => Parent[Bottom(new_chain)] = shared
    BY <1>6 DEF OldWalk
  <2>5. QED
    BY <1>1, <2>1, <2>2, <2>3, <2>4 DEF Branches
<1>19. pc' = "unwind" => Unwinds'
  <2> SUFFICES ASSUME pc' = "unwind"
               PROVE  Unwinds'
    OBVIOUS
  <2>1. /\ old_chain # <<>>
        /\ wind'.index = 1 /\ wind'.slice = Len(new_chain)
    BY <1>1
  <2>2. /\ last_block.id # 0 /\ last_block.id < Id[adding]
        /\ shared # NoHash => Parent[Bottom(old_chain)] = shared
        /\ shared = NoHash => StartsAtEdge
    BY <1>1, <2>1, ChosenAgainstOld
  <2>3. /\ old_chain[1] = latest /\ Len(old_chain) \in Nat /\ 1 \in 1 .. Len(old_chain)
        /\ \A i \in 1 .. Len(old_chain) : old_chain[i] \in in_longest_chain
        /\ InChain(old_chain) \subseteq in_longest_chain
    BY <1>3, <1>6, <2>1, ChainBlocks DEF OldWalk
  <2>4. CatchesUp'
    <3>1. InChain(old_chain) \subseteq blocks
      BY <1>4, <2>3 DEF IsPath
    <3>2. Id[adding] > last_block.id
      BY <1>3, <2>2, BlockType
    <3>3. shared # NoHash => shared \in in_longest_chain
      BY <1>6 DEF OldWalk
    <3>4. StartsAtEdge => StartsAtEdge'
      BY <1>1 DEF StartsAtEdge
    <3>5. QED
      BY <1>1, <1>4, <1>7, <1>9, <2>1, <2>2, <2>3, <3>1, <3>2, <3>3, <3>4 DEF CatchesUp
  <2>5. \A i \in 1 .. Len(old_chain) : old_chain[i] \in Wound' <=> i >= wind'.index
    BY <1>9, <2>1, <2>3
  <2>6. InChain(new_chain) \subseteq blocks /\ InChain(new_chain) \cap Wound' = {}
    BY <1>6, <1>9 DEF NewWalk
  <2>7. QED
    BY <1>1, <1>7, <2>1, <2>2, <2>3, <2>4, <2>5, <2>6 DEF Unwinds
<1>20. pc' = "wind" => Winds'
  <2> SUFFICES ASSUME pc' = "wind"
               PROVE  Winds'
    OBVIOUS
  <2>1. old_chain = <<>> /\ wind'.index = Len(new_chain) /\ Rest' = Len(new_chain)
    BY <1>1 DEF Rest
  <2>2. new_chain # <<>> /\ Len(new_chain) # 0 /\ \A i \in 1 .. Len(new_chain) : new_chain[i] \in blocks
    BY <1>3, <1>6, ChainBlocks DEF OldWalk, NewWalk
  <2>3. Tip = shared
    <3>1. cursor = Tip
      BY <1>6, <1>7, <2>1 DEF OldWalk
    <3>2. CASE shared # NoHash
      <4>1. Tip \in blocks
        BY <1>4, <1>6, <1>10, <1>11, <3>2 DEF OldWalk, IsPath
      <4>2. QED
        BY <1>6, <3>1, <3>2, <4>1 DEF GoesOn
    <3>3. CASE shared = NoHash
      <4>1. Len(old_chain) <= Len(new_chain)
        BY <1>3, <2>1, EmptyBranch
      <4>2. Tip \notin blocks
        BY <1>6, <3>1, <3>3, <4>1 DEF GoesOn
      <4>3. QED
        BY <1>4, <1>10, <3>3, <4>2 DEF IsPath
    <3>4. QED
      BY <3>2, <3>3
  <2>4. InChain(old_chain) \cap Wound' = {}
    BY <2>1, EmptyBranch
  <2>5. last_block.id = 0 => Len(new_chain) = 1 /\ shared = NoHash
    <3> SUFFICES ASSUME last_block.id = 0
                 PROVE  Len(new_chain) = 1 /\ shared = NoHash
      OBVIOUS
    <3>1. blocks \subseteq {adding} /\ Tip = NoHash
      BY <1>2, <1>4 DEF ReorgInv, StartInv
    <3>2. \A i \in 1 .. Len(new_chain) : new_chain[i] = adding
      BY <2>2, <3>1
    <3>3. \A i, j \in 1 .. Len(new_chain) : new_chain[i] = new_chain[j] => i = j
      BY <1>3, <1>6, <2>2, BranchHeights DEF NewWalk
    <3>4. 1 \in 1 .. Len(new_chain) /\ Len(new_chain) \in 1 .. Len(new_chain)
      BY <1>3, <2>2, ChainBlocks
    <3>5. QED
      BY <2>3, <3>1, <3>2, <3>3, <3>4
  <2>6. last_block.id # 0 => last_block.hash \in in_longest_chain
    BY <1>4, <1>10 DEF LatestId, Tip
  <2>7. Rest' \in 0 .. Len(new_chain) /\ ~(Rest' < Len(new_chain))
    BY <1>3, <2>1
  <2>8. QED
    BY <1>1, <1>7, <1>9, <2>1, <2>2, <2>3, <2>4, <2>5, <2>6, <2>7 DEF Winds
<1>21. pc' = "verdict" => ~verdict' /\ Tip' = latest'
  BY <1>1, <1>7
<1>22. PhaseInv'
  BY <1>1, <1>18, <1>19, <1>20, <1>21 DEF PhaseInv
<1>23. QED
  BY <1>8, <1>13, <1>14, <1>15, <1>16, <1>17, <1>22 DEF ReorgInv

-----------------------------------------------------------------------------
(* The steps that move the chain.                                          *)

\* A block of the old chain is unwound.
LEMMA UnwindReorg ==
  ASSUME TypeInv, RingIndexesBlocks, ReorgInv, BlocksFollowParents, UnwindBlock
  PROVE  ReorgInv'
<1> DEFINE h == old_chain[wind.index]
           n == Len(old_chain)
           old == InChain(old_chain)
<1>1. /\ UNCHANGED <<blocks, purge, last_block, genesis_block_id, adding, latest>>
      /\ UNCHANGED <<loaded, waiting, updates, batch, blocks_queue, old_chain, new_chain, shared, cursor>>
      /\ pc = "unwind"
      /\ blockring' = TakeOffLongestChain(blockring, h)
      /\ in_longest_chain' = in_longest_chain \ {h}
      /\ \/ /\ wind.index = n /\ pc' = "wind" /\ wind' = [wind EXCEPT !.index = wind.slice]
         \/ /\ wind.index # n /\ pc' = "unwind" /\ wind' = [wind EXCEPT !.index = @ + 1]
  BY DEF UnwindBlock, Flag, headVars, nodeVars, callVars, chainVars
<1>2. ~Settled /\ ~Settled' /\ Moving /\ Moving' /\ FlaggedOnly /\ FlaggedOnly' /\ pc' \notin Early
  BY <1>1 DEF Settled, Early, Moving, FlaggedOnly
<1>3. /\ blocks \in SUBSET Hash /\ blockring \in Ring /\ last_block \in ChainHead
      /\ new_chain \in Seq(Hash) /\ old_chain \in Seq(Hash)
      /\ Len(new_chain) \in Nat /\ n \in Nat /\ wind \in WindArguments /\ wind.index \in Nat
  BY Types, LenProperties
<1>4. CoreInv /\ StartInv /\ PurgeInv /\ WaitInv /\ Branches /\ Unwinds /\ CatchesUp
  BY <1>1, <1>2 DEF ReorgInv, PhaseInv, Unwinds
<1>5. /\ purge = {} /\ Kept = blocks /\ Kept' = blocks /\ old_chain # <<>> /\ last_block.id # 0
      /\ wind.index \in 1 .. n /\ Tip = h /\ old_chain[1] = last_block.hash /\ wind.slice = Len(new_chain)
      /\ \A i \in 1 .. n : old_chain[i] \in Wound <=> i >= wind.index
      /\ old \subseteq blocks
  BY <1>1, <1>4 DEF Unwinds, CatchesUp, Kept
<1>6. Wound' = Wound \ {h}
  BY <1>1, <1>2, <1>5 DEF Wound
<1>7. /\ old = {old_chain[i] : i \in 1 .. n} /\ 1 \in 1 .. n /\ n \in 1 .. n
      /\ \A i, j \in 1 .. n : old_chain[i] = old_chain[j] => i = j
      /\ h \in old /\ h \in Hash
      /\ IsBranch(old_chain)
  <2>1. IsBranch(old_chain)
    BY <1>4 DEF Branches
  <2>2. old = {old_chain[i] : i \in 1 .. n} /\ 1 \in 1 .. n /\ n \in 1 .. n
    BY <1>3, <1>5, ChainBlocks
  <2>3. QED
    BY <1>3, <1>5, <2>1, <2>2, BranchHeights
<1>8. Core(blocks, Wound, Unwound, blockring, last_block, genesis_block_id)
  BY <1>4, <1>5 DEF CoreInv
<1>9. /\ IsPath(blocks, Wound, Tip) /\ LatestId(blockring) <= last_block.id
      /\ \A o \in Unwound : Id[o] <= last_block.id
  BY <1>8 DEF Core, Tip
<1>10. last_block.hash \notin Wound \ {h}
  <2>1. CASE wind.index = 1
    BY <1>5, <2>1
  <2>2. CASE wind.index # 1
    BY <1>3, <1>5, <1>7, <2>2
  <2>3. QED
    BY <2>1, <2>2
<1>11. Unwound' = old
  BY <1>1, <1>2, <1>6, <1>10 DEF Unwound
<1>12. Unwound \subseteq old
  BY DEF Unwound
<1>13. \A o \in old : Id[o] <= last_block.id
  <2>1. CASE wind.index = 1
    <3>1. ASSUME NEW o \in old
          PROVE  o \in Wound
      BY <1>3, <1>5, <1>7, <2>1
    <3>2. \A o \in old : Id[o] <= Id[Tip] /\ Id[o] \in Nat
      BY <1>3, <1>5, <1>9, <3>1, BlockType DEF IsPath
    <3>3. LatestId(blockring) = Id[Tip] /\ Id[Tip] \in Nat
      BY <1>5, <1>7, BlockType DEF LatestId, Tip
    <3>4. last_block.id \in Nat
      BY <1>3 DEF ChainHead
    <3>5. QED
      BY <1>9, <3>2, <3>3, <3>4
  <2>2. CASE wind.index # 1
    <3>1. last_block.hash \notin Wound
      BY <1>3, <1>5, <1>7, <2>2
    <3>2. Unwound = old
      BY <1>2, <3>1 DEF Unwound
    <3>3. QED
      BY <1>9, <3>2
  <2>3. QED
    BY <2>1, <2>2
<1> HIDE DEF h, n, old
<1>14. /\ Core(blocks, Wound \ {h}, old, blockring', last_block, genesis_block_id)
       /\ Tip' = IF Parent[h] \in Wound THEN Parent[h] ELSE NoHash
  <2>1. HoldsExactly(blockring, blocks)
    BY IndexHolds
  <2>2. LatestHash(blockring) = h
    BY <1>5 DEF Tip
  <2>3. h \in Hash /\ h \in old /\ old \subseteq blocks
    BY <1>5, <1>7
  <2>4. blocks \in SUBSET Hash /\ blockring \in Ring /\ last_block \in ChainHead
    BY <1>3
  <2>5. /\ Core(blocks, Wound \ {h}, old, TakeOffLongestChain(blockring, h), last_block, genesis_block_id)
        /\ LatestHash(TakeOffLongestChain(blockring, h)) = IF Parent[h] \in Wound THEN Parent[h] ELSE NoHash
    BY <1>8, <1>10, <1>12, <1>13, <2>1, <2>2, <2>3, <2>4, CoreUnwinds
  <2>6. QED
    BY <1>1, <2>5 DEF Tip
<1>15. CoreInv'
  BY <1>1, <1>2, <1>5, <1>6, <1>11, <1>14 DEF CoreInv
<1>16. StartInv'
  <2>1. blockring'.empty = blockring.empty
    BY <1>1, <1>3 DEF TakeOffLongestChain, Ring
  <2>2. ~blockring.empty
    BY <1>2, <1>4 DEF StartInv
  <2>3. QED
    BY <1>1, <1>5, <2>1, <2>2 DEF StartInv
<1>17. PurgeInv' /\ WaitInv' /\ RestoreInv'
  BY <1>1, <1>2, <1>4, <1>5, WaitFrame DEF PurgeInv, RestoreInv
<1>18. AddingInv'
  BY <1>1, <1>2, <1>5, NewBlockIsKept DEF AddingInv
<1>19. Branches'
  <2>1. wind'.failure = wind.failure
    BY <1>1, <1>3 DEF WindArguments
  <2>2. QED
    BY <1>1, <1>4, <2>1 DEF Branches
<1>20. \A i \in 1 .. n : old_chain[i] \in Wound' <=> i >= wind.index + 1
  BY <1>3, <1>5, <1>6, <1>7 DEF h
<1>21. InChain(new_chain) \subseteq blocks /\ InChain(new_chain) \cap Wound' = {}
  BY <1>4, <1>6 DEF Unwinds
<1>22. CatchesUp'
  <2>1. shared # NoHash => shared \in Wound' /\ Parent[Bottom(old_chain)] = shared
    <3> SUFFICES ASSUME shared # NoHash
                 PROVE  shared \in Wound' /\ Parent[Bottom(old_chain)] = shared
      OBVIOUS
    <3>1. shared \in Wound /\ Parent[Bottom(old_chain)] = shared
      BY <1>4 DEF CatchesUp
    <3>2. shared \in Hash /\ Bottom(old_chain) \in Hash
      BY <1>3, <1>5, <1>9, <3>1, ChainBlocks DEF IsPath
    <3>3. Id[Bottom(old_chain)] = Id[shared] + 1 /\ Id[shared] \in Nat
      BY <3>1, <3>2, BlockType DEF BlocksFollowParents
    <3>4. Id[Bottom(old_chain)] <= Id[h] /\ Id[h] \in Nat
      BY <1>3, <1>5, <1>7, BranchHeights, BlockType DEF old
    <3>5. shared # h
      BY <3>3, <3>4
    <3>6. QED
      BY <1>6, <3>1, <3>5
  <2>2. StartsAtEdge => StartsAtEdge'
    BY <1>1 DEF StartsAtEdge
  <2>3. QED
    BY <1>1, <1>4, <1>5, <2>1, <2>2 DEF CatchesUp
<1>23. pc' = "unwind" => Unwinds'
  <2> SUFFICES ASSUME pc' = "unwind"
               PROVE  Unwinds'
    OBVIOUS
  <2>1. wind'.index = wind.index + 1 /\ wind'.slice = wind.slice /\ wind.index # n
    BY <1>1, <1>3 DEF WindArguments
  <2>2. wind.index + 1 \in 1 .. n /\ wind.index \in 1 .. n - 1
    BY <1>3, <1>5, <2>1
  <2>3. Parent[h] = old_chain[wind.index + 1]
    BY <1>7, <2>2 DEF IsBranch, h, n
  <2>4. Parent[h] \in Wound
    BY <1>3, <1>5, <2>2, <2>3
  <2>5. Tip' = old_chain[wind'.index]
    BY <1>14, <2>1, <2>3, <2>4
  <2>6. latest' = old_chain'[1]
    BY <1>1, <1>4 DEF Unwinds
  <2>7. QED
    BY <1>1, <1>5, <1>20, <1>21, <1>22, <2>1, <2>2, <2>5, <2>6 DEF Unwinds, n
<1>24. pc' = "wind" => Winds'
  <2> SUFFICES ASSUME pc' = "wind"
               PROVE  Winds'
    OBVIOUS
  <2>1. wind'.index = Len(new_chain) /\ wind.index = n /\ Rest' = Len(new_chain)
    BY <1>1, <1>3, <1>5 DEF WindArguments, Rest
  <2>2. Len(new_chain) # 0 /\ \A i \in 1 .. Len(new_chain) : new_chain[i] \in blocks
    BY <1>3, <1>4, <1>21, ChainBlocks DEF Branches
  <2>3. h = Bottom(old_chain)
    BY <2>1 DEF h, n, Bottom
  <2>4. Tip' = shared
    <3>1. CASE shared = NoHash
      <4>1. Parent[h] \notin Wound
        BY <1>4, <1>9, <2>3, <3>1 DEF CatchesUp, StartsAtEdge, IsPath
      <4>2. QED
        BY <1>14, <3>1, <4>1
    <3>2. CASE shared # NoHash
      BY <1>4, <1>14, <2>3, <3>2 DEF CatchesUp
    <3>3. QED
      BY <3>1, <3>2
  <2>5. InChain(old_chain) \cap Wound' = {}
    BY <1>3, <1>7, <1>20, <2>1 DEF old
  <2>6. Rest' \in 0 .. Len(new_chain) /\ ~(Rest' < Len(new_chain)) /\ Rest' # 0
    BY <1>3, <2>1, <2>2
  <2>7. \A i \in Rest' + 1 .. Len(new_chain) : new_chain[i] \in Wound'
    BY <1>3, <2>1
  <2>8. QED
    BY <1>1, <1>5, <1>22, <2>1, <2>2, <2>4, <2>5, <2>6, <2>7 DEF Winds
<1>25. PhaseInv'
  BY <1>1, <1>19, <1>23, <1>24 DEF PhaseInv
<1>26. QED
  BY <1>15, <1>16, <1>17, <1>18, <1>25 DEF ReorgInv

\* The call fails before the chain has moved for it.
LEMMA StopReorg ==
  ASSUME TypeInv, ReorgInv, pc \in {"unwind", "wind"}, pc' = "verdict", verdict' = FALSE,
         UNCHANGED <<blocks, in_longest_chain, purge, last_block, genesis_block_id, adding, latest, blockring>>,
         UNCHANGED <<loaded, waiting, updates, batch, blocks_queue>>,
         last_block.hash \in Wound \/ last_block.id = 0,
         Unwound = {}, Tip = latest
  PROVE  ReorgInv'
<1>1. CoreInv /\ StartInv /\ PurgeInv /\ WaitInv
  BY DEF ReorgInv
<1>2. ~Settled /\ ~Settled' /\ FlaggedOnly /\ FlaggedOnly' /\ ~Moving' /\ pc' \notin Early
  BY DEF Settled, FlaggedOnly, Moving, Early
<1>3. UNCHANGED <<Kept, Wound, Unwound, Tip>>
  BY <1>2 DEF Kept, Wound, Unwound, Tip
<1>4. last_block.id = LatestId(blockring) /\ last_block.hash = LatestHash(blockring)
  BY <1>1, HeadOnChain
<1>5. CoreInv'
  BY <1>1, <1>3, <1>4, CoreFrame
<1>6. StartInv'
  BY <1>1, <1>2 DEF StartInv
<1>7. PurgeInv'
  BY <1>1 DEF PurgeInv
<1>8. WaitInv' /\ RestoreInv'
  BY <1>1, <1>2, WaitFrame DEF RestoreInv
<1>9. AddingInv'
  BY <1>2, <1>3, NewBlockIsKept DEF AddingInv
<1>10. PhaseInv'
  BY <1>2, <1>3 DEF PhaseInv
<1>11. QED
  BY <1>5, <1>6, <1>7, <1>8, <1>9, <1>10 DEF ReorgInv

\* A block cannot be unwound, or wound.
LEMMA FirstFailsReorg ==
  ASSUME TypeInv, ReorgInv, UnwindCheckpoint \/ WindCheckpoint \/ RejectBlock, FailsBeforeItMoves
  PROVE  ReorgInv'
<1>1. CASE UnwindCheckpoint
  <2>1. /\ UNCHANGED <<blocks, in_longest_chain, purge, last_block, genesis_block_id, adding, latest, blockring>>
        /\ UNCHANGED <<loaded, waiting, updates, batch, blocks_queue>>
        /\ pc = "unwind" /\ pc' = "verdict" /\ verdict' = FALSE /\ wind.index = 1
    BY <1>1 DEF UnwindCheckpoint, Finish, FailsBeforeItMoves, blockVars, headVars, nodeVars, callVars
  <2>2. Unwinds
    BY <2>1 DEF ReorgInv, PhaseInv
  <2>3. 1 \in 1 .. Len(old_chain) /\ old_chain[1] \in Wound /\ old_chain[1] = last_block.hash
        /\ Tip = old_chain[1] /\ latest = old_chain[1]
    BY <2>1, <2>2 DEF Unwinds, CatchesUp
  <2>4. Unwound = {}
    BY <2>3 DEF Unwound
  <2>5. QED
    BY <2>1, <2>3, <2>4, StopReorg
<1>2. CASE WindCheckpoint \/ RejectBlock
  <2>1. /\ UNCHANGED <<blocks, in_longest_chain, purge, last_block, genesis_block_id, adding, latest, blockring>>
        /\ UNCHANGED <<loaded, waiting, updates, batch, blocks_queue>>
        /\ pc = "wind" /\ old_chain = <<>> /\ wind.index = Len(new_chain)
    BY <1>2 DEF WindCheckpoint, RejectBlock, FailsBeforeItMoves, headVars, nodeVars, callVars
  <2>2. pc' = "verdict" /\ verdict' = FALSE
    BY <1>2, <2>1 DEF WindCheckpoint, RejectBlock, Finish
  <2>3. Winds /\ Rest = Len(new_chain)
    BY <2>1 DEF ReorgInv, PhaseInv, Rest
  <2>4. last_block.hash \in Wound \/ last_block.id = 0
    BY <2>1, <2>3 DEF Winds, CatchesUp
  <2>5. Unwound = {} /\ Tip = latest
    BY <2>1, <2>3, EmptyBranch DEF Unwound, Winds
  <2>6. QED
    BY <2>1, <2>2, <2>4, <2>5, StopReorg
<1>3. QED
  BY <1>1, <1>2

\* A block is deleted that has gone out of the ring.
LEMMA PurgeReorg ==
  ASSUME TypeInv, RingIndexesBlocks, ReorgInv, NEW h \in purge, PurgeBlock(h)
  PROVE  ReorgInv'
<1>1. /\ UNCHANGED <<last_block, genesis_block_id, adding, latest, wind, pc>>
      /\ UNCHANGED <<loaded, waiting, updates, batch, blocks_queue, old_chain, new_chain, shared, cursor>>
      /\ pc = "purge" /\ h \in blocks
      /\ purge' = purge \ {h} /\ blocks' = blocks \ {h} /\ in_longest_chain' = in_longest_chain \ {h}
      /\ blockring' = DeleteFromRing(blockring, h)
  BY DEF PurgeBlock, Forget, headVars, callVars, chainVars
<1>2. ~Settled /\ ~Settled' /\ Moving /\ Moving' /\ UNCHANGED FlaggedOnly /\ pc' \notin Early
  BY <1>1 DEF Settled, Moving, FlaggedOnly, Early
<1>3. CoreInv /\ StartInv /\ PurgeInv /\ WaitInv /\ Branches /\ Winds
  BY <1>1, <1>2 DEF ReorgInv, PhaseInv
<1>4. Kept' = Kept /\ Wound' = Wound
  BY <1>1, <1>2 DEF Kept, Wound
<1>5. Unwound' = Unwound
  BY <1>1, <1>2, <1>4 DEF Unwound
<1>6. blocks \subseteq Hash /\ h \in Hash /\ blockring \in Ring
  BY <1>1, Types
<1>7. PICK c \in Wound : SlotOf(Id[c]) = SlotOf(Id[h])
  BY <1>3 DEF PurgeInv
<1>8. EntryFor(blockring, c) = c /\ c \in Hash /\ c # h
  <2>1. IsPath(Kept, Wound, LatestHash(blockring)) /\ IsNoted(Kept, Wound, blockring, last_block.id)
    BY <1>3 DEF CoreInv, Core
  <2>2. c \in Kept /\ c \notin purge
    BY <1>7, <2>1 DEF IsPath, Kept
  <2>3. QED
    BY <1>6, <1>7, <2>1, <2>2 DEF IsNoted, Kept
<1>9. /\ \A s \in Slots : Entry(blockring', s) = Entry(blockring, s)
      /\ LatestHash(blockring') = LatestHash(blockring) /\ LatestId(blockring') = LatestId(blockring)
  BY <1>1, <1>6, <1>7, <1>8, DeleteKeepsEntries
<1>10. CoreInv'
  BY <1>1, <1>2, <1>3, <1>4, <1>5, <1>9, CoreFrame
<1>11. last_block.id # 0 /\ last_block.hash \in Wound
  BY <1>1, <1>3 DEF Winds, CatchesUp
<1>12. StartInv'
  <2>1. blockring'.empty = blockring.empty
    BY <1>1, <1>6 DEF DeleteFromRing, Ring
  <2>2. QED
    BY <1>1, <1>2, <1>3, <1>11, <2>1 DEF StartInv
<1>13. PurgeInv'
  BY <1>1, <1>3, <1>4 DEF PurgeInv
<1>14. WaitInv'
  BY <1>1, <1>3 DEF WaitInv
<1>15. AddingInv' /\ RestoreInv'
  BY <1>1, <1>2, <1>4, NewBlockIsKept DEF AddingInv, RestoreInv
<1>16. PhaseInv'
  <2>1. Branches'
    BY <1>1, <1>3 DEF Branches
  <2>2. Rest' = Rest /\ Tip' = Tip
    BY <1>1, <1>9 DEF Rest, Tip
  <2>3. Winds'
    BY <1>1, <1>3, <1>4, <1>11, <2>2 DEF Winds
  <2>4. QED
    BY <1>1, <2>1, <2>3 DEF PhaseInv
<1>17. QED
  BY <1>10, <1>12, <1>13, <1>14, <1>15, <1>16 DEF ReorgInv

\* The end of a wind.
LEMMA EndPurgeReorg ==
  ASSUME TypeInv, ReorgInv, EndPurge
  PROVE  ReorgInv'
<1>1. /\ UNCHANGED <<blocks, in_longest_chain, purge, last_block, genesis_block_id, adding, latest, blockring>>
      /\ UNCHANGED <<loaded, waiting, updates, batch, blocks_queue, old_chain, new_chain, shared, cursor>>
      /\ pc = "purge" /\ purge = {}
      /\ \/ /\ wind.index = 1 /\ pc' = "verdict" /\ verdict' = ~wind.failure
         \/ /\ wind.index # 1 /\ pc' = "wind"
            /\ wind' = [wind EXCEPT !.index = @ - 1, !.failure = FALSE]
  BY DEF EndPurge, Finish, headVars, nodeVars, callVars, chainVars
<1>2. ~Settled /\ ~Settled' /\ Moving /\ pc' \notin Early
  BY <1>1 DEF Settled, Moving, Early
<1>3. CoreInv /\ StartInv /\ PurgeInv /\ WaitInv /\ Branches /\ Winds
  BY <1>1, <1>2 DEF ReorgInv, PhaseInv
<1>4. wind \in WindArguments /\ wind.index \in Nat /\ wind.index # 0
  BY <1>1, Types
<1>5. last_block.id # 0
  BY <1>1, <1>3 DEF Winds
<1>6. UNCHANGED FlaggedOnly
  <2>1. CASE pc' = "wind"
    BY <1>1, <2>1 DEF FlaggedOnly
  <2>2. CASE pc' = "verdict"
    BY <1>1, <1>3, <2>2 DEF FlaggedOnly, Branches
  <2>3. QED
    BY <1>1, <2>1, <2>2
<1>7. UNCHANGED <<Kept, Wound, Tip>>
  BY <1>1, <1>6 DEF Kept, Wound, Tip
<1>8. pc' = "verdict" => last_block.hash \in Wound
  <2>1. pc' = "verdict" => Rest = 0
    BY <1>1 DEF Rest
  <2>2. QED
    BY <1>3, <1>5, <2>1 DEF Winds
<1>9. Unwound' = Unwound
  <2>1. CASE pc' = "wind"
    BY <1>1, <1>2, <1>7, <2>1 DEF Unwound, Moving
  <2>2. CASE pc' = "verdict"
    BY <1>1, <1>7, <1>8, <2>2 DEF Unwound
  <2>3. QED
    BY <1>1, <2>1, <2>2
<1>10. CoreInv'
  <2>1. pc' = "verdict" => last_block.id = LatestId(blockring) /\ last_block.hash = LatestHash(blockring)
    BY <1>3, <1>8, HeadOnChain
  <2>2. ~Moving' => pc' = "verdict"
    BY <1>1 DEF Moving
  <2>3. QED
    BY <1>1, <1>3, <1>7, <1>9, <2>1, <2>2, CoreFrame
<1>11. StartInv'
  BY <1>1, <1>2, <1>3, <1>5 DEF StartInv
<1>12. PurgeInv' /\ WaitInv' /\ RestoreInv'
  BY <1>1, <1>2, <1>3, WaitFrame DEF PurgeInv, RestoreInv
<1>13. AddingInv'
  BY <1>1, <1>2, <1>7, NewBlockIsKept DEF AddingInv
<1>14. pc' = "wind" => Branches' /\ Winds'
  <2> SUFFICES ASSUME pc' = "wind"
               PROVE  Branches' /\ Winds'
    OBVIOUS
  <2>1. wind'.index = wind.index - 1 /\ ~wind'.failure
    BY <1>1, <1>4 DEF WindArguments
  <2>2. Rest' = Rest /\ Rest' # 0
    BY <1>1, <1>4, <2>1 DEF Rest
  <2>3. Branches'
    BY <1>1, <1>3, <2>1 DEF Branches
  <2>4. CatchesUp => CatchesUp'
    BY <1>1, <1>7 DEF CatchesUp, StartsAtEdge
  <2>5. Winds'
    BY <1>1, <1>3, <1>5, <1>7, <2>2, <2>4 DEF Winds
  <2>6. QED
    BY <2>3, <2>5
<1>15. PhaseInv'
  <2>1. pc' = "verdict" => verdict'
    BY <1>1, <1>3 DEF Branches
  <2>2. QED
    BY <1>1, <1>5, <1>14, <2>1 DEF PhaseInv, Moving
<1>16. QED
  BY <1>10, <1>11, <1>12, <1>13, <1>15 DEF ReorgInv

\* The block that failed is forgotten.
LEMMA FailReorg ==
  ASSUME TypeInv, RingIndexesBlocks, ReorgInv, BlocksFollowParents, Fail, FailsBeforeItMoves
  PROVE  ReorgInv'
<1>1. /\ UNCHANGED <<purge, last_block, genesis_block_id, adding, latest>>
      /\ UNCHANGED <<loaded, waiting, updates, batch, blocks_queue>>
      /\ pc = "verdict" /\ pc' = "batch" /\ ~verdict /\ latest # NoHash
      /\ blocks' = blocks \ {adding} /\ in_longest_chain' = in_longest_chain \ {adding}
      /\ blockring' = DeleteFromRing(blockring, adding)
  BY DEF Fail, Forget, FailsBeforeItMoves, headVars, nodeVars, callVars
<1>2. ~Settled /\ Settled' /\ ~Moving /\ ~Moving' /\ FlaggedOnly /\ Rests'
  BY <1>1 DEF Settled, Moving, FlaggedOnly, Rests
<1>3. CoreInv /\ StartInv /\ PurgeInv /\ WaitInv /\ Tip = latest
  BY <1>1 DEF ReorgInv, PhaseInv
<1>4. blocks \in SUBSET Hash /\ blockring \in Ring /\ last_block \in ChainHead /\ adding \in Hash
  BY <1>2, Types
<1>5. purge = {} /\ Kept = blocks /\ Wound = in_longest_chain \ {adding} /\ Unwound = {}
  BY <1>1, <1>2, <1>3 DEF PurgeInv, Kept, Wound, Unwound
<1>6. PurgeInv'
  BY <1>1, <1>5 DEF PurgeInv
<1>7. Kept' = blocks \ {adding} /\ Wound' = Wound /\ Unwound' = {}
  BY <1>1, <1>2, <1>5, <1>6, AtRest
<1>8. /\ Core(blocks, Wound, {}, blockring, last_block, genesis_block_id)
      /\ last_block.id = LatestId(blockring) /\ last_block.hash = LatestHash(blockring)
      /\ LatestHash(blockring) # NoHash
  BY <1>1, <1>2, <1>3, <1>5 DEF CoreInv, Tip
<1>9. adding \in blocks /\ adding \notin Wound /\ \A b \in blocks : Parent[b] # adding
  BY <1>2, <1>5, NewBlockIsKept
<1>10. /\ Core(blocks \ {adding}, Wound, {}, blockring', last_block, genesis_block_id)
       /\ LatestHash(blockring') = LatestHash(blockring)
       /\ LatestId(blockring') = LatestId(blockring)
  BY <1>1, <1>4, <1>8, <1>9, IndexHolds, CoreLosesBlock
<1>11. CoreInv'
  BY <1>1, <1>7, <1>8, <1>10 DEF CoreInv
<1>12. StartInv'
  <2>1. blockring'.empty = blockring.empty
    BY <1>1, <1>4 DEF DeleteFromRing, Ring
  <2>2. last_block.id # 0
    BY <1>4, <1>8, LatestType, BlockType DEF LatestId
  <2>3. QED
    BY <1>1, <1>3, <2>1, <2>2 DEF StartInv
<1>13. WaitInv'
  BY <1>1, <1>3 DEF WaitInv
<1>14. AddingInv' /\ RestoreInv'
  BY <1>1, <1>2, <1>3, <1>10 DEF AddingInv, RestoreInv, Tip
<1>15. QED
  BY <1>2, <1>6, <1>11, <1>12, <1>13, <1>14, SettledPhase DEF ReorgInv

\* The block that is wound is a child of the tip; when there is no tip, its parent is
\* not known.
LEMMA WindOnTip ==
  ASSUME TypeInv, ReorgInv, pc = "wind", NEW h, h = new_chain[wind.index]
  PROVE  /\ Branches /\ Winds /\ purge = {} /\ Kept = blocks /\ FlaggedOnly /\ Moving
         /\ Core(blocks, Wound, Unwound, blockring, last_block, genesis_block_id)
         /\ IsPath(blocks, Wound, Tip)
         /\ wind.index \in 1 .. Len(new_chain) /\ h \in blocks /\ h \in Hash
         /\ Tip # NoHash => Parent[h] = Tip
         /\ Tip = NoHash => /\ Parent[h] \notin blocks
                            /\ wind.index = Len(new_chain) /\ shared = NoHash
                            /\ last_block.id # 0 => CatchesUp /\ StartsAtEdge
<1> DEFINE i == wind.index
           n == Len(new_chain)
<1>1. Moving /\ FlaggedOnly /\ ~Settled /\ Branches /\ Winds /\ PurgeInv /\ CoreInv /\ StartInv
  BY DEF ReorgInv, PhaseInv, Moving, FlaggedOnly, Settled
<1>2. purge = {} /\ Kept = blocks
  BY <1>1 DEF PurgeInv, Kept
<1>3. /\ Core(blocks, Wound, Unwound, blockring, last_block, genesis_block_id)
      /\ IsPath(blocks, Wound, Tip)
  BY <1>1, <1>2 DEF CoreInv, Core, Tip
<1>4. /\ new_chain \in Seq(Hash) /\ n \in Nat /\ i \in Nat /\ blocks \subseteq Hash /\ adding \in Hash
  BY <1>1, Types, LenProperties
<1>5. Rest = i /\ i \in 1 .. n /\ h \in blocks /\ h \in Hash
  <2>1. Rest = i
    BY DEF Rest
  <2>2. i \in 1 .. n /\ i \in 1 .. Rest
    BY <1>1, <1>4, <2>1 DEF Winds
  <2>3. QED
    BY <1>1, <1>2, <1>4, <2>1, <2>2 DEF Winds
<1>6. Tip = IF i < n THEN new_chain[i + 1] ELSE shared
  BY <1>1, <1>5 DEF Winds
<1>7. IsBranch(new_chain) /\ (shared # NoHash => Parent[new_chain[n]] = shared)
  BY <1>1 DEF Branches, Bottom
<1>8. i < n => Parent[h] = Tip /\ Tip \in Hash
  <2> SUFFICES ASSUME i < n
               PROVE  Parent[h] = Tip /\ Tip \in Hash
    OBVIOUS
  <2>1. i \in 1 .. n - 1 /\ i + 1 \in 1 .. n
    BY <1>4, <1>5
  <2>2. Parent[new_chain[i]] = new_chain[i + 1]
    BY <1>7, <2>1 DEF IsBranch
  <2>3. new_chain[i + 1] \in Hash
    BY <1>4, <2>1, ElementOfSeq
  <2>4. QED
    BY <1>6, <2>2, <2>3
<1>9. ~(i < n) => i = n /\ Tip = shared /\ (shared # NoHash => Parent[h] = shared)
  <2> SUFFICES ASSUME ~(i < n)
               PROVE  i = n /\ Tip = shared /\ (shared # NoHash => Parent[h] = shared)
    OBVIOUS
  <2>1. i = n
    BY <1>4, <1>5
  <2>2. QED
    BY <1>6, <1>7, <2>1
<1>10. Tip # NoHash => Parent[h] = Tip
  BY <1>8, <1>9
<1>11. ASSUME Tip = NoHash
       PROVE  /\ Parent[h] \notin blocks /\ i = n /\ shared = NoHash
              /\ last_block.id # 0 => CatchesUp /\ StartsAtEdge
  <2>1. i = n /\ shared = NoHash
    BY <1>8, <1>9, <1>11, BlockType
  <2>2. Wound = {}
    BY <1>3, <1>11 DEF IsPath
  <2>3. last_block.id # 0 => CatchesUp /\ StartsAtEdge
    BY <1>1, <2>1, <2>2 DEF Winds, CatchesUp
  <2>4. Parent[h] \notin blocks
    <3>1. CASE last_block.id # 0
      BY <2>1, <2>3, <3>1 DEF StartsAtEdge, Bottom
    <3>2. CASE last_block.id = 0
      <4>1. blocks \subseteq {adding}
        BY <1>1, <3>2 DEF StartInv
      <4>2. h = adding /\ Parent[h] # adding
        BY <1>1, <1>2, <1>5, <4>1, NewBlockIsKept
      <4>3. QED
        BY <4>1, <4>2
    <3>3. QED
      BY <3>1, <3>2
  <2>5. QED
    BY <2>1, <2>3, <2>4
<1>12. QED
  BY <1>1, <1>2, <1>3, <1>5, <1>10, <1>11

\* What winding a block changes.
LEMMA WindShape ==
  ASSUME TypeInv, RingIndexesBlocks, ReorgInv, WindBlock,
         NEW h, h = new_chain[wind.index], NEW ring, ring = PutOnLongestChain(blockring, h)
  PROVE  /\ UNCHANGED <<blocks, adding, latest, wind>>
         /\ UNCHANGED <<loaded, waiting, updates, batch, blocks_queue, old_chain, new_chain, shared, cursor>>
         /\ pc = "wind" /\ pc' = "purge"
         /\ blockring' = ring /\ ring.empty = blockring.empty
         /\ in_longest_chain' = in_longest_chain \cup {h}
         /\ IF last_block.id >= Id[h]
            THEN purge' = {} /\ UNCHANGED <<last_block, genesis_block_id>>
            ELSE /\ last_block' = [id |-> Id[h], hash |-> h]
                 /\ genesis_block_id' = GenesisBlockId(ring)
                 /\ purge' = PurgedBelow(ring)
         /\ Kept' = blocks \ purge' /\ Wound' = (Wound \cup {h}) \ purge' /\ Moving'
         /\ Tip' = h /\ Rest' = wind.index - 1 /\ LatestId(ring) = Id[h]
         /\ h \notin InChain(old_chain)
         /\ \A j \in 1 .. wind.index : new_chain[j] \in blocks /\ Id[h] <= Id[new_chain[j]]
         /\ (wind.index = 1 <=> h = adding)
<1>1. /\ UNCHANGED <<blocks, adding, latest, wind>>
      /\ UNCHANGED <<loaded, waiting, updates, batch, blocks_queue, old_chain, new_chain, shared, cursor>>
      /\ pc = "wind" /\ pc' = "purge"
      /\ blockring' = ring
      /\ in_longest_chain' = in_longest_chain \cup {h}
      /\ IF last_block.id >= Id[h]
         THEN purge' = {} /\ UNCHANGED <<last_block, genesis_block_id>>
         ELSE /\ last_block' = [id |-> Id[h], hash |-> h]
              /\ genesis_block_id' = GenesisBlockId(ring)
              /\ purge' = PurgedBelow(ring)
  BY DEF WindBlock, Flag, headVars, nodeVars, callVars, chainVars
<1>2. /\ Branches /\ Winds /\ purge = {} /\ FlaggedOnly /\ Kept = blocks
      /\ wind.index \in 1 .. Len(new_chain) /\ h \in blocks /\ h \in Hash
  BY <1>1, WindOnTip
<1>3. new_chain \in Seq(Hash) /\ Len(new_chain) \in Nat /\ blockring \in Ring
  BY Types, LenProperties
<1>4. /\ \A i \in 1 .. Len(new_chain) : Id[new_chain[i]] = Id[new_chain[1]] + 1 - i /\ Id[new_chain[i]] \in Nat
      /\ \A i, j \in 1 .. Len(new_chain) : new_chain[i] = new_chain[j] => i = j
      /\ new_chain[1] = adding /\ 1 \in 1 .. Len(new_chain)
  BY <1>2, <1>3, BranchHeights, ChainBlocks DEF Branches
<1>5. wind.index = 1 <=> h = adding
  BY <1>2, <1>4
<1>6. Moving' /\ Kept' = blocks \ purge' /\ Wound' = (Wound \cup {h}) \ purge'
  <2>1. Wound = in_longest_chain \ {adding}
    BY <1>2 DEF Wound
  <2>2. FlaggedOnly' <=> wind.index # 1
    BY <1>1 DEF FlaggedOnly
  <2>3. CASE wind.index # 1
    BY <1>1, <1>5, <2>1, <2>2, <2>3 DEF Wound, Kept, Moving
  <2>4. CASE wind.index = 1
    BY <1>1, <1>5, <2>1, <2>2, <2>4 DEF Wound, Kept, Moving
  <2>5. QED
    BY <2>3, <2>4
<1>7. LatestHash(ring) = h /\ LatestId(ring) = Id[h]
  BY <1>2, <1>3, IndexHolds, EntriesAfterPut
<1>8. Tip' = h /\ Rest' = wind.index - 1
  BY <1>1, <1>7 DEF Tip, Rest
<1>9. h \notin InChain(old_chain)
  BY <1>2, <1>3, ChainBlocks DEF Branches
<1>10. ASSUME NEW j \in 1 .. wind.index
       PROVE  new_chain[j] \in blocks /\ Id[h] <= Id[new_chain[j]]
  <2>1. j \in 1 .. Rest /\ j \in 1 .. Len(new_chain) /\ j <= wind.index
    BY <1>1, <1>2, <1>3 DEF Rest
  <2>2. new_chain[j] \in blocks
    BY <1>2, <2>1 DEF Winds
  <2>3. QED
    BY <1>2, <1>3, <1>4, <2>1, <2>2
<1>11. ring.empty = blockring.empty
  BY <1>3 DEF PutOnLongestChain, Ring
<1>12. QED
  BY <1>1, <1>5, <1>6, <1>7, <1>8, <1>9, <1>10, <1>11

\* What remains to be shown when a block is wound.
LEMMA WindKeeps ==
  ASSUME TypeInv, RingIndexesBlocks, ReorgInv, WindBlock, NEW h, h = new_chain[wind.index],
         Core(Kept', Wound', Unwound', blockring', last_block', genesis_block_id'),
         last_block'.id # 0, waiting \/ genesis_block_id' # 0,
         PurgeInv',
         \A j \in 1 .. wind.index : j < wind.index => new_chain[j] \notin purge',
         adding \notin purge',
         last_block'.hash \notin Wound' =>
           /\ CatchesUp' /\ wind.index # 1
           /\ \A j \in wind.index .. Len(new_chain) : new_chain[j] \in Wound'
  PROVE  ReorgInv'
<1> DEFINE ring == PutOnLongestChain(blockring, h)
<1>1. /\ UNCHANGED <<blocks, adding, latest, wind>>
      /\ UNCHANGED <<loaded, waiting, updates, batch, blocks_queue, old_chain, new_chain, shared, cursor>>
      /\ pc = "wind" /\ pc' = "purge"
      /\ blockring' = ring /\ ring.empty = blockring.empty
      /\ Kept' = blocks \ purge' /\ Wound' = (Wound \cup {h}) \ purge' /\ Moving'
      /\ Tip' = h /\ Rest' = wind.index - 1
      /\ h \notin InChain(old_chain)
      /\ \A j \in 1 .. wind.index : new_chain[j] \in blocks
  BY WindShape
<1>2. /\ Branches /\ Winds /\ Moving /\ Kept = blocks
      /\ wind.index \in 1 .. Len(new_chain)
  BY <1>1, WindOnTip
<1>3. ~Settled /\ ~Settled' /\ pc' \notin Early /\ StartInv /\ WaitInv
  BY <1>1 DEF Settled, Early, ReorgInv
<1>4. new_chain \in Seq(Hash) /\ Len(new_chain) \in Nat
  BY Types, LenProperties
<1>5. CoreInv'
  BY <1>1 DEF CoreInv
<1>6. StartInv'
  BY <1>1, <1>2, <1>3 DEF StartInv
<1>7. WaitInv'
  BY <1>1, <1>3 DEF WaitInv
<1>8. AddingInv' /\ RestoreInv'
  BY <1>1, <1>2, <1>3, NewBlockIsKept DEF AddingInv, RestoreInv
<1>9. Branches'
  BY <1>1, <1>2 DEF Branches
<1>10. Winds'
  <2>1. Rest' \in 0 .. Len(new_chain) /\ Rest' < Len(new_chain) /\ Rest' + 1 = wind.index
        /\ (wind.index # 1 => Rest' # 0)
    BY <1>1, <1>2, <1>4
  <2>2. \A j \in 1 .. Rest' : j \in 1 .. wind.index /\ j < wind.index
    BY <1>1, <1>2, <1>4
  <2>3. \A j \in 1 .. Rest' : new_chain[j] \in Kept'
    BY <1>1, <2>2
  <2>4. InChain(old_chain) \cap Wound' = {}
    BY <1>1, <1>2 DEF Winds
  <2>5. Tip' = new_chain[Rest' + 1]
    BY <1>1, <2>1
  <2>6. Rest' # Len(new_chain)
    BY <1>4, <2>1
  <2>7. /\ pc' # "wind" /\ new_chain' = new_chain /\ old_chain' = old_chain
    BY <1>1
  <2>8. last_block'.hash \notin Wound' =>
          /\ CatchesUp' /\ Rest' # 0 /\ \A j \in Rest' + 1 .. Len(new_chain) : new_chain[j] \in Wound'
    BY <2>1
  <2>9. QED
    BY <2>1, <2>3, <2>4, <2>5, <2>6, <2>7, <2>8 DEF Winds
<1>11. PhaseInv'
  BY <1>1, <1>9, <1>10 DEF PhaseInv
<1>12. QED
  BY <1>5, <1>6, <1>7, <1>8, <1>11 DEF ReorgInv

\* update_genesis_period counts from 1.
LEMMA WindowStart ==
  \A n \in Nat : Max2(Monus(n, GenesisPeriod), 1) \in Nat /\ Max2(Monus(n, GenesisPeriod), 1) # 0
<1>1. \A m \in Nat : Max2(m, 1) \in Nat /\ Max2(m, 1) # 0
  BY DEF Max2
<1>2. QED
  BY <1>1, MonusType, RingAssumption

\* The first block of all is wound.
LEMMA WindFirst ==
  ASSUME TypeInv, RingIndexesBlocks, ReorgInv, BlocksFollowParents, WindBlock, last_block.id = 0
  PROVE  ReorgInv'
<1> DEFINE h == new_chain[wind.index]
           ring == PutOnLongestChain(blockring, h)
           id == Max2(Monus(LatestId(ring), GenesisPeriod), 1)
<1>1. /\ UNCHANGED <<blocks, adding, waiting>>
      /\ pc = "wind" /\ pc' = "purge" /\ blockring' = ring
      /\ IF last_block.id >= Id[h]
         THEN purge' = {} /\ UNCHANGED <<last_block, genesis_block_id>>
         ELSE /\ last_block' = [id |-> Id[h], hash |-> h]
              /\ genesis_block_id' = GenesisBlockId(ring)
              /\ purge' = PurgedBelow(ring)
      /\ Kept' = blocks \ purge' /\ Wound' = (Wound \cup {h}) \ purge' /\ LatestId(ring) = Id[h]
  BY WindShape
<1>2. /\ IsPath(blocks, Wound, Tip) /\ h \in blocks /\ h \in Hash /\ FlaggedOnly
  BY <1>1, WindOnTip
<1>3. ~Settled /\ StartInv /\ WaitInv /\ blockring \in Ring
  BY <1>1, Types DEF Settled, ReorgInv
<1>4. blocks = {adding} /\ h = adding /\ genesis_block_id = 0
  BY <1>2, <1>3 DEF StartInv
<1>5. Wound = {}
  BY <1>2, <1>4 DEF IsPath, Wound
<1>6. Id[h] \in Nat /\ Id[h] # 0 /\ ~(last_block.id >= Id[h])
  BY <1>2, BlockType
<1>7. last_block' = [id |-> Id[h], hash |-> h] /\ genesis_block_id' = GenesisBlockId(ring) /\ purge' = PurgedBelow(ring)
  BY <1>1, <1>6
<1>8. id \in Nat /\ id # 0
  <2>1. LatestId(ring) \in Nat
    BY <1>1, <1>6
  <2>2. QED
    BY <2>1, WindowStart
<1>9. genesis_block_id' = IF LongestChainHashAt(ring, id) # NoHash THEN id ELSE 0
  BY <1>4, <1>7 DEF GenesisBlockId
<1>10. HoldsExactly(blockring, {h}) /\ HoldsOnce(blockring)
  BY <1>4, IndexHolds
<1> HIDE DEF id
<1>11. /\ Core({h}, {h}, {}, ring, [id |-> Id[h], hash |-> h], genesis_block_id')
       /\ PurgedBelow(ring) = {}
  BY <1>2, <1>3, <1>8, <1>9, <1>10, CoreWindsFirst
<1> HIDE DEF h, ring
<1>12. purge' = {} /\ Kept' = {h} /\ Wound' = {h} /\ last_block'.hash = h /\ last_block'.id = Id[h]
  BY <1>1, <1>4, <1>5, <1>7, <1>11
<1>13. Unwound' = {}
  BY <1>12 DEF Unwound
<1>14. Core(Kept', Wound', Unwound', blockring', last_block', genesis_block_id')
  BY <1>1, <1>7, <1>11, <1>12, <1>13
<1>15. waiting
  BY <1>3, <1>4 DEF WaitInv
<1>16. PurgeInv'
  BY <1>12 DEF PurgeInv
<1>17. last_block'.id # 0 /\ last_block'.hash \in Wound'
  BY <1>6, <1>12
<1>18. \A j \in 1 .. wind.index : j < wind.index => new_chain[j] \notin purge'
  BY <1>12
<1>19. adding \notin purge'
  BY <1>12
<1>20. QED
  BY <1>14, <1>15, <1>16, <1>17, <1>18, <1>19, WindKeeps DEF h

\* A block at or below the height of the head is wound, while that is off the chain.
LEMMA WindBelow ==
  ASSUME TypeInv, RingIndexesBlocks, ReorgInv, BlocksFollowParents, WindBlock, last_block.id # 0,
         last_block.id >= Id[new_chain[wind.index]]
  PROVE  ReorgInv'
<1> DEFINE h == new_chain[wind.index]
           i == wind.index
<1>1. /\ UNCHANGED <<blocks, adding, waiting, new_chain, old_chain, shared, last_block, genesis_block_id>>
      /\ pc = "wind" /\ pc' = "purge" /\ blockring' = PutOnLongestChain(blockring, h) /\ purge' = {}
      /\ Kept' = blocks /\ Wound' = Wound \cup {h} /\ Moving'
      /\ h \notin InChain(old_chain) /\ (i = 1 <=> h = adding)
  <2>1. /\ UNCHANGED <<blocks, adding, waiting, new_chain, old_chain, shared, last_block, genesis_block_id>>
        /\ pc = "wind" /\ pc' = "purge" /\ blockring' = PutOnLongestChain(blockring, h) /\ purge' = {}
        /\ Kept' = blocks \ purge' /\ Wound' = (Wound \cup {h}) \ purge' /\ Moving'
        /\ h \notin InChain(old_chain) /\ (i = 1 <=> h = adding)
    BY WindShape
  <2>2. QED
    BY <2>1
<1>2. /\ Winds /\ Moving /\ purge = {} /\ h \in blocks /\ h \in Hash
      /\ Core(blocks, Wound, Unwound, blockring, last_block, genesis_block_id)
      /\ IsPath(blocks, Wound, Tip)
      /\ i \in 1 .. Len(new_chain)
      /\ Tip # NoHash => Parent[h] = Tip
      /\ Tip = NoHash => Parent[h] \notin blocks
  BY <1>1, WindOnTip
<1>3. /\ blocks \in SUBSET Hash /\ blockring \in Ring /\ last_block \in ChainHead
      /\ last_block.id \in Nat /\ i \in Nat /\ Len(new_chain) \in Nat /\ old_chain \in Seq(Hash)
  BY Types, LenProperties
<1>4. Id[h] \in Nat /\ Id[h] <= last_block.id
  BY <1>2, <1>3, BlockType DEF h
<1> HIDE DEF h
<1>5. last_block.hash \notin Wound
  <2>1. SUFFICES ASSUME last_block.hash \in Wound
                 PROVE  FALSE
    OBVIOUS
  <2>2. last_block.id = LatestId(blockring) /\ last_block.hash = LatestHash(blockring)
    BY <1>2, <2>1 DEF Core
  <2>3. Tip \in Hash /\ Tip # NoHash /\ last_block.id = Id[Tip] /\ Id[Tip] \in Nat
    BY <1>2, <1>3, <2>1, <2>2, BlockType DEF IsPath, Tip, LatestId
  <2>4. Id[h] = Id[Tip] + 1
    BY <1>2, <2>3 DEF BlocksFollowParents
  <2>5. QED
    BY <1>4, <2>3, <2>4
<1>6. CatchesUp /\ \A j \in i + 1 .. Len(new_chain) : new_chain[j] \in Wound
  <2>1. Rest = i
    BY <1>1 DEF Rest
  <2>2. QED
    BY <1>2, <1>5, <2>1 DEF Winds
<1>7. last_block.hash \notin Wound \cup {h}
  <2>1. last_block.hash \in InChain(old_chain)
    BY <1>3, <1>6, ChainBlocks DEF CatchesUp
  <2>2. QED
    BY <1>1, <1>5, <2>1
<1>8. Core(blocks, Wound \cup {h}, Unwound, blockring', last_block, genesis_block_id)
  <2>1. HoldsExactly(blockring, blocks)
    BY IndexHolds
  <2>2. Core(blocks, Wound \cup {h}, Unwound, PutOnLongestChain(blockring, h), last_block, genesis_block_id)
    BY <1>2, <1>3, <1>4, <1>7, <2>1, CoreWindsBelow DEF Tip
  <2>3. QED
    BY <1>1, <2>2
<1>9. Unwound' = Unwound
  BY <1>1, <1>2, <1>5, <1>7 DEF Unwound
<1>10. Core(Kept', Wound', Unwound', blockring', last_block', genesis_block_id')
  BY <1>1, <1>8, <1>9
<1>11. waiting \/ genesis_block_id' # 0
  BY <1>1 DEF ReorgInv, WaitInv
<1>12. PurgeInv'
  BY <1>1 DEF PurgeInv
<1>13. CatchesUp'
  <2>1. StartsAtEdge => StartsAtEdge'
    BY <1>1 DEF StartsAtEdge
  <2>2. QED
    BY <1>1, <1>6, <2>1 DEF CatchesUp
<1>14. i # 1
  BY <1>1, <1>3, <1>4, <1>6 DEF CatchesUp
<1>15. \A j \in i .. Len(new_chain) : new_chain[j] \in Wound'
  <2>1. ASSUME NEW j \in i .. Len(new_chain)
        PROVE  j = i \/ j \in i + 1 .. Len(new_chain)
    BY <1>3
  <2>2. QED
    BY <1>1, <1>6, <2>1 DEF h
<1>16. last_block'.id # 0
  BY <1>1
<1>17. adding \notin purge' /\ \A j \in 1 .. i : j < i => new_chain[j] \notin purge'
  BY <1>1
<1>18. QED
  BY <1>10, <1>11, <1>12, <1>13, <1>14, <1>15, <1>16, <1>17, WindKeeps

\* What the reorganisation has unwound does not reach below the chain it winds, but for
\* the edge of the ring.
LEMMA UnwoundIsAbove ==
  ASSUME TypeInv, ReorgInv, BlocksFollowParents, pc = "wind", last_block.id # 0,
         last_block.id < Id[new_chain[wind.index]], NEW floor \in Int, floor = last_block.id + 1 - RingSize
  PROVE  /\ Tip # NoHash
         /\ \E w \in Wound : \A o \in Unwound : Id[w] <= Id[o] \/ Id[w] <= floor + 1
         /\ \A o \in Unwound : Parent[o] \in blocks \/ Id[o] = 1 \/ Id[o] <= floor + 1
<1> DEFINE h == new_chain[wind.index]
           i == wind.index
           n == Len(old_chain)
<1>1. /\ Branches /\ Winds /\ Moving
      /\ Core(blocks, Wound, Unwound, blockring, last_block, genesis_block_id)
      /\ IsPath(blocks, Wound, Tip)
      /\ i \in 1 .. Len(new_chain) /\ h \in Hash
      /\ Tip = NoHash => i = Len(new_chain) /\ CatchesUp /\ StartsAtEdge
  BY WindOnTip
<1>2. /\ blocks \subseteq Hash /\ last_block.id \in Nat /\ i \in Nat /\ Len(new_chain) \in Nat
      /\ old_chain \in Seq(Hash) /\ new_chain \in Seq(Hash) /\ n \in Nat
  BY Types, LenProperties
<1>3. floor + 1 = last_block.id - RingSize + 2
  BY <1>2, RingSizeType
<1>4. Wound \subseteq blocks /\ \A o \in Unwound : Id[o] <= last_block.id /\ o \in Hash /\ Id[o] \in Nat
  BY <1>1, <1>2, BlockType DEF IsPath, Core
<1>5. Tip # NoHash
  <2>1. SUFFICES ASSUME Tip = NoHash
                 PROVE  FALSE
    OBVIOUS
  <2>2. h = Bottom(new_chain) /\ old_chain # <<>> /\ StartsAtEdge
    BY <1>1, <2>1 DEF Bottom, CatchesUp
  <2>3. PICK o \in InChain(old_chain) : Id[o] = Id[h]
    BY <2>2 DEF StartsAtEdge
  <2>4. Wound = {} /\ NoHash \notin Hash
    BY <1>1, <2>1, RingAssumption DEF IsPath
  <2>5. Unwound = InChain(old_chain)
    BY <1>1, <2>4 DEF Unwound
  <2>6. Id[h] <= last_block.id /\ Id[h] \in Nat
    BY <1>1, <1>4, <2>3, <2>5, BlockType
  <2>7. QED
    BY <1>2, <2>6
<1>6. Tip \in Wound
  BY <1>1, <1>5 DEF IsPath
<1>7. CASE last_block.hash \in Wound
  <2>1. Unwound = {}
    BY <1>7 DEF Unwound
  <2>2. QED
    BY <1>5, <1>6, <2>1
<1>8. CASE last_block.hash \notin Wound
  <2> DEFINE b == Bottom(old_chain)
             e == Bottom(new_chain)
  <2>1. Unwound = InChain(old_chain)
    BY <1>1, <1>8 DEF Unwound
  <2>2. CatchesUp /\ \A j \in i + 1 .. Len(new_chain) : new_chain[j] \in Wound
    <3>1. Rest = i
      BY DEF Rest
    <3>2. QED
      BY <1>1, <1>8, <3>1 DEF Winds
  <2>3. /\ InChain(old_chain) \subseteq blocks /\ IsBranch(old_chain) /\ b \in Unwound
        /\ \A o \in Unwound : Id[b] <= Id[o]
        /\ Unwound = {old_chain[k] : k \in 1 .. n} /\ n \in 1 .. n
    BY <1>1, <1>2, <2>1, <2>2, ChainBlocks, BranchHeights DEF CatchesUp, Branches
  <2>4. ASSUME NEW o \in Unwound, o # b
        PROVE  Parent[o] \in blocks
    <3>1. PICK k \in 1 .. n : o = old_chain[k]
      BY <2>3
    <3>2. k # n
      BY <2>4, <3>1 DEF Bottom
    <3>3. k \in 1 .. n - 1 /\ k + 1 \in 1 .. n
      BY <1>2, <3>1, <3>2
    <3>4. Parent[o] = old_chain[k + 1]
      BY <2>3, <3>1, <3>3 DEF IsBranch
    <3>5. old_chain[k + 1] \in Unwound
      BY <2>3, <3>3
    <3>6. QED
      BY <2>1, <2>3, <3>4, <3>5
  <2>5. b \in Hash /\ Id[b] \in Nat /\ Id[b] > 0
    BY <1>4, <2>3, BlockType
  <2>6. CASE shared # NoHash
    <3>1. shared \in Wound /\ Parent[b] = shared /\ shared \in Hash
      BY <1>2, <1>4, <2>2, <2>6 DEF CatchesUp
    <3>2. Id[b] = Id[shared] + 1 /\ Id[shared] \in Nat
      BY <2>5, <3>1, BlockType DEF BlocksFollowParents
    <3>3. \A o \in Unwound : Id[shared] <= Id[o]
      BY <1>4, <2>3, <2>5, <3>2
    <3>4. \A o \in Unwound : Parent[o] \in blocks
      BY <1>4, <2>4, <3>1
    <3>5. QED
      BY <1>5, <3>1, <3>3, <3>4
  <2>7. CASE shared = NoHash
    <3>1. StartsAtEdge
      BY <2>2, <2>7 DEF CatchesUp
    <3>2. i < Len(new_chain)
      BY <1>1, <1>2, <1>5, <2>7 DEF Winds, Rest
    <3>3. Len(new_chain) \in i + 1 .. Len(new_chain)
      BY <1>2, <3>2
    <3>4. e \in Wound /\ Id[e] \in Nat
      BY <1>2, <1>4, <2>2, <3>3, BlockType DEF Bottom
    <3>5. Id[e] = 1 \/ Id[e] = floor + 1
      BY <1>3, <3>1 DEF StartsAtEdge
    <3>6. \A o \in Unwound : Id[e] <= Id[o] \/ Id[e] <= floor + 1
      <4>1. CASE Id[e] = 1
        <5>1. \A o \in Unwound : Id[o] > 0
          BY <1>4, BlockType
        <5>2. QED
          BY <1>4, <4>1, <5>1
      <4>2. CASE Id[e] = floor + 1
        BY <3>4, <4>2
      <4>3. QED
        BY <3>5, <4>1, <4>2
    <3>7. Id[b] <= Id[e]
      <4>1. PICK o \in Unwound : Id[o] = Id[e]
        BY <2>1, <3>1 DEF StartsAtEdge
      <4>2. QED
        BY <2>3, <4>1
    <3>8. Id[b] = 1 \/ Id[b] <= floor + 1
      BY <2>5, <3>4, <3>5, <3>7
    <3>9. QED
      BY <1>5, <2>4, <3>4, <3>6, <3>8
  <2>8. QED
    BY <2>6, <2>7
<1>9. QED
  BY <1>7, <1>8

\* A block above the head is wound: it is the head from then on.
LEMMA WindAbove ==
  ASSUME TypeInv, RingIndexesBlocks, ReorgInv, BlocksFollowParents, WindBlock, last_block.id # 0,
         ~(last_block.id >= Id[new_chain[wind.index]])
  PROVE  ReorgInv'
<1> DEFINE h == new_chain[wind.index]
           i == wind.index
           ring == PutOnLongestChain(blockring, h)
           floor == last_block.id + 1 - RingSize
           P == PurgedBelow(ring)
           G == genesis_block_id'
<1>1. /\ UNCHANGED <<blocks, adding, waiting, new_chain>>
      /\ pc = "wind" /\ pc' = "purge" /\ blockring' = ring
      /\ last_block' = [id |-> Id[h], hash |-> h]
      /\ G = GenesisBlockId(ring)
      /\ purge' = P
      /\ Kept' = blocks \ purge' /\ Wound' = (Wound \cup {h}) \ purge'
      /\ LatestId(ring) = Id[h]
      /\ \A j \in 1 .. i : new_chain[j] \in blocks /\ Id[h] <= Id[new_chain[j]]
      /\ (i = 1 <=> h = adding)
  BY WindShape
<1>2. /\ h \in blocks /\ h \in Hash /\ i \in 1 .. Len(new_chain) /\ Branches
      /\ Core(blocks, Wound, Unwound, blockring, last_block, genesis_block_id)
      /\ Tip # NoHash => Parent[h] = Tip
  BY <1>1, WindOnTip
<1>3. /\ blocks \in SUBSET Hash /\ blockring \in Ring /\ last_block \in ChainHead
      /\ last_block.id \in Nat /\ i \in Nat /\ Len(new_chain) \in Nat
  BY Types, LenProperties
<1>4. Id[h] \in Nat /\ Id[h] # 0 /\ last_block.id < Id[h]
  BY <1>2, <1>3, BlockType
<1>5. floor \in Int /\ floor = Floor(last_block)
  <2>1. \A x, y \in Nat : x + 1 - y \in Int
    OBVIOUS
  <2>2. QED
    BY <1>3, <2>1, RingSizeType DEF Floor
<1>6. /\ G = GenesisFrom(ring, h, genesis_block_id)
      /\ Window(h) # 0
  <2>1. Window(h) # 0
    BY <1>4, WindowStart DEF Window
  <2>2. QED
    BY <1>1, <2>1 DEF GenesisBlockId, GenesisFrom, Window
<1>7. HoldsExactly(blockring, blocks) /\ HoldsOnce(blockring)
  BY IndexHolds
<1>8. /\ Tip # NoHash
      /\ \E w \in Wound : \A o \in Unwound : Id[w] <= Id[o] \/ Id[w] <= floor + 1
      /\ \A o \in Unwound : Parent[o] \in blocks \/ Id[o] = 1 \/ Id[o] <= floor + 1
  BY <1>1, <1>4, <1>5, UnwoundIsAbove
<1>9. Parent[h] = LatestHash(blockring) /\ LatestHash(blockring) # NoHash
  BY <1>2, <1>8 DEF Tip
<1>10. Meets(blocks, Wound, Unwound, last_block)
  BY <1>5, <1>8 DEF Meets
<1> HIDE DEF h, floor, G
<1>11. /\ Core(blocks \ P, (Wound \cup {h}) \ P, {}, ring, [id |-> Id[h], hash |-> h], G)
       /\ \A d \in P : d \in blocks /\ Id[d] < Id[h]
       /\ \A d \in P : \E c \in (Wound \cup {h}) \ P : SlotOf(Id[c]) = SlotOf(Id[d])
  <2>1. /\ Core(blocks, Wound, Unwound, blockring, last_block, genesis_block_id)
        /\ h \in blocks /\ last_block.id # 0
    BY <1>2
  <2>2. LET Q == PurgedBelow(PutOnLongestChain(blockring, h))
        IN  /\ Core(blocks \ Q, (Wound \cup {h}) \ Q, {}, PutOnLongestChain(blockring, h),
                    [id |-> Id[h], hash |-> h], GenesisFrom(PutOnLongestChain(blockring, h), h, genesis_block_id))
            /\ \A d \in Q : d \in blocks /\ Id[d] < Id[h]
            /\ \A d \in Q : \E c \in (Wound \cup {h}) \ Q : SlotOf(Id[c]) = SlotOf(Id[d])
    BY <2>1, <1>3, <1>4, <1>7, <1>9, <1>10, CoreWindsHead
  <2>3. QED
    BY <1>6, <2>2
<1> HIDE DEF ring, P
<1>12. Kept' = blocks \ P /\ Wound' = (Wound \cup {h}) \ P /\ last_block'.hash = h /\ last_block'.id = Id[h]
  BY <1>1
<1>13. h \notin P
  BY <1>4, <1>11
<1>14. last_block'.hash \in Wound'
  BY <1>12, <1>13
<1>15. Unwound' = {}
  BY <1>14 DEF Unwound
<1>16. Core(Kept', Wound', Unwound', blockring', last_block', genesis_block_id')
  BY <1>1, <1>11, <1>12, <1>15 DEF G
<1>17. PurgeInv'
  BY <1>1, <1>11, <1>12 DEF PurgeInv
<1>18. waiting \/ genesis_block_id' # 0
  <2>1. waiting \/ genesis_block_id # 0
    BY DEF ReorgInv, WaitInv
  <2>2. QED
    BY <1>6, <2>1 DEF GenesisFrom, G
<1>19. \A j \in 1 .. i : new_chain[j] \notin purge'
  <2>1. ASSUME NEW j \in 1 .. i, new_chain[j] \in P
        PROVE  FALSE
    <3>1. Id[new_chain[j]] < Id[h] /\ Id[h] <= Id[new_chain[j]] /\ new_chain[j] \in Hash
      BY <1>1, <1>3, <1>11, <2>1
    <3>2. QED
      BY <1>4, <3>1, BlockType
  <2>2. QED
    BY <1>1, <2>1
<1>20. adding \notin purge'
  <2>1. adding = new_chain[1] /\ 1 \in 1 .. i
    BY <1>2, <1>3 DEF Branches
  <2>2. QED
    BY <1>19, <2>1
<1>21. last_block'.id # 0
  BY <1>4, <1>12
<1>22. QED
  BY <1>14, <1>16, <1>17, <1>18, <1>19, <1>20, <1>21, WindKeeps DEF h

\* Whatever block is wound next.
LEMMA WindReorg ==
  ASSUME TypeInv, RingIndexesBlocks, ReorgInv, BlocksFollowParents, WindBlock
  PROVE  ReorgInv'
BY WindFirst, WindBelow, WindAbove

-----------------------------------------------------------------------------
(* Every step.                                                             *)

LEMMA AddBlocksReorg ==
  ASSUME TypeInv, RingIndexesBlocks, ReorgInv, BlocksFollowParents, PeersAgreeOnStart,
         AddBlocksStep, FailsBeforeItMoves
  PROVE  ReorgInv'
<1>1. CASE \E h \in batch : Refuse(h) \/ Postpone(h) \/ TakeIn(h)
  BY <1>1, BatchReorg, TakeInReorg
<1>2. CASE ExtendNewChain \/ FindSharedAncestor \/ MissSharedAncestor
  BY <1>2, ExtendNewReorg, FindReorg, MissReorg
<1>3. CASE ExtendOldChain \/ EndOldChain
  BY <1>3, ExtendOldReorg, EndOldReorg
<1>4. CASE SelectOther \/ SelectLongest
  BY <1>4, SelectOtherReorg, SelectLongestReorg
<1>5. CASE UnwindCheckpoint \/ WindCheckpoint \/ RejectBlock
  BY <1>5, FirstFailsReorg
<1>6. CASE UnwindBlock \/ WindBlock
  BY <1>6, UnwindReorg, WindReorg
<1>7. CASE \E h \in purge : PurgeBlock(h)
  BY <1>7, PurgeReorg
<1>8. CASE EndPurge \/ Accept \/ Fail \/ Succeed \/ EndBatch
  BY <1>8, EndPurgeReorg, AcceptReorg, FailReorg, SucceedReorg, EndBatchReorg
<1>9. QED
  BY <1>1, <1>2, <1>3, <1>4, <1>5, <1>6, <1>7, <1>8 DEF AddBlocksStep

LEMMA NextReorg ==
  ASSUME BlocksFollowParents, PeersAgreeOnStart,
         TypeInv, RingIndexesBlocks, ReorgInv, [Next]_vars, [FailsBeforeItMoves]_vars
  PROVE  ReorgInv'
<1>1. CASE UNCHANGED vars
  BY <1>1, SameReorg
<1>2. CASE Next /\ FailsBeforeItMoves
  <2>1. ~Crash
    BY <1>2 DEF FailsBeforeItMoves
  <2>2. CASE \E h \in Hash : ReceiveBlock(h) \/ IgnoreBlock(h)
    BY <2>2, ReceiveReorg
  <2>3. CASE AddBlocksStep
    BY <1>2, <2>3, AddBlocksReorg
  <2>4. CASE HandleUpdate
    BY <2>4, UpdateReorg
  <2>5. QED
    BY <1>2, <2>1, <2>2, <2>3, <2>4 DEF Next
<1>3. QED
  BY <1>1, <1>2

\* The strengthening of what the node promises about its longest chain: the flags, the
\* ring and the head tell one path of blocks at every step of winding and unwinding,
\* whatever the tree of blocks, the window and the order in which blocks arrive, as
\* long as no failure comes after the chain has moved.
THEOREM ReorganizationCorrect ==
  ASSUME BlocksFollowParents, PeersAgreeOnStart
  PROVE  (Spec /\ [][FailsBeforeItMoves]_vars) => []ReorgInv
<1>1. TypeInv /\ RingIndexesBlocks /\ ReorgInv /\ [Next]_vars /\ [FailsBeforeItMoves]_vars => ReorgInv'
  BY NextReorg
<1>2. QED
  BY <1>1, InitReorg, TypeInvCorrect, IndexCorrect, PTL DEF Spec

-----------------------------------------------------------------------------
(* What the invariant says of the node.                                    *)

LEMMA FlagsAreNoted ==
  ASSUME TypeInv, RingIndexesBlocks, ReorgInv
  PROVE  RingAgreesWithFlags /\ GenesisIsServed
<1>1. blocks \subseteq Hash /\ blockring \in Ring /\ genesis_block_id \in Nat
  BY Types DEF TypeInv, TypeOK
<1>2. HoldsExactly(blockring, blocks)
  BY IndexHolds
<1>3. ASSUME Settled
      PROVE  /\ IsNoted(blocks, in_longest_chain, blockring, LatestId(blockring))
             /\ in_longest_chain \subseteq blocks
             /\ genesis_block_id = 0 \/ \E c \in in_longest_chain : Id[c] = genesis_block_id
  <2>1. Core(blocks, in_longest_chain, {}, blockring, last_block, genesis_block_id)
        /\ last_block.id = LatestId(blockring)
    BY <1>3, SettledPhase, RestCore
  <2>2. in_longest_chain \cup {} = in_longest_chain
    OBVIOUS
  <2>3. QED
    BY <2>1, <2>2 DEF Core, IsPath
<1>4. RingAgreesWithFlags
  <2>1. SUFFICES ASSUME Settled, NEW h \in blocks, Id[h] <= LatestId(blockring)
                 PROVE  h \in in_longest_chain <=> LongestChainHashAt(blockring, Id[h]) = h
    BY DEF RingAgreesWithFlags
  <2>2. h \in Hash /\ Id[h] \in Nat /\ h # NoHash
    BY <1>1, BlockType
  <2>3. EntryFor(blockring, h) = h <=> h \in in_longest_chain
    BY <1>3, <2>1 DEF IsNoted
  <2>4. EntryFor(blockring, h) = h => LongestChainHashAt(blockring, Id[h]) = h
    BY <1>1, <1>2, <2>2, HeightIsRead DEF EntryFor
  <2>5. LongestChainHashAt(blockring, Id[h]) = h => EntryFor(blockring, h) = h
    BY <1>1, <1>2, <2>2, HeightIsRead DEF EntryFor
  <2>6. QED
    BY <2>3, <2>4, <2>5
<1>5. GenesisIsServed
  <2>1. SUFFICES ASSUME pc = "idle", genesis_block_id # 0
                 PROVE  LongestChainHashAt(blockring, genesis_block_id) # NoHash
    BY DEF GenesisIsServed
  <2>2. Settled
    BY <2>1 DEF Settled
  <2>3. PICK c \in in_longest_chain : Id[c] = genesis_block_id
    BY <1>3, <2>1, <2>2
  <2>4. c \in Hash /\ c # NoHash /\ EntryFor(blockring, c) = c
    BY <1>1, <1>3, <2>2, BlockType DEF IsNoted
  <2>5. LongestChainHashAt(blockring, genesis_block_id) = c
    BY <1>1, <1>2, <2>3, <2>4, HeightIsRead DEF EntryFor
  <2>6. QED
    BY <2>4, <2>5
<1>6. QED
  BY <1>4, <1>5

LEMMA ChainIsLinked ==
  ASSUME TypeInv, ReorgInv
  PROVE  LongestChainIsLinked /\ HeadIsTip
<1>1. SUFFICES ASSUME Settled
               PROVE  /\ \A h \in in_longest_chain : h = Tip \/ \E g \in in_longest_chain : Parent[g] = h
                      /\ last_block = [id |-> LatestId(blockring), hash |-> Tip]
  BY DEF LongestChainIsLinked, HeadIsTip
<1>2. /\ IsPath(blocks, in_longest_chain, Tip)
      /\ last_block.id = LatestId(blockring) /\ last_block.hash = Tip
  BY <1>1, SettledPhase, RestCore
<1>3. last_block \in ChainHead
  BY Types
<1>4. QED
  BY <1>2, <1>3 DEF IsPath, ChainHead

\* The supply is looked at when there is a tip only.
LEMMA SupplyNeedsTip ==
  ASSUME TypeInv, RingIndexesBlocks, ReorgInv, pc \in {"wind", "verdict"}
  PROVE  TipIsKnown
<1>1. /\ blocks \subseteq Hash /\ blockring \in Ring /\ last_block.id \in Nat
      /\ HoldsExactly(blockring, blocks)
  BY Types, IndexHolds DEF TypeInv, TypeOK
<1>2. SUFFICES ASSUME HasTotalSupplyLoaded(blockring), LatestHash(blockring) \notin blocks
               PROVE  FALSE
  BY DEF TipIsKnown
<1>3. Core(Kept, Wound, Unwound, blockring, last_block, genesis_block_id) /\ Kept = blocks
  BY DEF ReorgInv, CoreInv, PurgeInv, Kept
<1>4. LatestHash(blockring) = NoHash /\ Wound = {}
  BY <1>2, <1>3 DEF Core, IsPath
<1>5. LatestId(blockring) = 0
  BY <1>4 DEF LatestId
<1>6. GenesisPeriod \in Nat
  BY RingAssumption
<1>7. LongestChainHashAt(blockring, 1) # NoHash
  BY <1>2, <1>5, <1>6 DEF HasTotalSupplyLoaded
<1>8. PICK e \in blocks : Id[e] = 1 /\ EntryFor(blockring, e) = e /\ e # NoHash
  BY <1>1, <1>7, HeightIsRead DEF EntryFor
<1>9. CASE last_block.id = 0
  <2>1. IsBlank(blockring)
    BY <1>9 DEF ReorgInv, StartInv
  <2>2. SlotOf(Id[e]) \in Slots
    BY <1>1, <1>8, BlockType
  <2>3. QED
    BY <1>1, <1>8, <2>1, <2>2, BlankRing DEF EntryFor
<1>10. CASE last_block.id # 0
  <2>1. Id[e] <= last_block.id
    BY <1>1, <1>8, <1>10
  <2>2. e \in Wound
    BY <1>3, <1>8, <2>1 DEF Core, IsNoted
  <2>3. QED
    BY <1>4, <2>2
<1>11. QED
  BY <1>9, <1>10

LEMMA NothingPanics ==
  ASSUME TypeInv, RingIndexesBlocks, ReorgInv, DeletedAreKnown
  PROVE  NoPanic
<1>1. new_chain \in Seq(Hash) /\ old_chain \in Seq(Hash)
  BY Types DEF TypeInv, TypeOK
<1>2. ASSUME pc = "unwind"
      PROVE  CanUnwind
  <2>1. wind.index \in 1 .. Len(old_chain) /\ InChain(old_chain) \subseteq blocks
    BY <1>2 DEF ReorgInv, PhaseInv, Unwinds, CatchesUp
  <2>2. QED
    BY <1>1, <2>1, ChainBlocks DEF CanUnwind
<1>3. ASSUME pc = "wind"
      PROVE  CanWind
  <2>1. wind.index \in 1 .. Len(new_chain) /\ new_chain[wind.index] \in blocks
    BY <1>3, WindOnTip
  <2>2. wind.index \in DOMAIN new_chain
    BY <1>1, <2>1, LenProperties
  <2>3. QED
    BY <1>3, <2>1, <2>2, SupplyNeedsTip DEF CanWind
<1>4. QED
  BY <1>2, <1>3, SupplyNeedsTip DEF NoPanic

\* Between two calls of add_block, a block up to the tip is flagged as of the longest
\* chain exactly if the ring names it for its height, although winding, unwinding,
\* deleting and RingItem's shifting positions set the two in different places.
THEOREM RingAgreesWithFlagsCorrect ==
  ASSUME BlocksFollowParents, PeersAgreeOnStart
  PROVE  (Spec /\ [][FailsBeforeItMoves]_vars) => []RingAgreesWithFlags
<1>1. TypeInv /\ RingIndexesBlocks /\ ReorgInv => RingAgreesWithFlags
  BY FlagsAreNoted
<1>2. QED
  BY <1>1, ReorganizationCorrect, TypeInvCorrect, IndexCorrect, PTL

\* The flagged blocks are one chain: a reorganisation leaves no block of the old branch
\* flagged, and none of the new one unflagged.
THEOREM LongestChainIsLinkedCorrect ==
  ASSUME BlocksFollowParents, PeersAgreeOnStart
  PROVE  (Spec /\ [][FailsBeforeItMoves]_vars) => []LongestChainIsLinked
<1>1. TypeInv /\ ReorgInv => LongestChainIsLinked
  BY ChainIsLinked
<1>2. QED
  BY <1>1, ReorganizationCorrect, TypeInvCorrect, PTL

\* The head that is persisted, which only wind_chain moves and only upwards, is the tip
\* of the ring, which unwinding moves down as well, whenever a call is done.
THEOREM HeadIsTipCorrect ==
  ASSUME BlocksFollowParents, PeersAgreeOnStart
  PROVE  (Spec /\ [][FailsBeforeItMoves]_vars) => []HeadIsTip
<1>1. TypeInv /\ ReorgInv => HeadIsTip
  BY ChainIsLinked
<1>2. QED
  BY <1>1, ReorganizationCorrect, TypeInvCorrect, PTL

\* Winding, unwinding, deleting, pruning and the check of the supply find every block
\* they look up: none of their unwraps and expects panics, though wind_chain deletes
\* old blocks between two blocks of the chains add_block has collected.
THEOREM NoPanicCorrect ==
  ASSUME BlocksFollowParents, PeersAgreeOnStart
  PROVE  (Spec /\ [][FailsBeforeItMoves]_vars) => []NoPanic
<1>1. TypeInv /\ RingIndexesBlocks /\ ReorgInv /\ DeletedAreKnown => NoPanic
  BY NothingPanics
<1>2. QED
  BY <1>1, ReorganizationCorrect, TypeInvCorrect, IndexCorrect, DeletedAreKnownAlways, PTL

\* A peer that asks for the genesis block gets an answer: genesis_block_id, which moves
\* while winding and again when the routing thread hears of the end of the
\* synchronisation, is the height of a block of the longest chain.
THEOREM GenesisIsServedCorrect ==
  ASSUME BlocksFollowParents, PeersAgreeOnStart
  PROVE  (Spec /\ [][FailsBeforeItMoves]_vars) => []GenesisIsServed
<1>1. TypeInv /\ RingIndexesBlocks /\ ReorgInv => GenesisIsServed
  BY FlagsAreNoted
<1>2. QED
  BY <1>1, ReorganizationCorrect, TypeInvCorrect, IndexCorrect, PTL

-----------------------------------------------------------------------------
(* The work of a set of blocks.                                            *)

\* Of a family of finite sets one has no other of them below it.
LEMMA LeastFiniteSet ==
  ASSUME NEW F, F # {}, \A S \in F : IsFiniteSet(S)
  PROVE  \E S \in F : \A T \in F : T \subseteq S => T = S
<1> DEFINE Sizes == {Cardinality(S) : S \in F}
<1>1. Sizes \in SUBSET Nat /\ Sizes # {}
  BY FS_CardinalityType
<1>2. PICK n \in Sizes : \A m \in Sizes : n <= m
  BY <1>1, LeastNumber
<1>3. PICK S \in F : n = Cardinality(S)
  OBVIOUS
<1>4. ASSUME NEW T \in F, T \subseteq S
      PROVE  T = S
  <2>1. n <= Cardinality(T)
    BY <1>2
  <2>2. Cardinality(T) <= n /\ Cardinality(S) \in Nat /\ Cardinality(T) \in Nat
    BY <1>3, <1>4, FS_Subset, FS_CardinalityType
  <2>3. Cardinality(S) = Cardinality(T)
    BY <1>3, <2>1, <2>2
  <2>4. QED
    BY <1>4, <2>3, FS_Subset
<1>5. QED
  BY <1>4

\* The block the sum starts with.
SomeOf(S) == CHOOSE x \in S : TRUE

\* The sum MapThenSumSet makes, as the function it is defined with.
IsSum(f, S) ==
  f = [s \in SUBSET S |-> IF s = {} THEN 0 ELSE Burnfee[SomeOf(s)] + f[s \ {SomeOf(s)}]]

\* Work is defined by the choice of such a function.
LEMMA WorkIsSum ==
  ASSUME NEW S
  PROVE  Work(S) = (CHOOSE f : IsSum(f, S))[S]
BY DEF Work, MapThenSumSet, MapThenFoldSet, IsSum, SomeOf

\* Two such functions agree.
LEMMA SumsAgree ==
  ASSUME NEW S, NEW T, IsFiniteSet(S), NEW f, NEW g, IsSum(f, S), IsSum(g, T), NEW R, R \subseteq S, R \subseteq T
  PROVE  f[R] = g[R]
<1> DEFINE Bad == {Q \in SUBSET S : Q \subseteq T /\ f[Q] # g[Q]}
<1>1. SUFFICES ASSUME Bad # {}
               PROVE  FALSE
  OBVIOUS
<1>2. PICK Q \in Bad : \A P \in Bad : P \subseteq Q => P = Q
  <2>1. \A P \in Bad : IsFiniteSet(P)
    BY FS_Subset
  <2> HIDE DEF Bad
  <2>2. QED
    BY <1>1, <2>1, LeastFiniteSet
<1>3. Q # {}
  BY <1>2 DEF IsSum
<1> DEFINE x == SomeOf(Q)
<1>4. x \in Q
  BY <1>3 DEF SomeOf
<1>5. f[Q] = Burnfee[x] + f[Q \ {x}] /\ g[Q] = Burnfee[x] + g[Q \ {x}]
  BY <1>2, <1>3 DEF IsSum, SomeOf
<1>6. Q \ {x} \notin Bad
  BY <1>2, <1>4
<1>7. QED
  BY <1>2, <1>5, <1>6

\* There is one for every finite set.
LEMMA SumExists ==
  ASSUME NEW U, IsFiniteSet(U)
  PROVE  IsSum(CHOOSE f : IsSum(f, U), U)
<1> DEFINE F(S) == CHOOSE f : IsSum(f, S)
           Bad == {S \in SUBSET U : ~ \E f : IsSum(f, S)}
<1>1. SUFFICES ASSUME Bad # {}
               PROVE  FALSE
  OBVIOUS
<1>2. PICK S \in Bad : \A P \in Bad : P \subseteq S => P = S
  <2>1. \A P \in Bad : IsFiniteSet(P)
    BY FS_Subset
  <2> HIDE DEF Bad
  <2>2. QED
    BY <1>1, <2>1, LeastFiniteSet
<1>3. \A T \in SUBSET S : T # S => IsSum(F(T), T) /\ IsFiniteSet(T)
  <2>1. SUFFICES ASSUME NEW T \in SUBSET S, T # S
                 PROVE  IsSum(F(T), T) /\ IsFiniteSet(T)
    OBVIOUS
  <2>2. T \in SUBSET U /\ T \notin Bad
    BY <1>2, <2>1
  <2>3. \E f : IsSum(f, T)
    BY <2>2
  <2>4. QED
    BY <2>2, <2>3, FS_Subset
<1> DEFINE W(T) == F(T)[T]
           f == [s \in SUBSET S |-> IF s = {} THEN 0 ELSE Burnfee[SomeOf(s)] + W(s \ {SomeOf(s)})]
<1>4. ASSUME NEW s \in SUBSET S, s # S
      PROVE  W(s) = IF s = {} THEN 0 ELSE Burnfee[SomeOf(s)] + W(s \ {SomeOf(s)})
  <2>1. IsSum(F(s), s) /\ IsFiniteSet(s)
    BY <1>3, <1>4
  <2>2. CASE s = {}
    BY <2>1, <2>2 DEF IsSum
  <2>3. CASE s # {}
    <3> DEFINE r == s \ {SomeOf(s)}
    <3>1. r \in SUBSET S /\ r # S /\ r \subseteq s
      BY <1>4
    <3>2. IsSum(F(r), r)
      BY <1>3, <3>1
    <3>3. F(s)[r] = F(r)[r]
      BY <2>1, <3>1, <3>2, SumsAgree
    <3>4. F(s)[s] = Burnfee[SomeOf(s)] + F(s)[r]
      BY <2>1, <2>3 DEF IsSum, SomeOf
    <3>5. QED
      BY <2>3, <3>3, <3>4
  <2>4. QED
    BY <2>2, <2>3
<1>5. ASSUME NEW s \in SUBSET S, s # {}
      PROVE  f[s \ {SomeOf(s)}] = W(s \ {SomeOf(s)})
  <2>1. s \ {SomeOf(s)} \in SUBSET S /\ s \ {SomeOf(s)} # S
    BY <1>5 DEF SomeOf
  <2>2. QED
    BY <1>4, <2>1
<1>6. \A s \in SUBSET S : f[s] = IF s = {} THEN 0 ELSE Burnfee[SomeOf(s)] + f[s \ {SomeOf(s)}]
  <2>1. \A s \in SUBSET S : f[s] = IF s = {} THEN 0 ELSE Burnfee[SomeOf(s)] + W(s \ {SomeOf(s)})
    OBVIOUS
  <2> HIDE DEF f, W
  <2>2. QED
    BY <1>5, <2>1
<1>7. IsSum(f, S)
  <2>1. f = [s \in SUBSET S |-> f[s]]
    OBVIOUS
  <2> HIDE DEF f
  <2>2. [s \in SUBSET S |-> f[s]] =
           [s \in SUBSET S |-> IF s = {} THEN 0 ELSE Burnfee[SomeOf(s)] + f[s \ {SomeOf(s)}]]
    BY <1>6
  <2>3. QED
    BY <2>1, <2>2 DEF IsSum
<1>8. QED
  BY <1>2, <1>7

\* The work of a set of blocks, one block of the code's choice at a time.
LEMMA WorkChooses ==
  ASSUME NEW S, IsFiniteSet(S)
  PROVE  Work(S) = IF S = {} THEN 0 ELSE Burnfee[SomeOf(S)] + Work(S \ {SomeOf(S)})
<1> DEFINE T == S \ {SomeOf(S)}
           f == CHOOSE h : IsSum(h, S)
           g == CHOOSE h : IsSum(h, T)
<1>1. IsFiniteSet(T) /\ T \subseteq S
  BY FS_Subset
<1>2. IsSum(f, S) /\ IsSum(g, T)
  BY <1>1, SumExists
<1>3. Work(S) = f[S] /\ Work(T) = g[T]
  BY WorkIsSum
<1> HIDE DEF f, g
<1>4. f[T] = g[T]
  BY <1>1, <1>2, SumsAgree
<1>5. f[S] = IF S = {} THEN 0 ELSE Burnfee[SomeOf(S)] + f[T]
  BY <1>2 DEF IsSum, SomeOf
<1>6. QED
  BY <1>3, <1>4, <1>5

\* No blocks have no work.
LEMMA WorkOfNone == Work({}) = 0
BY FS_EmptySet, WorkChooses

\* A set of blocks has a number for its work.
LEMMA WorkType ==
  ASSUME NEW U \in SUBSET Hash, IsFiniteSet(U)
  PROVE  Work(U) \in Nat
<1> DEFINE Bad == {S \in SUBSET U : Work(S) \notin Nat}
<1>1. SUFFICES ASSUME Bad # {}
               PROVE  FALSE
  OBVIOUS
<1>2. PICK S \in Bad : \A T \in Bad : T \subseteq S => T = S
  <2>1. \A T \in Bad : IsFiniteSet(T)
    BY FS_Subset
  <2> HIDE DEF Bad
  <2>2. QED
    BY <1>1, <2>1, LeastFiniteSet
<1>3. S # {} /\ IsFiniteSet(S)
  <2>1. Work(S) \notin Nat /\ S \subseteq U
    BY <1>2
  <2>2. IsFiniteSet(S)
    BY <2>1, FS_Subset
  <2>3. 0 \in Nat
    OBVIOUS
  <2>4. QED
    BY <2>1, <2>2, <2>3, WorkOfNone
<1> DEFINE x == SomeOf(S)
<1>4. x \in S /\ Burnfee[x] \in Nat
  BY <1>2, <1>3, BlockchainAssumption DEF SomeOf
<1>5. S \ {x} \notin Bad
  BY <1>2, <1>4
<1>6. Work(S \ {x}) \in Nat
  BY <1>5
<1>7. Work(S) = Burnfee[x] + Work(S \ {x})
  BY <1>3, WorkChooses
<1>8. QED
  BY <1>2, <1>4, <1>6, <1>7

\* The sum does not depend on the order of its terms.
LEMMA WorkTakesOut ==
  ASSUME NEW U \in SUBSET Hash, IsFiniteSet(U), NEW a \in U
  PROVE  Work(U) = Burnfee[a] + Work(U \ {a})
<1> DEFINE Bad == {S \in SUBSET U : \E b \in S : Work(S) # Burnfee[b] + Work(S \ {b})}
<1>1. SUFFICES ASSUME Bad # {}
               PROVE  FALSE
  OBVIOUS
<1>2. PICK S \in Bad : \A T \in Bad : T \subseteq S => T = S
  <2>1. \A T \in Bad : IsFiniteSet(T)
    BY FS_Subset
  <2> HIDE DEF Bad
  <2>2. QED
    BY <1>1, <2>1, LeastFiniteSet
<1>3. PICK b \in S : Work(S) # Burnfee[b] + Work(S \ {b})
  BY <1>2
<1> DEFINE x == SomeOf(S)
<1>4. x \in S
  BY <1>3 DEF SomeOf
<1>5. IsFiniteSet(S) /\ S \in SUBSET Hash
  BY <1>2, FS_Subset
<1>6. Work(S) = Burnfee[x] + Work(S \ {x})
  BY <1>3, <1>5, WorkChooses
<1>7. x # b
  BY <1>3, <1>6
<1>8. Work(S \ {x}) = Burnfee[b] + Work((S \ {x}) \ {b})
  <2>1. S \ {x} \notin Bad /\ S \ {x} \in SUBSET U /\ b \in S \ {x}
    BY <1>2, <1>3, <1>4, <1>7
  <2> HIDE DEF x
  <2>2. QED
    BY <2>1
<1>9. Work(S \ {b}) = Burnfee[x] + Work((S \ {b}) \ {x})
  <2>1. S \ {b} \notin Bad /\ S \ {b} \in SUBSET U /\ x \in S \ {b}
    BY <1>2, <1>3, <1>4, <1>7
  <2> HIDE DEF x
  <2>2. QED
    BY <2>1
<1>10. (S \ {x}) \ {b} = (S \ {b}) \ {x}
  OBVIOUS
<1>11. /\ Burnfee[x] \in Nat /\ Burnfee[b] \in Nat
       /\ Work((S \ {b}) \ {x}) \in Nat
  <2>1. (S \ {b}) \ {x} \in SUBSET Hash /\ IsFiniteSet((S \ {b}) \ {x})
    BY <1>5, FS_Subset
  <2>2. QED
    BY <1>3, <1>4, <1>5, <2>1, WorkType, BlockchainAssumption
<1>12. \A i, j, k, l, m \in Nat : (l = j + m /\ k = i + m) => i + l = j + k
  OBVIOUS
<1>13. Burnfee[x] + Work(S \ {x}) = Burnfee[b] + Work(S \ {b})
  <2> DEFINE m == Work((S \ {b}) \ {x})
  <2>1. Work(S \ {x}) = Burnfee[b] + m /\ Work(S \ {b}) = Burnfee[x] + m
    BY <1>8, <1>9, <1>10
  <2>2. Work(S \ {x}) \in Nat /\ Work(S \ {b}) \in Nat /\ m \in Nat
    BY <1>11, <2>1
  <2> HIDE DEF m, x
  <2>3. QED
    BY <1>11, <1>12, <2>1, <2>2
<1>14. QED
  BY <1>3, <1>6, <1>13

\* The work of two sets that have no block in common is the sum.
LEMMA WorkAdds ==
  ASSUME NEW U \in SUBSET Hash, NEW V \in SUBSET Hash, IsFiniteSet(U), IsFiniteSet(V), U \cap V = {}
  PROVE  Work(U \cup V) = Work(U) + Work(V)
<1> DEFINE Bad == {S \in SUBSET U : Work(S \cup V) # Work(S) + Work(V)}
<1>1. SUFFICES ASSUME Bad # {}
               PROVE  FALSE
  OBVIOUS
<1>2. PICK S \in Bad : \A T \in Bad : T \subseteq S => T = S
  <2>1. \A T \in Bad : IsFiniteSet(T)
    BY FS_Subset
  <2> HIDE DEF Bad
  <2>2. QED
    BY <1>1, <2>1, LeastFiniteSet
<1>3. IsFiniteSet(S) /\ S \in SUBSET Hash
  BY <1>2, FS_Subset
<1>4. S # {}
  <2>1. {} \cup V = V /\ Work(V) \in Nat
    BY WorkType
  <2>2. Work({} \cup V) = Work({}) + Work(V)
    BY <2>1, WorkOfNone
  <2>3. QED
    BY <1>2, <2>2
<1>5. PICK x \in S : TRUE
  BY <1>4
<1>6. S \ {x} \notin Bad /\ S \ {x} \in SUBSET U
  BY <1>2
<1>7. Work((S \ {x}) \cup V) = Work(S \ {x}) + Work(V)
  BY <1>6
<1>8. Work(S) = Burnfee[x] + Work(S \ {x})
  BY <1>3, WorkTakesOut
<1>9. Work(S \cup V) = Burnfee[x] + Work((S \ {x}) \cup V)
  <2>1. (S \cup V) \ {x} = (S \ {x}) \cup V
    BY <1>2
  <2>2. IsFiniteSet(S \cup V) /\ S \cup V \in SUBSET Hash /\ x \in S \cup V
    BY <1>3, FS_Union
  <2>3. QED
    BY <2>1, <2>2, WorkTakesOut
<1>10. Burnfee[x] \in Nat /\ Work(S \ {x}) \in Nat /\ Work(V) \in Nat
  <2>1. IsFiniteSet(S \ {x}) /\ S \ {x} \in SUBSET Hash
    BY <1>3, FS_Subset
  <2>2. QED
    BY <1>3, <2>1, WorkType, BlockchainAssumption
<1>11. QED
  BY <1>2, <1>7, <1>8, <1>9, <1>10

\* Comparing two sets where they differ is comparing them.
LEMMA WorkOfDifference ==
  ASSUME NEW U \in SUBSET Hash, NEW V \in SUBSET Hash, IsFiniteSet(U), IsFiniteSet(V)
  PROVE  /\ Work(U) \in Nat /\ Work(V) \in Nat /\ Work(U \ V) \in Nat /\ Work(V \ U) \in Nat
         /\ Work(U \ V) - Work(V \ U) = Work(U) - Work(V)
<1>1. U = (U \ V) \cup (U \cap V) /\ V = (V \ U) \cup (U \cap V)
  OBVIOUS
<1>2. /\ (U \ V) \in SUBSET Hash /\ (V \ U) \in SUBSET Hash /\ (U \cap V) \in SUBSET Hash
      /\ IsFiniteSet(U \ V) /\ IsFiniteSet(V \ U) /\ IsFiniteSet(U \cap V)
  BY FS_Subset
<1>3. Work(U) = Work(U \ V) + Work(U \cap V) /\ Work(V) = Work(V \ U) + Work(U \cap V)
  <2>1. (U \ V) \cap (U \cap V) = {} /\ (V \ U) \cap (U \cap V) = {}
    OBVIOUS
  <2>2. Work((U \ V) \cup (U \cap V)) = Work(U \ V) + Work(U \cap V)
    BY <1>2, <2>1, WorkAdds
  <2>3. Work((V \ U) \cup (U \cap V)) = Work(V \ U) + Work(U \cap V)
    BY <1>2, <2>1, WorkAdds
  <2>4. QED
    BY <1>1, <2>2, <2>3
<1>4. Work(U \ V) \in Nat /\ Work(V \ U) \in Nat /\ Work(U \cap V) \in Nat /\ Work(U) \in Nat /\ Work(V) \in Nat
  BY <1>2, WorkType
<1>5. QED
  BY <1>3, <1>4

-----------------------------------------------------------------------------
(* A block and its ancestors.                                              *)

\* The recursion of Ancestors.
IsAncestry(f) == f = [h \in Hash |-> {h} \cup (IF Parent[h] \in Hash THEN f[Parent[h]] ELSE {})]

\* What is left out of no set that holds the block and the parents of its members.
Line == [h \in Hash |-> {g \in Hash : \A S \in SUBSET Hash :
           (h \in S /\ \A s \in S : Parent[s] \in Hash => Parent[s] \in S) => g \in S}]

\* It solves the recursion.
LEMMA LineIsAncestry == IsAncestry(Line)
<1>1. ASSUME NEW h \in Hash
      PROVE  Line[h] = {h} \cup (IF Parent[h] \in Hash THEN Line[Parent[h]] ELSE {})
  <2> DEFINE p == Parent[h]
             rest == IF p \in Hash THEN Line[p] ELSE {}
             T == {h} \cup rest
  <2>1. T \in SUBSET Hash /\ h \in T
    BY DEF Line
  <2>2. p \in Hash => p \in Line[p]
    BY DEF Line
  <2>3. ASSUME NEW s \in Line[p], p \in Hash, Parent[s] \in Hash
        PROVE  Parent[s] \in Line[p]
    <3>1. s \in Hash
      BY <2>3 DEF Line
    <3>2. SUFFICES ASSUME NEW S \in SUBSET Hash, p \in S, \A t \in S : Parent[t] \in Hash => Parent[t] \in S
                   PROVE  Parent[s] \in S
      BY <2>3 DEF Line
    <3>3. s \in S
      BY <2>3, <3>2 DEF Line
    <3>4. QED
      BY <2>3, <3>2, <3>3
  <2>4. \A s \in T : Parent[s] \in Hash => Parent[s] \in T
    BY <2>2, <2>3
  <2>5. Line[h] \subseteq T
    BY <2>1, <2>4 DEF Line
  <2>6. h \in Line[h]
    BY DEF Line
  <2>7. ASSUME NEW g \in Line[p], p \in Hash
        PROVE  g \in Line[h]
    <3>1. g \in Hash
      BY <2>7 DEF Line
    <3>2. SUFFICES ASSUME NEW S \in SUBSET Hash, h \in S, \A t \in S : Parent[t] \in Hash => Parent[t] \in S
                   PROVE  g \in S
      BY <3>1 DEF Line
    <3>3. p \in S
      BY <2>7, <3>2
    <3>4. QED
      BY <2>7, <3>2, <3>3 DEF Line
  <2>8. QED
    BY <2>5, <2>6, <2>7
<1>2. Line = [h \in Hash |-> Line[h]]
  BY DEF Line
<1>3. [h \in Hash |-> Line[h]] = [h \in Hash |-> {h} \cup (IF Parent[h] \in Hash THEN Line[Parent[h]] ELSE {})]
  BY <1>1
<1>4. QED
  BY <1>2, <1>3 DEF IsAncestry

\* The recursion of Ancestors has a solution, so Ancestors is one.
LEMMA AncestorsOf ==
  ASSUME NEW h \in Hash
  PROVE  Ancestors[h] = {h} \cup (IF Parent[h] \in Hash THEN Ancestors[Parent[h]] ELSE {})
<1>1. Ancestors = CHOOSE f : IsAncestry(f)
  BY DEF Ancestors, IsAncestry
<1>2. IsAncestry(Ancestors)
  BY <1>1, LineIsAncestry
<1>3. QED
  BY <1>2 DEF IsAncestry

\* Under a block there is no higher one, every parent, and only so many.
LEMMA AncestorsBelow ==
  ASSUME BlocksFollowParents, NEW h \in Hash
  PROVE  /\ Ancestors[h] \subseteq Hash /\ h \in Ancestors[h]
         /\ \A a \in Ancestors[h] : Id[a] <= Id[h] /\ (a # h => Id[a] < Id[h])
         /\ \A a \in Ancestors[h] : Parent[a] \in Hash => Parent[a] \in Ancestors[h]
         /\ IsFiniteSet(Ancestors[h])
<1> DEFINE Good(g) ==
             /\ Ancestors[g] \subseteq Hash /\ g \in Ancestors[g]
             /\ \A a \in Ancestors[g] : Id[a] <= Id[g] /\ (a # g => Id[a] < Id[g])
             /\ \A a \in Ancestors[g] : Parent[a] \in Hash => Parent[a] \in Ancestors[g]
             /\ IsFiniteSet(Ancestors[g])
           Bad == {Id[g] : g \in {g \in Hash : ~Good(g)}}
<1>1. ASSUME NEW g \in Hash, Parent[g] \in Hash => Good(Parent[g])
      PROVE  Good(g)
  <2> DEFINE p == Parent[g]
  <2>1. Ancestors[g] = {g} \cup (IF p \in Hash THEN Ancestors[p] ELSE {})
    BY AncestorsOf
  <2>2. CASE p \notin Hash
    <3>1. Ancestors[g] = {g}
      BY <2>1, <2>2
    <3>2. IsFiniteSet({g}) /\ Id[g] <= Id[g]
      BY FS_Singleton, BlockType
    <3>3. QED
      BY <2>2, <3>1, <3>2
  <2>3. CASE p \in Hash
    <3>1. Good(p)
      BY <1>1, <2>3
    <3>2. Ancestors[g] = Ancestors[p] \cup {g}
      BY <2>1, <2>3
    <3>3. Id[g] = Id[p] + 1 /\ Id[p] \in Nat
      BY <2>3, BlockType DEF BlocksFollowParents
    <3>4. IsFiniteSet(Ancestors[g])
      BY <3>1, <3>2, FS_AddElement
    <3>5. \A a \in Ancestors[g] : Id[a] <= Id[g] /\ (a # g => Id[a] < Id[g])
      <4>1. \A a \in Ancestors[p] : Id[a] \in Nat /\ Id[a] <= Id[p]
        BY <3>1, BlockType
      <4>2. Id[g] \in Nat
        BY BlockType
      <4>3. QED
        BY <3>2, <3>3, <4>1, <4>2
    <3>6. \A a \in Ancestors[g] : Parent[a] \in Hash => Parent[a] \in Ancestors[g]
      BY <3>1, <3>2
    <3>7. QED
      BY <3>1, <3>2, <3>4, <3>5, <3>6
  <2>4. QED
    BY <2>2, <2>3
<1> HIDE DEF Good
<1>2. SUFFICES ASSUME Bad # {}
               PROVE  FALSE
  BY DEF Good
<1>3. Bad \in SUBSET Nat
  BY BlockType
<1>4. PICK n \in Bad : \A m \in Bad : n <= m
  BY <1>2, <1>3, LeastNumber
<1>5. PICK g \in Hash : ~Good(g) /\ Id[g] = n
  OBVIOUS
<1>6. Parent[g] \in Hash /\ ~Good(Parent[g])
  BY <1>1, <1>5
<1>7. Id[Parent[g]] \in Bad
  BY <1>6
<1>8. Id[g] = Id[Parent[g]] + 1 /\ Id[Parent[g]] \in Nat
  BY <1>6, BlockType DEF BlocksFollowParents
<1>9. QED
  BY <1>4, <1>5, <1>7, <1>8

\* A set that holds a block and the parents of its members holds its ancestors.
LEMMA AncestorsLeast ==
  ASSUME BlocksFollowParents, NEW S \in SUBSET Hash, NEW h \in S,
         \A s \in S : Parent[s] \in Hash => Parent[s] \in S
  PROVE  Ancestors[h] \subseteq S
<1> DEFINE Bad == {Id[g] : g \in {g \in S : ~(Ancestors[g] \subseteq S)}}
<1>1. SUFFICES ASSUME Bad # {}
               PROVE  FALSE
  OBVIOUS
<1>2. Bad \in SUBSET Nat
  BY BlockType
<1>3. PICK n \in Bad : \A m \in Bad : n <= m
  BY <1>1, <1>2, LeastNumber
<1>4. PICK g \in S : ~(Ancestors[g] \subseteq S) /\ Id[g] = n
  OBVIOUS
<1>5. Ancestors[g] = {g} \cup (IF Parent[g] \in Hash THEN Ancestors[Parent[g]] ELSE {})
  BY AncestorsOf
<1>6. Parent[g] \in Hash /\ Parent[g] \in S /\ ~(Ancestors[Parent[g]] \subseteq S)
  BY <1>4, <1>5
<1>7. Id[Parent[g]] \in Bad
  BY <1>6
<1>8. Id[g] = Id[Parent[g]] + 1 /\ Id[Parent[g]] \in Nat
  BY <1>6, BlockType DEF BlocksFollowParents
<1>9. QED
  BY <1>3, <1>4, <1>7, <1>8

\* The ancestors of the upper end of a branch: its blocks, and those of its lower end.
LEMMA BranchAncestors ==
  ASSUME NEW c \in Seq(Hash), c # <<>>, IsBranch(c)
  PROVE  Ancestors[c[1]] = InChain(c) \cup (IF Parent[Bottom(c)] \in Hash THEN Ancestors[Parent[Bottom(c)]] ELSE {})
<1> DEFINE Below(h) == IF Parent[h] \in Hash THEN Ancestors[Parent[h]] ELSE {}
           Upper(i) == {c[j] : j \in 1 .. i}
           Bad == {i \in 1 .. Len(c) : Ancestors[c[1]] # Upper(i) \cup Below(c[i])}
<1>1. Len(c) \in Nat /\ Len(c) \in 1 .. Len(c) /\ 1 \in 1 .. Len(c) /\ InChain(c) = Upper(Len(c))
  BY ChainBlocks
<1>2. \A i \in 1 .. Len(c) : c[i] \in Hash /\ Ancestors[c[i]] = {c[i]} \cup Below(c[i])
  BY ElementOfSeq, AncestorsOf
<1>3. Bad = {}
  <2>1. SUFFICES ASSUME Bad # {}
                 PROVE  FALSE
    OBVIOUS
  <2>2. PICK i \in Bad : \A m \in Bad : i <= m
    <3>1. Bad \in SUBSET Nat
      BY <1>1
    <3> HIDE DEF Bad
    <3>2. QED
      BY <2>1, <3>1, LeastNumber
  <2>3. i # 1
    <3>1. Upper(1) = {c[1]}
      OBVIOUS
    <3> HIDE DEF Below
    <3>2. QED
      BY <1>1, <1>2, <2>2, <3>1
  <2>4. i - 1 \in 1 .. Len(c) /\ i - 1 \in 1 .. Len(c) - 1 /\ (i - 1) + 1 = i /\ i \in 1 .. Len(c)
    BY <1>1, <2>2, <2>3
  <2>5. i - 1 \notin Bad
    BY <1>1, <2>2, <2>4
  <2>6. Ancestors[c[1]] = Upper(i - 1) \cup Below(c[i - 1])
    BY <2>4, <2>5
  <2>7. Parent[c[i - 1]] = c[i]
    BY <2>4 DEF IsBranch
  <2>8. Below(c[i - 1]) = {c[i]} \cup Below(c[i])
    BY <1>2, <2>4, <2>7
  <2>9. Upper(i) = Upper(i - 1) \cup {c[i]}
    <3>1. 1 .. i = (1 .. i - 1) \cup {i}
      BY <2>4
    <3>2. QED
      BY <3>1
  <2> HIDE DEF Below, Upper
  <2>10. QED
    BY <2>2, <2>6, <2>8, <2>9
<1>4. QED
  BY <1>1, <1>3 DEF Bottom

\* A path that reaches height 1 is the tip and its ancestors.
LEMMA PathIsAncestry ==
  ASSUME BlocksFollowParents, NEW B \in SUBSET Hash, NEW C, NEW t \in Hash \cup {NoHash},
         IsPath(B, C, t), NEW w \in C, Id[w] = 1
  PROVE  t \in Hash /\ C = Ancestors[t]
<1>1. C \subseteq Hash /\ t \in C /\ t \in Hash
  BY RingAssumption DEF IsPath
<1>2. ASSUME NEW s \in C, Parent[s] \in Hash
      PROVE  Parent[s] \in C
  <2>1. Id[s] = Id[Parent[s]] + 1 /\ Id[Parent[s]] \in Nat /\ Id[Parent[s]] > 0
    BY <1>1, <1>2, BlockType DEF BlocksFollowParents
  <2>2. Id[w] < Id[s]
    BY <2>1
  <2>3. QED
    BY <2>2, ParentOnPath
<1>3. Ancestors[t] \subseteq C
  BY <1>1, <1>2, AncestorsLeast
<1>4. C \subseteq Ancestors[t]
  <2> DEFINE Bad == {k \in Nat : \E h \in C : h \notin Ancestors[t] /\ Id[h] + k = Id[t]}
  <2>1. SUFFICES ASSUME NEW h \in C, h \notin Ancestors[t]
                 PROVE  FALSE
    OBVIOUS
  <2>2. \A g \in C : Id[g] \in Nat /\ Id[g] <= Id[t]
    BY <1>1, BlockType DEF IsPath
  <2>3. Bad # {}
    <3>1. Id[t] - Id[h] \in Nat /\ Id[h] + (Id[t] - Id[h]) = Id[t]
      BY <1>1, <2>2
    <3>2. Id[t] - Id[h] \in Bad
      BY <2>1, <3>1
    <3>3. QED
      BY <3>2
  <2>4. PICK k \in Bad : \A m \in Bad : k <= m
    BY <2>3, LeastNumber
  <2>5. PICK g \in C : g \notin Ancestors[t] /\ Id[g] + k = Id[t]
    BY <2>4
  <2>6. t \in Ancestors[t]
    BY <1>1, AncestorsBelow
  <2>7. PICK d \in C : Parent[d] = g
    BY <2>5, <2>6 DEF IsPath
  <2>8. Id[d] = Id[g] + 1 /\ Id[d] \in Nat /\ Id[d] <= Id[t]
    BY <1>1, <2>2, <2>7 DEF BlocksFollowParents
  <2>9. d \notin Ancestors[t]
    BY <1>1, <2>5, <2>7, AncestorsBelow
  <2>10. k - 1 \in Nat /\ Id[d] + (k - 1) = Id[t]
    BY <1>1, <2>2, <2>4, <2>5, <2>8
  <2>11. k - 1 \in Bad
    BY <2>9, <2>10
  <2>12. QED
    BY <2>4, <2>10, <2>11
<1>5. QED
  BY <1>1, <1>3, <1>4

-----------------------------------------------------------------------------
(* What add_block compares when it chooses between two chains.             *)

\* Beats compares two blocks by height, and by all the work behind them.
LEMMA BeatsByWork ==
  ASSUME BlocksFollowParents, NEW h \in Hash, NEW g \in Hash
  PROVE  /\ Work(Ancestors[h]) \in Nat /\ Work(Ancestors[g]) \in Nat
         /\ Chain!Beats(h, g) <=> Id[h] > Id[g] /\ Work(Ancestors[h]) >= Work(Ancestors[g])
<1>1. h # NoHash /\ g # NoHash
  BY BlockType
<1>2. /\ Ancestors[h] \in SUBSET Hash /\ IsFiniteSet(Ancestors[h])
      /\ Ancestors[g] \in SUBSET Hash /\ IsFiniteSet(Ancestors[g])
  BY AncestorsBelow
<1> DEFINE D == Ancestors[h] \ Ancestors[g]
           E == Ancestors[g] \ Ancestors[h]
<1>3. Chain!Beats(h, g) <=> Id[h] > Id[g] /\ Work(D) >= Work(E)
  <2>1. Chain!Ancestors = Ancestors
    BY DEF Chain!Ancestors, Ancestors
  <2>2. Chain!Branch(h) = Ancestors[h] /\ Chain!Branch(g) = Ancestors[g]
    BY <1>1, <2>1 DEF Chain!Branch
  <2>3. \A S : Chain!Work(S) = Work(S)
    BY DEF Chain!Work, Work, Chain!MapThenSumSet, MapThenSumSet, Chain!MapThenFoldSet, MapThenFoldSet
  <2>4. Chain!Beats(h, g) <=> Id[h] > Id[g] /\ Chain!Work(D) >= Chain!Work(E)
    BY <1>1, <2>2 DEF Chain!Beats
  <2>5. QED
    BY <2>3, <2>4
<1>4. /\ Work(Ancestors[h]) \in Nat /\ Work(Ancestors[g]) \in Nat /\ Work(D) \in Nat /\ Work(E) \in Nat
      /\ Work(D) - Work(E) = Work(Ancestors[h]) - Work(Ancestors[g])
  BY <1>2, WorkOfDifference
<1> HIDE DEF D, E
<1>5. Work(D) >= Work(E) <=> Work(Ancestors[h]) >= Work(Ancestors[g])
  BY <1>4
<1>6. QED
  BY <1>3, <1>4, <1>5

\* The new chain and the old one meet in a block that is known, or start with the chain.
MeetsOld == latest = NoHash \/ shared # NoHash \/ Parent[Bottom(new_chain)] = NoHash

\* What the two walks have found, when a choice is to be made.
LEMMA WalksAtChoice ==
  ASSUME TypeInv, ReorgInv, BlocksFollowParents, pc = "select"
  PROVE  /\ blocks \in SUBSET Hash /\ new_chain \in Seq(Hash) /\ old_chain \in Seq(Hash)
         /\ adding \in Hash /\ latest \in Hash \cup {NoHash} /\ shared \in Hash \cup {NoHash}
         /\ OldWalk /\ NewWalk /\ ~GoesOn /\ latest = Tip
         /\ new_chain # <<>> /\ new_chain[1] = adding /\ IsBranch(new_chain) /\ IsBranch(old_chain)
         /\ InChain(new_chain) \subseteq blocks \ in_longest_chain
         /\ InChain(old_chain) \subseteq in_longest_chain
         /\ IsPath(blocks, in_longest_chain, latest)
         /\ IsCovered(blocks, in_longest_chain, last_block.id)
         /\ last_block.id = LatestId(blockring)
         /\ LatestId(blockring) = IF latest = NoHash THEN 0 ELSE Id[latest]
         /\ blockring.empty => latest = NoHash
<1>1. OldWalk /\ ~GoesOn /\ NewWalk /\ Rests /\ StartInv
  BY DEF ReorgInv, PhaseInv, OldWalk, Rests, Moving
<1>2. /\ Core(blocks, in_longest_chain, {}, blockring, last_block, genesis_block_id)
      /\ last_block.id = LatestId(blockring) /\ IsPath(blocks, in_longest_chain, Tip)
  BY <1>1, RestCore
<1>3. in_longest_chain \cup {} = in_longest_chain
  OBVIOUS
<1>4. IsCovered(blocks, in_longest_chain, last_block.id)
  BY <1>2, <1>3 DEF Core
<1>5. latest = Tip /\ LatestId(blockring) = IF latest = NoHash THEN 0 ELSE Id[latest]
  BY <1>1 DEF NewWalk, Tip, LatestId
<1>6. adding \in Hash /\ latest \in Hash \cup {NoHash} /\ shared \in Hash \cup {NoHash}
  BY Types DEF Settled
<1>7. blockring.empty => latest = NoHash
  BY <1>1, <1>2, <1>5, <1>6, BlockType DEF StartInv
<1>8. QED
  BY <1>1, <1>2, <1>4, <1>5, <1>6, <1>7, Types DEF OldWalk, NewWalk

\* The walk down the old chain has come to the shared ancestor, if there is one.
LEMMA OldChainMeets ==
  ASSUME TypeInv, ReorgInv, BlocksFollowParents, pc = "select", latest # NoHash, shared # NoHash
  PROVE  cursor = shared
<1>1. /\ old_chain \in Seq(Hash) /\ OldWalk /\ ~GoesOn
      /\ IsPath(blocks, in_longest_chain, latest) /\ blocks \in SUBSET Hash
  BY WalksAtChoice
<1>2. SUFFICES cursor \in blocks
  BY <1>1 DEF GoesOn
<1>3. CASE old_chain = <<>>
  BY <1>1, <1>3 DEF OldWalk, IsPath
<1>4. CASE old_chain # <<>>
  <2>1. shared \in in_longest_chain /\ shared \notin InChain(old_chain) /\ cursor = Parent[Bottom(old_chain)]
    BY <1>1, <1>4 DEF OldWalk
  <2>2. Parent[Bottom(old_chain)] \in in_longest_chain
    BY <1>1, <1>4, <2>1, OldChainIsTop DEF OldWalk
  <2>3. QED
    BY <1>1, <2>1, <2>2 DEF IsPath
<1>5. QED
  BY <1>3, <1>4

\* Two branches part at a block: where they differ is what is above it.
LEMMA BranchesPart ==
  ASSUME NEW P, NEW Q, NEW R, P \cap Q = {}, P \cap R = {}, Q \cap R = {}
  PROVE  (P \cup R) \ (Q \cup R) = P
OBVIOUS

\* A new chain that would be longer than the old one is compared block by block to what
\* the old one has more than it.
LEMMA ChainsAreDifferences ==
  ASSUME TypeInv, ReorgInv, BlocksFollowParents, pc = "select", latest # NoHash, MeetsOld,
         Id[latest] < Id[adding]
  PROVE  /\ Ancestors[adding] \ Ancestors[latest] = InChain(new_chain)
         /\ Ancestors[latest] \ Ancestors[adding] = InChain(old_chain)
         /\ Len(old_chain) < Len(new_chain)
<1> DEFINE b == Bottom(new_chain)
           d == Bottom(old_chain)
           Below(p) == IF p \in Hash THEN Ancestors[p] ELSE {}
<1>1. /\ blocks \in SUBSET Hash /\ new_chain \in Seq(Hash) /\ old_chain \in Seq(Hash)
      /\ adding \in Hash /\ latest \in Hash /\ shared \in Hash \cup {NoHash}
      /\ OldWalk /\ NewWalk /\ ~GoesOn
      /\ new_chain # <<>> /\ new_chain[1] = adding /\ IsBranch(new_chain) /\ IsBranch(old_chain)
      /\ InChain(new_chain) \subseteq blocks \ in_longest_chain
      /\ InChain(old_chain) \subseteq in_longest_chain
      /\ IsPath(blocks, in_longest_chain, latest)
      /\ IsCovered(blocks, in_longest_chain, last_block.id)
      /\ last_block.id = Id[latest]
  BY WalksAtChoice
<1>2. /\ Len(new_chain) \in Nat /\ Len(old_chain) \in Nat
      /\ Id[adding] \in Nat /\ Id[latest] \in Nat
      /\ InChain(new_chain) \cap InChain(old_chain) = {}
      /\ latest \in in_longest_chain /\ latest \in blocks
      /\ b \in InChain(new_chain) /\ b \in Hash /\ Id[b] \in Nat
  BY <1>1, LenProperties, BlockType, ChainBlocks DEF IsPath
<1>3. /\ Id[b] + Len(new_chain) = Id[adding] + 1
      /\ Ancestors[adding] = InChain(new_chain) \cup Below(Parent[b])
      /\ \A h \in InChain(new_chain) : Id[b] <= Id[h]
  <2>1. Len(new_chain) \in 1 .. Len(new_chain)
    BY <1>1, ChainBlocks
  <2>2. QED
    BY <1>1, <2>1, BranchAncestors, BranchHeights DEF Bottom, IsBranch
<1>4. ASSUME old_chain # <<>>
      PROVE  /\ old_chain[1] = latest /\ cursor = Parent[d] /\ d \in in_longest_chain /\ d \in Hash
             /\ Id[d] \in Nat /\ Id[d] > 0
             /\ Id[d] + Len(old_chain) = Id[latest] + 1
             /\ Ancestors[latest] = InChain(old_chain) \cup Below(Parent[d])
             /\ \A h \in InChain(old_chain) : Id[d] <= Id[h]
  <2>1. Len(old_chain) \in 1 .. Len(old_chain) /\ d \in InChain(old_chain) /\ d \in Hash
    BY <1>1, <1>4, ChainBlocks
  <2>2. old_chain[1] = latest /\ cursor = Parent[d]
    BY <1>1, <1>4 DEF OldWalk
  <2>3. Id[d] + Len(old_chain) = Id[old_chain[1]] + 1
    BY <1>1, <2>1 DEF Bottom, IsBranch
  <2>4. QED
    BY <1>1, <1>4, <2>1, <2>2, <2>3, BranchAncestors, BranchHeights, BlockType
<1>5. CASE shared # NoHash
  <2>1. cursor = shared /\ shared \in Hash /\ Parent[b] = shared
    BY <1>1, <1>5, OldChainMeets DEF OldWalk
  <2>2. Id[b] = Id[shared] + 1 /\ Id[shared] \in Nat /\ \A a \in Ancestors[shared] : Id[a] <= Id[shared] /\ Id[a] \in Nat
    BY <1>2, <2>1, BlockType, AncestorsBelow DEF BlocksFollowParents
  <2>3. InChain(new_chain) \cap Ancestors[shared] = {}
    <3>1. \A h \in InChain(new_chain) : Id[h] \in Nat
      BY <1>1, BlockType
    <3>2. QED
      BY <1>2, <1>3, <2>2, <3>1
  <2>4. /\ Ancestors[latest] = InChain(old_chain) \cup Ancestors[shared]
        /\ InChain(old_chain) \cap Ancestors[shared] = {}
        /\ Len(old_chain) = Id[latest] - Id[shared]
    <3>1. CASE old_chain = <<>>
      <4>1. cursor = latest
        BY <1>1, <3>1 DEF OldWalk
      <4>2. QED
        BY <1>2, <2>1, <3>1, <4>1, EmptyBranch
    <3>2. CASE old_chain # <<>>
      <4>1. Parent[d] = shared
        BY <1>4, <2>1, <3>2
      <4>2. Id[d] = Id[shared] + 1
        BY <1>4, <2>1, <3>2, <4>1 DEF BlocksFollowParents
      <4>3. \A h \in InChain(old_chain) : Id[h] \in Nat
        BY <1>1, BlockType DEF IsPath
      <4>4. InChain(old_chain) \cap Ancestors[shared] = {}
        BY <1>4, <2>2, <3>2, <4>2, <4>3
      <4>5. QED
        BY <1>2, <1>4, <2>1, <2>2, <3>2, <4>1, <4>2, <4>4
    <3>3. QED
      BY <3>1, <3>2
  <2>5. Ancestors[adding] = InChain(new_chain) \cup Ancestors[shared]
    BY <1>3, <2>1
  <2>6. Len(old_chain) < Len(new_chain)
    BY <1>2, <1>3, <2>2, <2>4
  <2>7. QED
    BY <1>2, <2>3, <2>4, <2>5, <2>6, BranchesPart
<1>6. CASE shared = NoHash
  <2>1. Parent[b] = NoHash /\ Id[b] = 1
    BY <1>1, <1>2, <1>6 DEF MeetsOld, BlocksFollowParents
  <2>2. PICK w \in in_longest_chain : Id[w] = 1
    <3>1. Id[b] <= last_block.id /\ b \in blocks
      BY <1>1, <1>2, <2>1, BlockType
    <3>2. QED
      BY <1>1, <2>1, <3>1 DEF IsCovered
  <2>3. old_chain # <<>>
    <3>1. SUFFICES ASSUME old_chain = <<>>
                   PROVE  FALSE
      OBVIOUS
    <3>2. cursor \in blocks /\ Len(old_chain) <= Len(new_chain)
      BY <1>1, <1>2, <3>1, EmptySeq DEF OldWalk
    <3>3. QED
      BY <1>1, <1>6, <3>2 DEF GoesOn
  <2>4. Len(old_chain) < Len(new_chain)
    BY <1>2, <1>3, <1>4, <2>1, <2>3
  <2>5. cursor \notin blocks
    BY <1>1, <1>2, <1>6, <2>4 DEF GoesOn
  <2>6. Id[d] = 1
    <3>1. SUFFICES ASSUME Id[w] < Id[d]
                   PROVE  FALSE
      BY <1>4, <2>2, <2>3
    <3>2. Parent[d] \in in_longest_chain
      BY <1>1, <1>4, <2>3, <3>1, ParentOnPath
    <3>3. QED
      BY <1>1, <1>4, <2>3, <2>5, <3>2 DEF IsPath
  <2>7. Parent[d] \notin Hash
    <3>1. SUFFICES ASSUME Parent[d] \in Hash
                   PROVE  FALSE
      OBVIOUS
    <3>2. Id[d] = Id[Parent[d]] + 1 /\ Id[Parent[d]] \in Nat /\ Id[Parent[d]] > 0
      BY <1>4, <2>3, <3>1, BlockType DEF BlocksFollowParents
    <3>3. QED
      BY <2>6, <3>2
  <2>8. Ancestors[latest] = InChain(old_chain) /\ Ancestors[adding] = InChain(new_chain)
    BY <1>3, <1>4, <2>1, <2>3, <2>7, RingAssumption
  <2>9. QED
    BY <1>2, <2>4, <2>8
<1>7. QED
  BY <1>5, <1>6

\* is_new_chain_the_longest_chain, which looks at the two chains, decides what Beats
\* says of the two branches.
LEMMA LongestBeats ==
  ASSUME TypeInv, ReorgInv, BlocksFollowParents, pc = "select", MeetsOld
  PROVE  IsLongest <=> Chain!Beats(adding, latest)
<1>1. /\ new_chain \in Seq(Hash) /\ old_chain \in Seq(Hash) /\ adding \in Hash /\ latest \in Hash \cup {NoHash}
      /\ OldWalk /\ new_chain # <<>>
      /\ LatestId(blockring) = IF latest = NoHash THEN 0 ELSE Id[latest]
      /\ blockring.empty => latest = NoHash
  BY WalksAtChoice
<1>2. Id[adding] \in Nat /\ Id[adding] > 0 /\ LatestId(blockring) \in Nat /\ GenesisPeriod \in Nat
  BY <1>1, BlockType, RingAssumption
<1>3. LatestId(blockring) < Id[adding] => InWindow(Id[adding])
  BY <1>2 DEF InWindow, Monus
<1>4. TotalBurnfee(new_chain) = Work(InChain(new_chain)) /\ TotalBurnfee(old_chain) = Work(InChain(old_chain))
  BY DEF TotalBurnfee, Work
<1>5. CASE latest = NoHash
  <2>1. old_chain = <<>>
    <3>1. old_chain # <<>> => old_chain[1] \in Hash /\ old_chain[1] = latest
      BY <1>1, ChainBlocks DEF OldWalk
    <3>2. QED
      BY <1>5, <3>1, RingAssumption
  <2>2. Len(old_chain) < Len(new_chain)
    BY <1>1, <2>1, ChainBlocks, EmptySeq
  <2>3. Work(InChain(old_chain)) = 0
    BY <2>1, EmptyBranch, WorkOfNone
  <2>4. Work(InChain(new_chain)) \in Nat
    <3>1. InChain(new_chain) \subseteq Ancestors[adding]
      BY <1>1, WalksAtChoice, BranchAncestors
    <3>2. Ancestors[adding] \in SUBSET Hash /\ IsFiniteSet(Ancestors[adding])
      BY <1>1, AncestorsBelow
    <3>3. IsFiniteSet(InChain(new_chain)) /\ InChain(new_chain) \in SUBSET Hash
      BY <3>1, <3>2, FS_Subset
    <3>4. QED
      BY <3>3, WorkType
  <2>5. IsLongest
    BY <1>1, <1>2, <1>3, <1>4, <1>5, <2>2, <2>3, <2>4 DEF IsLongest, IsNewChainTheLongest
  <2>6. QED
    BY <1>5, <2>5 DEF Chain!Beats
<1>6. CASE latest # NoHash
  <2>1. latest \in Hash /\ Id[latest] \in Nat /\ LatestId(blockring) = Id[latest] /\ ~blockring.empty
    BY <1>1, <1>6, BlockType
  <2>2. CASE ~(Id[latest] < Id[adding])
    BY <1>2, <1>6, <2>1, <2>2 DEF IsLongest, IsNewChainTheLongest, Chain!Beats
  <2>3. CASE Id[latest] < Id[adding]
    <3>1. /\ Ancestors[adding] \ Ancestors[latest] = InChain(new_chain)
          /\ Ancestors[latest] \ Ancestors[adding] = InChain(old_chain)
          /\ Len(old_chain) < Len(new_chain)
      BY <1>6, <2>3, ChainsAreDifferences
    <3>2. /\ Ancestors[adding] \in SUBSET Hash /\ IsFiniteSet(Ancestors[adding])
          /\ Ancestors[latest] \in SUBSET Hash /\ IsFiniteSet(Ancestors[latest])
      BY <1>1, <2>1, AncestorsBelow
    <3>3. /\ Work(InChain(new_chain)) \in Nat /\ Work(InChain(old_chain)) \in Nat
          /\ Work(Ancestors[adding]) \in Nat /\ Work(Ancestors[latest]) \in Nat
          /\ Work(InChain(new_chain)) - Work(InChain(old_chain)) = Work(Ancestors[adding]) - Work(Ancestors[latest])
      BY <3>1, <3>2, WorkOfDifference
    <3>4. IsLongest <=> Work(InChain(old_chain)) <= Work(InChain(new_chain))
      BY <1>3, <1>4, <2>1, <2>3, <3>1 DEF IsLongest, IsNewChainTheLongest
    <3>5. Chain!Beats(adding, latest) <=> Work(Ancestors[adding]) >= Work(Ancestors[latest])
      BY <1>1, <1>2, <2>1, <2>3, BeatsByWork
    <3>6. QED
      BY <3>3, <3>4, <3>5
  <2>4. QED
    BY <2>2, <2>3
<1>7. QED
  BY <1>5, <1>6

\* A proper ancestor has a child among the ancestors.
LEMMA AncestorHasChild ==
  ASSUME BlocksFollowParents, NEW h \in Hash, NEW a \in Ancestors[h], a # h
  PROVE  \E c \in Ancestors[h] : Parent[c] = a
<1> DEFINE S == {b \in Ancestors[h] : b # h => \E c \in Ancestors[h] : Parent[c] = b}
<1>1. S \in SUBSET Hash /\ h \in S
  BY AncestorsBelow
<1>2. ASSUME NEW s \in S, Parent[s] \in Hash
      PROVE  Parent[s] \in S
  BY <1>2, AncestorsBelow
<1> HIDE DEF S
<1>3. Ancestors[h] \subseteq S
  BY <1>1, <1>2, AncestorsLeast
<1>4. QED
  BY <1>3 DEF S

\* Under every block there is a first one.
LEMMA AncestryHasRoot ==
  ASSUME BlocksFollowParents, NEW h \in Hash
  PROVE  \E r \in Ancestors[h] : Id[r] = 1
<1> DEFINE Heights == {Id[a] : a \in Ancestors[h]}
<1>1. Ancestors[h] \subseteq Hash /\ h \in Ancestors[h]
  BY AncestorsBelow
<1>2. Heights \in SUBSET Nat /\ Heights # {}
  BY <1>1, BlockType
<1>3. PICK n \in Heights : \A m \in Heights : n <= m
  BY <1>2, LeastNumber
<1>4. PICK r \in Ancestors[h] : Id[r] = n
  OBVIOUS
<1>5. Parent[r] \notin Hash
  <2>1. SUFFICES ASSUME Parent[r] \in Hash
                 PROVE  FALSE
    OBVIOUS
  <2>2. Parent[r] \in Ancestors[h]
    BY <2>1, AncestorsBelow
  <2>3. Id[r] = Id[Parent[r]] + 1 /\ Id[Parent[r]] \in Nat
    BY <1>1, <2>1, BlockType DEF BlocksFollowParents
  <2>4. Id[Parent[r]] \in Heights /\ n \in Nat
    BY <1>2, <2>2
  <2>5. n <= Id[Parent[r]]
    BY <1>3, <2>4
  <2>6. QED
    BY <1>4, <2>3, <2>4, <2>5
<1>6. Parent[r] = NoHash
  BY <1>1, <1>5, BlockchainAssumption
<1>7. QED
  BY <1>1, <1>6 DEF BlocksFollowParents

\* If h beats g, which beats k, then h beats k.
LEMMA BeatsTransitive ==
  ASSUME BlocksFollowParents, NEW h \in Hash, NEW g \in Hash, NEW k \in Hash \cup {NoHash},
         Chain!Beats(h, g), Chain!Beats(g, k)
  PROVE  Chain!Beats(h, k)
<1>1. CASE k = NoHash
  BY <1>1 DEF Chain!Beats
<1>2. CASE k # NoHash
  <2>1. Id[h] > Id[g] /\ Id[g] > Id[k] /\ Id[h] \in Nat /\ Id[g] \in Nat /\ Id[k] \in Nat
    BY <1>2, BeatsByWork, BlockType
  <2>2. /\ Work(Ancestors[h]) \in Nat /\ Work(Ancestors[g]) \in Nat /\ Work(Ancestors[k]) \in Nat
        /\ Work(Ancestors[h]) >= Work(Ancestors[g]) /\ Work(Ancestors[g]) >= Work(Ancestors[k])
    BY <1>2, BeatsByWork
  <2>3. Id[h] > Id[k] /\ Work(Ancestors[h]) >= Work(Ancestors[k])
    BY <2>1, <2>2
  <2>4. QED
    BY <1>2, <2>3, BeatsByWork
<1>3. QED
  BY <1>1, <1>2

-----------------------------------------------------------------------------
(* The choices of add_block, taken together.                               *)

\* The blocks of the node before the one that is being added.
Earlier == IF Settled THEN Kept ELSE Kept \ {adding}

\* Where it stood.
Stood == IF Settled THEN Tip ELSE latest

\* No branch that is known down to its first block beats the chain.
NoneBeats == \A h \in Earlier : Ancestors[h] \subseteq Kept => ~Chain!Beats(h, Stood)

\* The two chains were compared.
Decided == pc \in {"unwind", "wind", "purge", "verdict", "success"}

\* What was decided is what Beats says, and is what was done in the end.
DecisionInv ==
  /\ (Decided /\ Ancestors[adding] \subseteq Kept) => MeetsOld
  /\ (Moving \/ (pc = "verdict" /\ verdict)) => (MeetsOld => Chain!Beats(adding, latest))
  /\ (pc = "verdict" /\ verdict) => Tip = adding
  /\ pc = "success" => /\ Tip \in {adding, latest}
                       /\ MeetsOld => Tip = IF Chain!Beats(adding, latest) THEN adding ELSE latest

\* What add_block has decided so far, for the blocks it knows and the one it adds.
ChoiceInv == NoneBeats /\ DecisionInv

\* A node that starts knows no block.
LEMMA InitChoice == Init => ChoiceInv
<1> SUFFICES ASSUME Init PROVE ChoiceInv
  OBVIOUS
<1>2. blocks = {} /\ purge = {} /\ pc = "idle"
  BY DEF Init
<1>3. Earlier = {}
  BY <1>2 DEF Earlier, Settled, Kept
<1>4. QED
  BY <1>2, <1>3 DEF ChoiceInv, NoneBeats, DecisionInv, Decided, Moving

\* Where no block is added, nothing changes.
LEMMA SettledChoice ==
  ASSUME ChoiceInv, Settled, Settled', UNCHANGED <<blocks, purge, blockring>>
  PROVE  ChoiceInv'
<1>1. UNCHANGED <<Earlier, Kept, Stood>>
  BY DEF Earlier, Kept, Stood, Tip
<1>2. NoneBeats'
  BY <1>1 DEF ChoiceInv, NoneBeats
<1>3. QED
  BY <1>2 DEF ChoiceInv, DecisionInv, Decided, Moving, Settled

\* While a block is being added some others may go.
LEMMA AddingChoice ==
  ASSUME ChoiceInv, ~Settled, ~Settled', UNCHANGED <<adding, latest>>, Kept' \subseteq Kept
  PROVE  NoneBeats'
BY DEF ChoiceInv, NoneBeats, Earlier, Stood

\* Before the choice.
LEMMA WalkChoice ==
  ASSUME ChoiceInv, ~Settled, ~Settled', ~Decided', UNCHANGED <<adding, latest, blocks, purge>>
  PROVE  ChoiceInv'
<1>1. NoneBeats'
  BY AddingChoice DEF Kept
<1>2. QED
  BY <1>1 DEF ChoiceInv, DecisionInv, Decided, Moving

\* A block that is taken in is nobody's parent yet, so it makes no other branch whole.
LEMMA TakeInChoice ==
  ASSUME TypeInv, ReorgInv, ReorgInv', ChoiceInv, BlocksFollowParents, NEW h \in batch, TakeIn(h)
  PROVE  ChoiceInv'
<1>1. /\ pc = "batch" /\ pc' = "new chain" /\ blocks' = blocks \cup {h} /\ h \notin blocks
      /\ adding' = h /\ latest' = LatestHash(blockring) /\ UNCHANGED purge
  BY DEF TakeIn, IsRefused
<1>2. Settled /\ ~Settled' /\ purge = {} /\ ~Decided'
  BY <1>1 DEF Settled, Decided, ReorgInv, PurgeInv
<1>3. Kept = blocks /\ Kept' = blocks \cup {h} /\ Earlier' = Earlier /\ Stood' = Stood /\ h \in Hash
  BY <1>1, <1>2, Types DEF Kept, Earlier, Stood, Tip
<1>4. ASSUME NEW g \in blocks, Ancestors[g] \subseteq Kept'
      PROVE  Ancestors[g] \subseteq Kept
  <2>1. SUFFICES ASSUME h \in Ancestors[g]
                 PROVE  FALSE
    BY <1>3, <1>4
  <2>2. g \in Hash /\ g # h
    BY <1>1, Types
  <2>3. PICK c \in Ancestors[g] : Parent[c] = h
    BY <2>1, <2>2, AncestorHasChild
  <2>4. \A b \in Kept' : Parent[b] # h
    BY <1>1, <1>2 DEF ReorgInv, AddingInv
  <2>5. QED
    BY <1>4, <2>3, <2>4
<1>5. NoneBeats'
  BY <1>2, <1>3, <1>4 DEF ChoiceInv, NoneBeats, Earlier
<1>6. QED
  BY <1>1, <1>2, <1>5 DEF ChoiceInv, DecisionInv, Moving

\* A new chain that is known down to its first block meets the old one.
LEMMA WholeBranchMeets ==
  ASSUME TypeInv, ReorgInv, BlocksFollowParents, pc = "select", Ancestors[adding] \subseteq Kept
  PROVE  MeetsOld
<1> DEFINE b == Bottom(new_chain)
<1>1. /\ new_chain \in Seq(Hash) /\ new_chain # <<>> /\ new_chain[1] = adding /\ IsBranch(new_chain)
      /\ OldWalk
  BY WalksAtChoice
<1>2. b \in Hash /\ Ancestors[adding] = InChain(new_chain) \cup (IF Parent[b] \in Hash THEN Ancestors[Parent[b]] ELSE {})
  BY <1>1, ChainBlocks, BranchAncestors
<1>3. CASE Parent[b] \in Hash
  <2>1. Parent[b] \in blocks /\ Parent[b] # NoHash
    BY <1>2, <1>3, AncestorsBelow, RingAssumption DEF Kept
  <2>2. QED
    BY <1>1, <2>1 DEF OldWalk, MeetsOld
<1>4. CASE Parent[b] \notin Hash
  BY <1>2, <1>4, BlockchainAssumption DEF MeetsOld
<1>5. QED
  BY <1>3, <1>4

\* is_new_chain_the_longest_chain, on the two branches add_block has walked, says what
\* Beats says of the two tips.
LEMMA SelectChoice ==
  ASSUME TypeInv, ReorgInv, ChoiceInv, BlocksFollowParents, SelectOther \/ SelectLongest
  PROVE  ChoiceInv'
<1>1. /\ pc = "select" /\ UNCHANGED <<blocks, purge, adding, latest, new_chain, shared>>
      /\ blockring' = [blockring EXCEPT !.empty = FALSE]
      /\ \/ ~IsLongest /\ pc' = "success"
         \/ IsLongest /\ pc' = "verdict" /\ verdict' = FALSE
         \/ IsLongest /\ pc' = "wind"
         \/ IsLongest /\ pc' = "unwind"
  <2>1. CASE SelectOther
    BY <2>1 DEF SelectOther, blockVars, callVars, chainVars
  <2>2. CASE SelectLongest
    BY <2>2 DEF SelectLongest, callVars, chainVars
  <2>3. QED
    BY <2>1, <2>2
<1>2. ~Settled /\ ~Settled' /\ Kept' = Kept /\ MeetsOld' = MeetsOld
  BY <1>1 DEF Settled, Kept, MeetsOld, Bottom
<1>3. NoneBeats'
  BY <1>1, <1>2, AddingChoice
<1>4. Tip' = latest
  <2>1. LatestHash(blockring') = LatestHash(blockring)
    BY <1>1, Types, NotEmptyAnyMore
  <2>2. QED
    BY <1>1, <2>1, WalksAtChoice DEF Tip
<1>5. MeetsOld => (IsLongest <=> Chain!Beats(adding, latest))
  BY <1>1, LongestBeats
<1>6. Ancestors[adding] \subseteq Kept => MeetsOld
  BY <1>1, WholeBranchMeets
<1>7. DecisionInv'
  BY <1>1, <1>2, <1>4, <1>5, <1>6 DEF DecisionInv, Moving
<1>8. QED
  BY <1>3, <1>7 DEF ChoiceInv

\* While the chain moves nothing is decided anew.
LEMMA MovingChoice ==
  ASSUME ChoiceInv, Moving, Moving' \/ pc' = "verdict", UNCHANGED <<adding, latest, new_chain, shared>>,
         Kept' \subseteq Kept,
         (pc' = "verdict" /\ verdict') => Tip' = adding
  PROVE  ChoiceInv'
<1>1. ~Settled /\ ~Settled' /\ Decided /\ MeetsOld' = MeetsOld /\ pc' # "success"
  BY DEF Moving, Settled, Decided, MeetsOld, Bottom
<1>2. NoneBeats'
  BY <1>1, AddingChoice
<1>3. DecisionInv'
  BY <1>1 DEF ChoiceInv, DecisionInv
<1>4. QED
  BY <1>2, <1>3 DEF ChoiceInv

\* Winding, unwinding, rejecting and deleting.
LEMMA ReorganizeChoice ==
  ASSUME TypeInv, ReorgInv, ChoiceInv,
         \/ UnwindCheckpoint \/ UnwindBlock \/ WindCheckpoint \/ WindBlock \/ RejectBlock
         \/ \E h \in purge : PurgeBlock(h)
  PROVE  ChoiceInv'
<1>1. CASE UnwindCheckpoint \/ UnwindBlock
  <2>1. /\ UNCHANGED <<blocks, purge, adding, latest, new_chain, shared>>
        /\ pc = "unwind" /\ (pc' \in {"wind", "unwind"} \/ (pc' = "verdict" /\ verdict' = FALSE))
    BY <1>1 DEF UnwindCheckpoint, UnwindBlock, Finish, blockVars, callVars, chainVars
  <2>2. QED
    BY <2>1, MovingChoice DEF Moving, Kept
<1>2. CASE WindCheckpoint \/ RejectBlock
  <2>1. /\ UNCHANGED <<blocks, purge, adding, latest, new_chain, shared>>
        /\ pc = "wind" /\ (pc' \in {"wind", "unwind"} \/ (pc' = "verdict" /\ verdict' = FALSE))
    BY <1>2 DEF WindCheckpoint, RejectBlock, Finish, callVars, chainVars
  <2>2. QED
    BY <2>1, MovingChoice DEF Moving, Kept
<1>3. CASE WindBlock
  <2>1. UNCHANGED <<blocks, adding, latest, new_chain, shared>> /\ pc = "wind" /\ pc' = "purge"
    BY <1>3 DEF WindBlock, callVars, chainVars
  <2>2. purge = {}
    BY <2>1 DEF ReorgInv, PurgeInv
  <2>3. QED
    BY <2>1, <2>2, MovingChoice DEF Moving, Kept
<1>4. CASE \E h \in purge : PurgeBlock(h)
  <2>1. PICK h \in purge : PurgeBlock(h)
    BY <1>4
  <2>2. /\ UNCHANGED <<adding, latest, new_chain, shared, pc>> /\ pc = "purge"
        /\ blocks' = blocks \ {h} /\ purge' = purge \ {h}
    BY <2>1 DEF PurgeBlock, Forget, callVars, chainVars
  <2>3. QED
    BY <2>2, MovingChoice DEF Moving, Kept
<1>5. QED
  BY <1>1, <1>2, <1>3, <1>4

\* When the last block of the new chain is wound, it is the tip.
LEMMA EndPurgeChoice ==
  ASSUME TypeInv, ReorgInv, ChoiceInv, EndPurge
  PROVE  ChoiceInv'
<1>1. /\ UNCHANGED <<blocks, purge, adding, latest, new_chain, shared, blockring>>
      /\ pc = "purge" /\ (pc' = "wind" \/ (pc' = "verdict" /\ wind.index = 1))
  BY DEF EndPurge, Finish, callVars, chainVars
<1>2. ASSUME pc' = "verdict"
      PROVE  Tip' = adding
  <2>1. Branches /\ Winds /\ Rest = 0
    BY <1>1, <1>2 DEF ReorgInv, PhaseInv, Moving, Rest
  <2>2. new_chain # <<>> /\ new_chain[1] = adding /\ new_chain \in Seq(Hash)
    BY <2>1, Types DEF Branches
  <2>3. Len(new_chain) \in Nat /\ Len(new_chain) # 0
    BY <2>2, ChainBlocks
  <2>4. Tip = new_chain[Rest + 1]
    BY <2>1, <2>3 DEF Winds
  <2>5. QED
    BY <1>1, <2>1, <2>2, <2>4 DEF Tip
<1>3. QED
  BY <1>1, <1>2, MovingChoice DEF Moving, Kept

\* The verdict on the new chain.
LEMMA AcceptChoice ==
  ASSUME ChoiceInv, Accept
  PROVE  ChoiceInv'
<1>1. /\ UNCHANGED <<blocks, purge, adding, latest, new_chain, shared, blockring>>
      /\ pc = "verdict" /\ verdict /\ pc' = "success"
  BY DEF Accept, blockVars, callVars, chainVars
<1>2. /\ ~Settled /\ ~Settled' /\ Decided /\ Kept' = Kept /\ MeetsOld' = MeetsOld /\ Tip' = Tip
      /\ ~Moving'
  BY <1>1 DEF Settled, Decided, Kept, MeetsOld, Bottom, Tip, Moving
<1>3. NoneBeats'
  BY <1>1, <1>2, AddingChoice
<1>4. DecisionInv'
  BY <1>1, <1>2 DEF ChoiceInv, DecisionInv
<1>5. QED
  BY <1>3, <1>4 DEF ChoiceInv

\* A block that failed goes, and the tip is the one of before.
LEMMA FailChoice ==
  ASSUME TypeInv, ReorgInv, ReorgInv', ChoiceInv, Fail
  PROVE  ChoiceInv'
<1>1. /\ UNCHANGED <<purge, adding, latest>> /\ blocks' = blocks \ {adding}
      /\ pc = "verdict" /\ pc' = "batch"
  BY DEF Fail, Forget, callVars
<1>2. ~Settled /\ Settled' /\ purge = {} /\ adding # NoHash
  BY <1>1, Types, BlockType DEF Settled, ReorgInv, PurgeInv
<1>3. Tip' = latest
  BY <1>1, <1>2 DEF ReorgInv, RestoreInv
<1>4. Kept' = Earlier /\ Kept' \subseteq Kept /\ Earlier' = Earlier /\ Stood' = Stood
  BY <1>1, <1>2, <1>3 DEF Kept, Earlier, Stood
<1>5. NoneBeats'
  BY <1>4 DEF ChoiceInv, NoneBeats
<1>6. QED
  BY <1>1, <1>5 DEF ChoiceInv, DecisionInv, Decided, Moving

\* A block that is known down to height 1 shows that the chain is.
LEMMA ChainIsWhole ==
  ASSUME TypeInv, ReorgInv, BlocksFollowParents, Rests, NEW h \in blocks, Ancestors[h] \subseteq blocks, last_block.id # 0
  PROVE  Tip \in Hash /\ in_longest_chain = Ancestors[Tip] /\ in_longest_chain \subseteq blocks
<1>1. /\ IsPath(blocks, in_longest_chain, Tip) /\ blocks \in SUBSET Hash
      /\ Core(blocks, in_longest_chain, {}, blockring, last_block, genesis_block_id)
  BY RestCore, Types
<1>2. in_longest_chain \cup {} = in_longest_chain
  OBVIOUS
<1>3. IsCovered(blocks, in_longest_chain, last_block.id)
  BY <1>1, <1>2 DEF Core
<1>4. PICK r \in Ancestors[h] : Id[r] = 1
  BY <1>1, AncestryHasRoot
<1>5. PICK w \in in_longest_chain : Id[w] = 1
  <2>1. r \in blocks /\ Id[r] <= last_block.id
    BY <1>4, Types
  <2>2. QED
    BY <1>3, <1>4, <2>1 DEF IsCovered
<1>6. Tip \in Hash \cup {NoHash}
  BY Types, LatestType DEF Tip
<1>7. Tip \in Hash /\ in_longest_chain = Ancestors[Tip]
  BY <1>1, <1>5, <1>6, PathIsAncestry
<1>8. QED
  BY <1>1, <1>7 DEF IsPath

\* A new tip beats the old one, and with it all that the old one was not beaten by.
LEMMA SucceedChoice ==
  ASSUME TypeInv, ReorgInv, ChoiceInv, BlocksFollowParents, Succeed
  PROVE  ChoiceInv'
<1>1. /\ UNCHANGED <<blocks, purge, adding, latest, new_chain, shared, blockring>>
      /\ pc = "success" /\ pc' = "batch"
  BY DEF Succeed, callVars, chainVars
<1>2. ~Settled /\ Settled' /\ Decided /\ Rests /\ purge = {} /\ last_block.id # 0
  BY <1>1 DEF Settled, Decided, Rests, Moving, ReorgInv, PurgeInv, PhaseInv
<1>3. adding \in Hash /\ latest \in Hash \cup {NoHash} /\ adding \in blocks /\ blocks \subseteq Hash
  BY <1>2, Types, NewBlockIsKept DEF Kept
<1>4. Kept = blocks /\ Kept' = blocks /\ Earlier = blocks \ {adding} /\ Earlier' = blocks /\ Stood = latest /\ Stood' = Tip
  BY <1>1, <1>2 DEF Kept, Earlier, Stood, Tip
<1>5. /\ Ancestors[adding] \subseteq blocks => MeetsOld
      /\ Tip \in {adding, latest}
      /\ MeetsOld => Tip = IF Chain!Beats(adding, latest) THEN adding ELSE latest
      /\ \A h \in blocks \ {adding} : Ancestors[h] \subseteq blocks => ~Chain!Beats(h, latest)
  BY <1>1, <1>2, <1>4 DEF ChoiceInv, DecisionInv, NoneBeats
<1>6. ~Chain!Beats(adding, adding)
  BY <1>3, BlockType, BeatsByWork
<1>7. ASSUME NEW h \in blocks, Ancestors[h] \subseteq blocks, Chain!Beats(h, Tip)
      PROVE  FALSE
  <2>1. Tip # latest \/ h = adding
    BY <1>5, <1>7
  <2>2. CASE h = adding
    BY <1>5, <1>6, <1>7, <2>2
  <2>3. CASE h # adding
    <3>1. Tip = adding /\ Tip # latest
      BY <1>5, <2>1, <2>3
    <3>2. Ancestors[adding] \subseteq blocks
      BY <1>2, <1>7, <3>1, ChainIsWhole
    <3>3. Chain!Beats(adding, latest)
      BY <1>5, <3>1, <3>2
    <3>4. Chain!Beats(h, latest)
      BY <1>3, <1>7, <3>1, <3>3, BeatsTransitive
    <3>5. QED
      BY <1>5, <1>7, <2>3, <3>4
  <2>4. QED
    BY <2>2, <2>3
<1>8. NoneBeats'
  BY <1>4, <1>7 DEF NoneBeats
<1>9. QED
  BY <1>1, <1>8 DEF ChoiceInv, DecisionInv, Decided, Moving

\* Every step.
LEMMA NextChoice ==
  ASSUME BlocksFollowParents, TypeInv, ReorgInv, ReorgInv', ChoiceInv, [Next]_vars, [FailsBeforeItMoves]_vars
  PROVE  ChoiceInv'
<1>1. CASE UNCHANGED vars
  <2>1. UNCHANGED <<blocks, purge, blockring, adding, latest, new_chain, shared, pc, verdict>>
    BY <1>1 DEF vars, blockVars, callVars, chainVars
  <2>2. UNCHANGED <<Earlier, Kept, Stood, Decided, Moving, MeetsOld, Tip>>
    BY <2>1 DEF Earlier, Kept, Stood, Tip, Settled, Decided, Moving, MeetsOld, Bottom
  <2>3. QED
    BY <2>1, <2>2 DEF ChoiceInv, NoneBeats, DecisionInv
<1>2. CASE Next /\ FailsBeforeItMoves
  <2>1. CASE \E h \in Hash : ReceiveBlock(h) \/ IgnoreBlock(h)
    BY <2>1, SettledChoice DEF ReceiveBlock, IgnoreBlock, StartBatch, Settled, vars, blockVars
  <2>2. CASE HandleUpdate
    BY <2>2, SettledChoice DEF HandleUpdate, Settled, blockVars
  <2>3. CASE \E h \in batch : Refuse(h) \/ Postpone(h)
    BY <2>3, SettledChoice DEF Refuse, Postpone, Settled, blockVars
  <2>4. CASE \E h \in batch : TakeIn(h)
    BY <2>4, TakeInChoice
  <2>5. CASE ExtendNewChain \/ FindSharedAncestor \/ MissSharedAncestor \/ ExtendOldChain \/ EndOldChain
    <3>1. UNCHANGED <<adding, latest, blocks, purge>> /\ pc \in {"new chain", "old chain"}
          /\ pc' \in {"new chain", "old chain", "select"}
      BY <2>5 DEF ExtendNewChain, FindSharedAncestor, MissSharedAncestor, ExtendOldChain, EndOldChain,
                  blockVars, callVars
    <3>2. QED
      BY <3>1, WalkChoice DEF Settled, Decided
  <2>6. CASE SelectOther \/ SelectLongest
    BY <2>6, SelectChoice
  <2>7. CASE UnwindCheckpoint \/ UnwindBlock \/ WindCheckpoint \/ WindBlock \/ RejectBlock
               \/ \E h \in purge : PurgeBlock(h)
    BY <2>7, ReorganizeChoice
  <2>8. CASE EndPurge \/ Accept \/ Fail \/ Succeed
    BY <2>8, EndPurgeChoice, AcceptChoice, FailChoice, SucceedChoice
  <2>9. CASE EndBatch
    BY <2>9, SettledChoice DEF EndBatch, Settled, blockVars
  <2>10. QED
    BY <1>2, <2>1, <2>2, <2>3, <2>4, <2>5, <2>6, <2>7, <2>8, <2>9 DEF Next, AddBlocksStep, FailsBeforeItMoves
<1>3. QED
  BY <1>1, <1>2

\* add_block compares the branch of the block it adds with the longest chain, down to
\* where they part or to where the parents are no longer known.  At every step of every
\* such call no branch that is known down to its first block beats the chain, and what
\* was decided for the new block is what is done in the end.
THEOREM ChoicesCorrect ==
  ASSUME BlocksFollowParents, PeersAgreeOnStart
  PROVE  (Spec /\ [][FailsBeforeItMoves]_vars) => []ChoiceInv
<1>1. TypeInv /\ ReorgInv /\ ReorgInv' /\ ChoiceInv /\ [Next]_vars /\ [FailsBeforeItMoves]_vars => ChoiceInv'
  BY NextChoice
<1>2. QED
  BY <1>1, InitChoice, TypeInvCorrect, ReorganizationCorrect, PTL DEF Spec

\* Taken together the choices are the longest chain with the most work.
LEMMA ChoicesWin ==
  ASSUME BlocksFollowParents, TypeInv, ReorgInv, ChoiceInv
  PROVE  LongestChainWins
<1>1. SUFFICES ASSUME Settled, NEW h \in blocks, Id[h] > LatestId(blockring), Ancestors[h] \subseteq blocks
               PROVE  Work(Ancestors[h] \ in_longest_chain) < Work(in_longest_chain \ Ancestors[h])
  BY DEF LongestChainWins
<1>2. Rests /\ purge = {} /\ Kept = blocks /\ h \in Hash
  BY <1>1, Types DEF Settled, Rests, Moving, ReorgInv, PurgeInv, Kept
<1>3. ~Chain!Beats(h, Tip)
  BY <1>1, <1>2 DEF ChoiceInv, NoneBeats, Earlier, Stood
<1>4. last_block.id # 0
  BY <1>1 DEF ReorgInv, StartInv
<1>5. Tip \in Hash /\ in_longest_chain = Ancestors[Tip]
  BY <1>1, <1>2, <1>4, ChainIsWhole
<1>6. LatestId(blockring) = Id[Tip]
  BY <1>5, RingAssumption DEF Tip, LatestId
<1>7. /\ Ancestors[h] \in SUBSET Hash /\ IsFiniteSet(Ancestors[h])
      /\ Ancestors[Tip] \in SUBSET Hash /\ IsFiniteSet(Ancestors[Tip])
  BY <1>2, <1>5, AncestorsBelow
<1> DEFINE D == Ancestors[h] \ Ancestors[Tip]
           E == Ancestors[Tip] \ Ancestors[h]
<1>8. /\ Work(D) \in Nat /\ Work(E) \in Nat /\ Work(Ancestors[h]) \in Nat /\ Work(Ancestors[Tip]) \in Nat
      /\ Work(D) - Work(E) = Work(Ancestors[h]) - Work(Ancestors[Tip])
  BY <1>7, WorkOfDifference
<1>9. ~(Work(Ancestors[h]) >= Work(Ancestors[Tip]))
  BY <1>1, <1>2, <1>3, <1>5, <1>6, BeatsByWork
<1> HIDE DEF D, E
<1>10. Work(D) < Work(E)
  BY <1>8, <1>9
<1>11. QED
  BY <1>5, <1>10 DEF D, E

\* Whatever the tree of blocks and the order in which they come, one comparison for each
\* block that add_block adds is enough: no known branch that is longer than the longest
\* chain has as much work behind it.
THEOREM LongestChainWinsCorrect ==
  ASSUME BlocksFollowParents, PeersAgreeOnStart
  PROVE  (Spec /\ [][FailsBeforeItMoves]_vars) => []LongestChainWins
<1>1. TypeInv /\ ReorgInv /\ ChoiceInv => LongestChainWins
  BY ChoicesWin
<1>2. QED
  BY <1>1, ChoicesCorrect, TypeInvCorrect, ReorganizationCorrect, PTL

\* No fork goes back further than the ring.  A chain that is longer than the ring loses
\* its first blocks while it is the longest; a fork that left it before that is compared
\* by the length that is left of it only, and when it is wound the old tip itself may be
\* old enough to be deleted before the new block is accepted.
ForksAreRecent ==
  /\ (SelectOther \/ SelectLongest) => MeetsOld
  /\ \A h \in purge : PurgeBlock(h) => h # latest

\* The blocks of the node, as LongestChain sees them.
Known == IF Settled THEN blocks ELSE blocks \ {adding}

\* The tip of the time before the new block is still there.
StandsInv ==
  /\ Decided => MeetsOld
  /\ ~Settled => \/ latest = NoHash /\ blocks = {adding}
                 \/ latest \in blocks \ {adding}

\* Nothing is known.
LEMMA InitStands == Init => StandsInv
<1> SUFFICES ASSUME Init PROVE StandsInv
  OBVIOUS
<1>1. blocks = {} /\ purge = {} /\ pc = "idle"
  BY DEF Init
<1>2. QED
  BY <1>1 DEF StandsInv, Settled, Decided

\* The tip is a known block when the next is taken in.
LEMMA TakeInStands ==
  ASSUME TypeInv, ReorgInv, NEW h \in batch, TakeIn(h)
  PROVE  StandsInv'
<1>1. /\ pc = "batch" /\ pc' = "new chain" /\ blocks' = blocks \cup {h} /\ h \notin blocks
      /\ adding' = h /\ latest' = Tip
  BY DEF TakeIn, IsRefused, Tip
<1>2. Settled /\ Rests /\ ~Decided'
  BY <1>1 DEF Settled, Rests, Moving, Decided
<1>3. IsPath(blocks, in_longest_chain, Tip) /\ last_block.id = LatestId(blockring)
  BY <1>2, RestCore
<1>4. CASE Tip = NoHash
  <2>1. last_block.id = 0
    BY <1>3, <1>4 DEF LatestId, Tip
  <2>2. blocks = {}
    BY <1>2, <2>1 DEF ReorgInv, StartInv
  <2>3. QED
    BY <1>1, <1>2, <1>4, <2>2 DEF StandsInv
<1>5. CASE Tip # NoHash
  <2>1. Tip \in blocks
    BY <1>3, <1>5 DEF IsPath
  <2>2. QED
    BY <1>1, <1>2, <2>1 DEF StandsInv
<1>6. QED
  BY <1>4, <1>5

\* A deletion takes neither the block that is added nor the tip it was compared with.
LEMMA PurgeStands ==
  ASSUME ReorgInv, StandsInv, ForksAreRecent, NEW h \in purge, PurgeBlock(h)
  PROVE  /\ StandsInv' /\ ~Settled /\ ~Settled'
         /\ h \in blocks \ {adding} /\ blocks' = blocks \ {h} /\ latest \in blocks' \ {adding}
         /\ UNCHANGED <<adding, latest>>
<1>1. /\ pc = "purge" /\ UNCHANGED <<pc, adding, latest, new_chain, shared>>
      /\ h \in blocks /\ blocks' = blocks \ {h}
  BY DEF PurgeBlock, Forget, callVars, chainVars
<1>2. ~Settled /\ ~Settled' /\ Decided /\ MeetsOld' = MeetsOld
  BY <1>1 DEF Settled, Decided, MeetsOld, Bottom
<1>3. h # adding
  BY <1>2, NewBlockIsKept DEF Kept
<1>4. h # latest
  BY DEF ForksAreRecent
<1>5. latest \in blocks' \ {adding}
  BY <1>1, <1>2, <1>3, <1>4 DEF StandsInv
<1>6. QED
  BY <1>1, <1>2, <1>3, <1>5 DEF StandsInv

\* Until the block is settled, and no other deleted, the tip stands.
LEMMA FrameStands ==
  ASSUME StandsInv, ~Settled, ~Settled', UNCHANGED <<blocks, adding, latest>>,
         Decided' => MeetsOld'
  PROVE  StandsInv' /\ UNCHANGED <<Known, Stood>>
BY DEF StandsInv, Known, Stood

\* While the chain is moved, and after it.
LEMMA DecidedStands ==
  ASSUME StandsInv, Decided, ~Settled', UNCHANGED <<blocks, adding, latest, new_chain, shared>>
  PROVE  StandsInv' /\ UNCHANGED <<Known, Stood>>
<1>1. ~Settled /\ MeetsOld' = MeetsOld
  BY DEF Settled, Decided, MeetsOld, Bottom
<1>2. QED
  BY <1>1, FrameStands DEF StandsInv

\* Between two calls.
LEMMA SettledStands ==
  ASSUME Settled, Settled', UNCHANGED <<blocks, blockring>>
  PROVE  StandsInv' /\ UNCHANGED <<Known, Stood>>
BY DEF StandsInv, Known, Stood, Settled, Decided, Tip

-----------------------------------------------------------------------------
(* Every step is one of LongestChain, or changes nothing there.            *)

\* A block is learned.
LEMMA ChainLearns ==
  ASSUME NEW h \in Hash, h \notin Known, Known' = Known \cup {h},
         Stood' = IF Chain!Beats(h, Stood) THEN h ELSE Stood
  PROVE  Chain!Next
BY DEF Chain!Next, Chain!Learn, Known, Stood

\* Some are forgotten.
LEMMA ChainExpires ==
  ASSUME Known' \subseteq Known, Known' # Known, Stood \in Known', Stood' = Stood
  PROVE  Chain!Next
BY DEF Chain!Next, Chain!Expire, Known, Stood

\* A step of LongestChain, or none.
ChainStep == Chain!Next \/ UNCHANGED <<Known, Stood>>

\* The end of add_block, where the abstract step is taken.
LEMMA SettleChain ==
  ASSUME TypeInv, ReorgInv, ReorgInv', ChoiceInv, StandsInv, BlocksFollowParents, Fail \/ Succeed
  PROVE  StandsInv' /\ ChainStep
<1>1. CASE Fail
  <2>1. /\ UNCHANGED <<purge, adding, latest>> /\ blocks' = blocks \ {adding}
        /\ pc = "verdict" /\ pc' = "batch"
    BY <1>1 DEF Fail, Forget, callVars
  <2>2. ~Settled /\ Settled' /\ adding # NoHash
    BY <2>1, Types, BlockType DEF Settled
  <2>3. Tip' = latest
    BY <2>1, <2>2 DEF ReorgInv, RestoreInv
  <2>4. Known' = Known /\ Stood' = Stood
    BY <2>1, <2>2, <2>3 DEF Known, Stood
  <2>5. QED
    BY <2>1, <2>2, <2>4 DEF StandsInv, ChainStep, Decided
<1>2. CASE Succeed
  <2>1. /\ UNCHANGED <<blocks, adding, latest, blockring>> /\ pc = "success" /\ pc' = "batch"
    BY <1>2 DEF Succeed, callVars
  <2>2. ~Settled /\ Settled' /\ Decided /\ ~Decided'
    BY <2>1 DEF Settled, Decided
  <2>3. adding \in Hash /\ adding \in blocks
    BY <2>2, Types, NewBlockIsKept DEF Kept
  <2>4. Known' = Known \cup {adding} /\ adding \notin Known /\ Stood = latest /\ Stood' = Tip
    BY <2>1, <2>2, <2>3 DEF Known, Stood, Tip
  <2>5. Tip = IF Chain!Beats(adding, latest) THEN adding ELSE latest
    BY <2>1, <2>2 DEF ChoiceInv, DecisionInv, StandsInv
  <2>6. Chain!Next
    BY <2>3, <2>4, <2>5, ChainLearns
  <2>7. QED
    BY <2>2, <2>6 DEF StandsInv, ChainStep
<1>3. QED
  BY <1>1, <1>2

\* Every step of the node.
LEMMA NextChain ==
  ASSUME BlocksFollowParents, TypeInv, ReorgInv, ReorgInv', ChoiceInv, StandsInv, [Next]_vars,
         [FailsBeforeItMoves]_vars, [ForksAreRecent]_vars
  PROVE  StandsInv' /\ ChainStep
<1>1. CASE UNCHANGED vars
  <2>1. UNCHANGED <<blocks, blockring, adding, latest, new_chain, shared, pc>>
    BY <1>1 DEF vars, blockVars, callVars, chainVars
  <2>2. UNCHANGED <<Known, Stood, Decided, Settled, MeetsOld>>
    BY <2>1 DEF Known, Stood, Tip, Settled, Decided, MeetsOld, Bottom
  <2>3. QED
    BY <2>1, <2>2 DEF StandsInv, ChainStep
<1>2. CASE Next /\ FailsBeforeItMoves /\ ForksAreRecent
  <2>1. CASE \E h \in Hash : ReceiveBlock(h) \/ IgnoreBlock(h)
    BY <2>1, SettledStands DEF ReceiveBlock, IgnoreBlock, StartBatch, Settled, vars, blockVars, ChainStep
  <2>2. CASE HandleUpdate
    BY <2>2, SettledStands DEF HandleUpdate, Settled, blockVars, ChainStep
  <2>3. CASE EndBatch \/ \E h \in batch : Refuse(h) \/ Postpone(h)
    BY <2>3, SettledStands DEF EndBatch, Refuse, Postpone, Settled, blockVars, ChainStep
  <2>4. CASE \E h \in batch : TakeIn(h)
    <3>1. PICK h \in batch : TakeIn(h)
      BY <2>4
    <3>2. StandsInv'
      BY <3>1, TakeInStands
    <3>3. /\ pc = "batch" /\ pc' = "new chain" /\ blocks' = blocks \cup {h} /\ h \notin blocks
          /\ adding' = h /\ latest' = Tip
      BY <3>1 DEF TakeIn, IsRefused, Tip
    <3>4. UNCHANGED <<Known, Stood>>
      BY <3>3 DEF Known, Stood, Settled
    <3>5. QED
      BY <3>2, <3>4 DEF ChainStep
  <2>5. CASE ExtendNewChain \/ FindSharedAncestor \/ MissSharedAncestor \/ ExtendOldChain \/ EndOldChain
    <3>1. UNCHANGED <<adding, latest, blocks>> /\ pc \in {"new chain", "old chain"}
          /\ pc' \in {"new chain", "old chain", "select"}
      BY <2>5 DEF ExtendNewChain, FindSharedAncestor, MissSharedAncestor, ExtendOldChain, EndOldChain,
                  blockVars, callVars
    <3>2. QED
      BY <3>1, FrameStands DEF Settled, Decided, ChainStep
  <2>6. CASE SelectOther \/ SelectLongest
    <3>1. UNCHANGED <<blocks, adding, latest, new_chain, shared>> /\ pc = "select"
          /\ pc' \in {"success", "verdict", "wind", "unwind"}
      <4>1. CASE SelectOther
        BY <4>1 DEF SelectOther, blockVars, callVars, chainVars
      <4>2. CASE SelectLongest
        BY <4>2 DEF SelectLongest, callVars, chainVars
      <4>3. QED
        BY <2>6, <4>1, <4>2
    <3>2. MeetsOld'
      BY <1>2, <2>6, <3>1 DEF ForksAreRecent, MeetsOld, Bottom
    <3>3. QED
      BY <3>1, <3>2, FrameStands DEF Settled, ChainStep
  <2>7. CASE UnwindCheckpoint \/ UnwindBlock \/ WindCheckpoint \/ WindBlock \/ RejectBlock
    <3>1. UNCHANGED <<blocks, adding, latest, new_chain, shared>> /\ pc \in {"wind", "unwind"}
          /\ pc' \in {"wind", "unwind", "purge", "verdict"}
      BY <2>7 DEF UnwindCheckpoint, UnwindBlock, WindCheckpoint, WindBlock, RejectBlock, Finish,
                  blockVars, callVars, chainVars
    <3>2. QED
      BY <3>1, DecidedStands DEF Decided, Settled, ChainStep
  <2>8. CASE \E h \in purge : PurgeBlock(h)
    <3>1. PICK h \in purge : PurgeBlock(h)
      BY <2>8
    <3>2. /\ StandsInv' /\ ~Settled /\ ~Settled'
          /\ h \in blocks \ {adding} /\ blocks' = blocks \ {h} /\ latest \in blocks' \ {adding}
          /\ UNCHANGED <<adding, latest>>
      BY <1>2, <3>1, PurgeStands
    <3>3. Chain!Next
      BY <3>2, ChainExpires DEF Known, Stood
    <3>4. QED
      BY <3>2, <3>3 DEF ChainStep
  <2>9. CASE EndPurge \/ Accept
    <3>1. UNCHANGED <<blocks, adding, latest, new_chain, shared>> /\ pc \in {"purge", "verdict"}
          /\ pc' \in {"wind", "verdict", "success"}
      BY <2>9 DEF EndPurge, Accept, Finish, blockVars, callVars, chainVars
    <3>2. QED
      BY <3>1, DecidedStands DEF Decided, Settled, ChainStep
  <2>10. CASE Fail \/ Succeed
    BY <2>10, SettleChain
  <2>11. QED
    BY <1>2, <2>1, <2>2, <2>3, <2>4, <2>5, <2>6, <2>7, <2>8, <2>9, <2>10
       DEF Next, AddBlocksStep, FailsBeforeItMoves
<1>3. QED
  BY <1>1, <1>2

\* The node starts as LongestChain does.
LEMMA InitChain == Init => Chain!Init
<1> SUFFICES ASSUME Init PROVE Chain!Init
  OBVIOUS
<1>1. blocks = {} /\ pc = "idle" /\ blockring = NewRing
  BY DEF Init
<1>2. LatestHash(NewRing) = NoHash
  BY DEF LatestHash, NewRing
<1>3. QED
  BY <1>1, <1>2 DEF Chain!Init, Settled, Tip

\* Winding and unwinding block by block, failing half-way and deleting what is old
\* implement LongestChain: every call of add_block comes to one block learned, and to one
\* choice between it and the tip, or to nothing.  Forks must not go back further than the
\* ring, see ForksAreRecent.
THEOREM KeepsLongestChainCorrect ==
  ASSUME BlocksFollowParents, PeersAgreeOnStart
  PROVE  (Spec /\ [][FailsBeforeItMoves /\ ForksAreRecent]_vars) => KeepsLongestChain
<1>1. ASSUME TypeInv, ReorgInv, ReorgInv', ChoiceInv, StandsInv, [Next]_vars,
             [FailsBeforeItMoves]_vars, [ForksAreRecent]_vars
      PROVE  StandsInv'
  BY <1>1, NextChain
<1>2. ASSUME TypeInv, ReorgInv, ReorgInv', ChoiceInv, StandsInv, [Next]_vars,
             [FailsBeforeItMoves]_vars, [ForksAreRecent]_vars
      PROVE  [Chain!Next]_<<IF Settled THEN blocks ELSE blocks \ {adding}, IF Settled THEN Tip ELSE latest>>
  BY <1>2, NextChain DEF ChainStep, Known, Stood
<1>3. [FailsBeforeItMoves /\ ForksAreRecent]_vars => [FailsBeforeItMoves]_vars /\ [ForksAreRecent]_vars
  OBVIOUS
<1>4. QED
  BY <1>1, <1>2, <1>3, InitStands, InitChain, TypeInvCorrect, ReorganizationCorrect, ChoicesCorrect, PTL
     DEF Spec, KeepsLongestChain, Chain!Spec

-----------------------------------------------------------------------------
(* The utxoset.                                                            *)

\* What generate() sets and the transactions of a block are made from: an output carries
\* the height of its block, an input that of an earlier one, and a checkpoint file names
\* slips that are there when the block is added.
SlipsAreDated ==
  /\ \A s \in Slip : SlipId[s] > 0
  /\ \A h \in Hash : /\ \A s \in Spends[h] : SlipId[s] < Id[h]
                     /\ \A s \in Creates[h] : SlipId[s] = Id[h]
                     /\ \A s \in Checkpoint[h] : SlipId[s] <= Id[h]

\* The node starts with the first block of the chain: one that starts with a later block
\* does not know the slips of those before.  And the window is wider than a block.
StartsAtFirst == GenesisPeriod > 1 /\ \A h \in FirstBlock : Parent[h] = NoHash

\* Inputs are looked up in the utxoset only if has_total_supply_loaded: not for a block
\* of a fork so deep that the block GenesisPeriod below is unwound, or gone, as well.
InputsAreChecked == WindBlock => HasTotalSupplyLoaded(blockring) \/ Tip = NoHash

\* add_block_success freezes the slips of a checkpoint file whether or not the block it is
\* for is on the longest chain.
FreezesAtTip == Succeed => Tip = adding \/ utxoset \cap Checkpoint[adding] = {}

\* From where on slips may be spent, by the head that is persisted.
Edge == Monus(last_block.id, GenesisPeriod)

\* Created in A, and neither spent nor frozen there.
IsLive(A, s) ==
  /\ \E c \in A : s \in Creates[c]
  /\ \A b \in A : s \notin Spends[b] /\ (b \in has_checkpoint => s \notin Checkpoint[b])

\* The branch of a tip, if there is one.
BranchOf(t) == IF t = NoHash THEN {} ELSE Ancestors[t]

\* Heights below which the slips of a block, and those it spends, are out of the window.
IsLow(id, x) == id = 1 \/ id <= x - RingSize + 2

\* A block has its parent, unless that was deleted.
RootedInv == \A b \in Kept : Parent[b] \in Kept \/ IsLow(Id[b], last_block.id)

\* What is deleted is old.
PurgedInv == \A d \in purge : Id[d] <= last_block.id - RingSize + 1

\* The block being added is not settled enough to be pruned, or to hold a checkpoint.
FlagsInv ==
  /\ pruned \cup safe_to_prune \cup has_checkpoint \cup is_valid \subseteq blocks
  /\ ~Settled => adding \notin pruned \cup safe_to_prune \cup has_checkpoint

\* The blocks of the chain were validated.
WoundInv == Wound \subseteq is_valid

\* The utxoset is that of the branch of the tip, at every step of a reorganisation.
UtxoInv == \A s \in Slip : SlipId[s] >= Edge => (s \in utxoset <=> IsLive(BranchOf(Tip), s))

\* A block that was validated once spends, on its branch, what is there to be spent: its
\* verdict is kept while the branch is off the longest chain.
ValidInv == \A h \in is_valid : \A s \in Spends[h] : SlipId[s] >= Edge => IsLive(Ancestors[h] \ {h}, s)

\* What holds of the slips at every step.
ReplayInv == RootedInv /\ PurgedInv /\ FlagsInv /\ WoundInv /\ UtxoInv /\ ValidInv

-----------------------------------------------------------------------------
(* Slips and branches.                                                     *)

\* What two sets of blocks make of a slip is the same if they are the same from the height
\* on that created it.
LEMMA LiveAgrees ==
  ASSUME SlipsAreDated, NEW A \in SUBSET Hash, NEW B \in SUBSET Hash, NEW s \in Slip,
         \A a \in Hash : Id[a] >= SlipId[s] => (a \in A <=> a \in B)
  PROVE  IsLive(A, s) <=> IsLive(B, s)
<1>1. ASSUME NEW a \in Hash, s \in Creates[a] \/ s \in Spends[a] \/ s \in Checkpoint[a]
      PROVE  Id[a] >= SlipId[s]
  <2>1. SlipId[s] \in Nat /\ Id[a] \in Nat
    BY BlockchainAssumption, BlockType
  <2>2. SlipId[s] = Id[a] \/ SlipId[s] < Id[a] \/ SlipId[s] <= Id[a]
    BY <1>1 DEF SlipsAreDated
  <2>3. QED
    BY <2>1, <2>2
<1>2. QED
  BY <1>1 DEF IsLive

\* The window is narrower than the ring.
LEMMA LowIsOut ==
  ASSUME StartsAtFirst, NEW x \in Nat, NEW i \in Nat, NEW n \in Nat,
         IsLow(i, x), n >= Monus(x, GenesisPeriod), n > 0
  PROVE  ~(n < i)
<1>1. GenesisPeriod \in Nat /\ GenesisPeriod > 1 /\ RingSize = 2 * GenesisPeriod
  BY RingAssumption DEF StartsAtFirst, RingSize
<1>2. CASE i = 1
  BY <1>2
<1>3. CASE i <= x - RingSize + 2
  <2>1. i <= x - GenesisPeriod
    BY <1>1, <1>3
  <2>2. Monus(x, GenesisPeriod) >= x - GenesisPeriod
    BY <1>1 DEF Monus
  <2>3. Monus(x, GenesisPeriod) \in Nat
    BY <1>1 DEF Monus
  <2>4. QED
    BY <1>1, <2>1, <2>2, <2>3
<1>4. QED
  BY <1>2, <1>3 DEF IsLow

\* Nothing in the window was created below a low block, or is spent by one.
LEMMA LowBlock ==
  ASSUME BlocksFollowParents, SlipsAreDated, StartsAtFirst, NEW x \in Nat, NEW h \in Hash, IsLow(Id[h], x),
         NEW s \in Slip, SlipId[s] >= Monus(x, GenesisPeriod)
  PROVE  s \notin Spends[h] /\ ~IsLive(Ancestors[h] \ {h}, s)
<1>1. SlipId[s] \in Nat /\ SlipId[s] > 0 /\ Id[h] \in Nat
  BY BlockchainAssumption, BlockType DEF SlipsAreDated
<1>2. ~(SlipId[s] < Id[h])
  BY <1>1, LowIsOut
<1>3. \A a \in Ancestors[h] \ {h} : a \in Hash /\ Id[a] < Id[h]
  BY AncestorsBelow
<1>4. QED
  BY <1>2, <1>3 DEF SlipsAreDated, IsLive

\* Of a set that holds the parents of its members but the low ones, no ancestor in the
\* window is missing.
LEMMA WindowIsKnown ==
  ASSUME BlocksFollowParents, StartsAtFirst, NEW x \in Nat, NEW B \in SUBSET Hash,
         \A b \in B : Parent[b] \in B \/ IsLow(Id[b], x),
         NEW h \in B, NEW a \in Ancestors[h], NEW n \in Nat, n > 0, n >= Monus(x, GenesisPeriod), Id[a] >= n
  PROVE  a \in B
<1> DEFINE S == {b \in Ancestors[h] : b \in B \/ Id[b] < n}
<1>1. S \in SUBSET Hash /\ h \in S
  BY AncestorsBelow
<1>2. ASSUME NEW s \in S, Parent[s] \in Hash
      PROVE  Parent[s] \in S
  <2>1. s \in Hash /\ Parent[s] \in Ancestors[h]
    BY <1>1, <1>2, AncestorsBelow
  <2>2. Id[s] = Id[Parent[s]] + 1 /\ Id[s] \in Nat /\ Id[Parent[s]] \in Nat
    BY <1>2, <2>1, BlockType DEF BlocksFollowParents
  <2>3. CASE Id[s] < n
    BY <2>1, <2>2, <2>3
  <2>4. CASE s \in B
    <3>1. CASE IsLow(Id[s], x)
      <4>1. ~(n < Id[s])
        BY <2>2, <3>1, LowIsOut
      <4>2. QED
        BY <2>1, <2>2, <4>1
    <3>2. CASE Parent[s] \in B
      BY <2>1, <3>2
    <3>3. QED
      BY <2>4, <3>1, <3>2
  <2>5. QED
    BY <2>3, <2>4
<1> HIDE DEF S
<1>3. a \in S
  BY <1>1, <1>2, AncestorsLeast
<1>4. Id[a] \in Nat
  BY <1>1, <1>3, BlockType
<1>5. QED
  BY <1>3, <1>4 DEF S

\* The blocks of a path are ancestors of its tip.
LEMMA PathIsAncestral ==
  ASSUME BlocksFollowParents, NEW B \in SUBSET Hash, NEW C, NEW t \in Hash,
         IsPath(B, C, t)
  PROVE  C \subseteq Ancestors[t]
<1> DEFINE Bad == {Id[t] - Id[c] : c \in C \ Ancestors[t]}
<1>1. SUFFICES ASSUME Bad # {}
               PROVE  FALSE
  OBVIOUS
<1>2. C \subseteq Hash /\ t \in C /\ t \in Ancestors[t]
  BY AncestorsBelow, BlockType DEF IsPath
<1>3. Bad \in SUBSET Nat
  <2>1. \A c \in C : Id[c] \in Nat /\ Id[c] <= Id[t] /\ Id[t] \in Nat
    BY <1>2, BlockType DEF IsPath
  <2>2. QED
    BY <2>1
<1>4. PICK n \in Bad : \A m \in Bad : n <= m
  BY <1>1, <1>3, LeastNumber
<1>5. PICK c \in C \ Ancestors[t] : n = Id[t] - Id[c]
  OBVIOUS
<1>6. PICK g \in C : Parent[g] = c
  BY <1>2, <1>5 DEF IsPath
<1>7. g \notin Ancestors[t]
  BY <1>2, <1>5, <1>6, AncestorsBelow
<1>8. Id[t] - Id[g] \in Bad
  BY <1>6, <1>7
<1>9. Id[g] = Id[c] + 1 /\ Id[g] \in Nat /\ Id[c] \in Nat /\ Id[t] \in Nat
  BY <1>2, <1>5, <1>6, BlockType DEF BlocksFollowParents
<1>10. Id[t] - Id[c] <= Id[t] - Id[g]
  BY <1>4, <1>5, <1>8
<1>11. QED
  BY <1>9, <1>10

\* A path and the branch of its tip are the same in the window.
LEMMA PathIsBranch ==
  ASSUME BlocksFollowParents, SlipsAreDated, StartsAtFirst, NEW x \in Nat, NEW B \in SUBSET Hash, NEW C,
         NEW t \in Hash \cup {NoHash}, IsPath(B, C, t),
         \A b \in B : Parent[b] \in B \/ IsLow(Id[b], x),
         NEW s \in Slip, SlipId[s] >= Monus(x, GenesisPeriod)
  PROVE  IsLive(BranchOf(t), s) <=> IsLive(C, s)
<1>1. CASE t = NoHash
  <2>1. C = {} /\ BranchOf(t) = {}
    BY <1>1 DEF IsPath, BranchOf
  <2>2. QED
    BY <2>1
<1>2. CASE t # NoHash
  <2>1. C \in SUBSET Hash /\ t \in C /\ t \in Hash
    BY <1>2 DEF IsPath
  <2>2. SlipId[s] \in Nat /\ SlipId[s] > 0
    BY BlockchainAssumption DEF SlipsAreDated
  <2>3. \A c \in C : Parent[c] \in C \/ IsLow(Id[c], x)
    BY DEF IsPath
  <2>4. \A a \in Ancestors[t] : Id[a] >= SlipId[s] => a \in C
    BY <2>1, <2>2, <2>3, WindowIsKnown
  <2>5. C \subseteq Ancestors[t] /\ Ancestors[t] \in SUBSET Hash
    BY <2>1, PathIsAncestral, AncestorsBelow
  <2>6. QED
    BY <1>2, <2>1, <2>4, <2>5, LiveAgrees DEF BranchOf
<1>3. QED
  BY <1>1, <1>2

\* Below a block is the branch of its parent.
LEMMA BranchOfParent ==
  ASSUME BlocksFollowParents, NEW h \in Hash
  PROVE  Ancestors[h] \ {h} = BranchOf(Parent[h])
<1>1. Ancestors[h] = {h} \cup (IF Parent[h] \in Hash THEN Ancestors[Parent[h]] ELSE {})
  BY AncestorsOf
<1>2. CASE Parent[h] \in Hash
  <2>1. Id[h] = Id[Parent[h]] + 1 /\ Id[Parent[h]] \in Nat
    BY <1>2, BlockType DEF BlocksFollowParents
  <2>2. h \notin Ancestors[Parent[h]]
    <3>1. \A a \in Ancestors[Parent[h]] : Id[a] <= Id[Parent[h]]
      BY <1>2, AncestorsBelow
    <3>2. QED
      BY <2>1, <3>1
  <2>3. Parent[h] # NoHash
    BY <1>2, RingAssumption
  <2>4. QED
    BY <1>1, <1>2, <2>2, <2>3 DEF BranchOf
<1>3. CASE Parent[h] \notin Hash
  <2>1. Parent[h] = NoHash
    BY <1>3, BlockchainAssumption
  <2>2. QED
    BY <1>1, <1>3, <2>1 DEF BranchOf
<1>4. QED
  BY <1>2, <1>3

\* What a block does to a slip of the branch below it.
LEMMA LiveOneUp ==
  ASSUME BlocksFollowParents, SlipsAreDated, NEW h \in Hash, h \notin has_checkpoint, NEW s \in Slip
  PROVE  /\ IsLive(Ancestors[h], s) <=> s \in Creates[h] \/ (IsLive(Ancestors[h] \ {h}, s) /\ s \notin Spends[h])
         /\ s \in Creates[h] => ~IsLive(Ancestors[h] \ {h}, s) /\ s \notin Spends[h]
<1>1. /\ h \in Ancestors[h]
      /\ \A a \in Ancestors[h] \ {h} : a \in Hash /\ Id[a] < Id[h] /\ Id[a] \in Nat
      /\ Id[h] \in Nat
  BY AncestorsBelow, BlockType
<1>2. CASE s \in Creates[h]
  <2>1. SlipId[s] = Id[h]
    BY <1>2 DEF SlipsAreDated
  <2>2. \A a \in Ancestors[h] \ {h} : s \notin Creates[a] /\ s \notin Spends[a] /\ s \notin Checkpoint[a]
    BY <1>1, <2>1 DEF SlipsAreDated
  <2>3. s \notin Spends[h]
    BY <1>2, BlockchainAssumption
  <2>4. QED
    BY <1>1, <1>2, <2>2, <2>3 DEF IsLive
<1>3. CASE s \notin Creates[h]
  BY <1>1, <1>3 DEF IsLive
<1>4. QED
  BY <1>2, <1>3

-----------------------------------------------------------------------------
(* The steps.                                                              *)

\* The kinds of what the steps deal with.
LEMMA ReplayTypes ==
  ASSUME TypeInv, ReplayInv
  PROVE  /\ last_block.id \in Nat /\ Edge \in Nat /\ Kept \in SUBSET Hash /\ blocks \in SUBSET Hash
         /\ Tip \in Hash \cup {NoHash} /\ is_valid \subseteq Hash /\ utxoset \subseteq Slip
         /\ Edge = Monus(last_block.id, GenesisPeriod)
<1>1. last_block.id \in Nat /\ Kept \subseteq Hash /\ blocks \subseteq Hash /\ blockring \in Ring
  BY Types
<1>2. Edge \in Nat
  BY <1>1, RingAssumption DEF Edge, Monus
<1>3. Tip \in Hash \cup {NoHash}
  BY <1>1, LatestType DEF Tip
<1>4. QED
  BY <1>1, <1>2, <1>3 DEF TypeInv, TypeOK, Edge

\* The steps that leave the slips and the chain alone.
LEMMA FrameReplay ==
  ASSUME ReplayInv, UNCHANGED <<utxoset, has_checkpoint, is_valid, last_block, blocks, purge, safe_to_prune>>,
         Tip' = Tip, Wound' \subseteq Wound, pruned' \subseteq pruned \cup safe_to_prune,
         Settled' \/ (~Settled /\ adding' = adding)
  PROVE  ReplayInv'
<1>1. UNCHANGED <<Kept, Edge>>
  BY DEF Kept, Edge
<1>2. RootedInv' /\ PurgedInv'
  BY <1>1 DEF ReplayInv, RootedInv, PurgedInv, Kept
<1>3. FlagsInv' /\ WoundInv'
  BY DEF ReplayInv, FlagsInv, WoundInv
<1>4. UtxoInv' /\ ValidInv'
  BY <1>1 DEF ReplayInv, UtxoInv, ValidInv, IsLive, BranchOf
<1>5. QED
  BY <1>2, <1>3, <1>4 DEF ReplayInv

\* Every block that is kept has its transactions, in memory or in its file.
LEMMA BlocksAreReadable ==
  ASSUME FlagsInv, BlocksAreOnDisk, NEW h \in blocks
  PROVE  HasTransactions(h)
BY DEF FlagsInv, BlocksAreOnDisk, HasTransactions

\* The tip is what the phases say, and the phases hold before and after.
LEMMA WalksKeepTip ==
  ASSUME ReorgInv, ReorgInv', UNCHANGED latest,
         pc \in {"new chain", "old chain", "select"}, pc' \in {"new chain", "old chain", "select"}
  PROVE  Tip' = Tip
BY DEF ReorgInv, PhaseInv, OldWalk, NewWalk

\* A block is taken in: its parent is known, or it is the first of all.
LEMMA TakeInReplay ==
  ASSUME BlocksFollowParents, StartsAtFirst, TypeInv, ReorgInv, ReorgInv', ReplayInv, NEW h \in batch, TakeIn(h)
  PROVE  ReplayInv'
<1>1. /\ pc = "batch" /\ pc' = "new chain" /\ blocks' = blocks \cup {h} /\ h \notin blocks
      /\ adding' = h /\ latest' = Tip
      /\ UNCHANGED <<utxoset, has_checkpoint, is_valid, last_block, purge, safe_to_prune, pruned, in_longest_chain>>
  BY DEF TakeIn, IsRefused, Tip, headVars
<1>2. Settled /\ ~Settled' /\ purge = {} /\ Rests /\ Rests' /\ PurgeInv /\ PurgeInv'
  BY <1>1 DEF Settled, ReorgInv, PurgeInv, Rests, Moving
<1>3. Kept = blocks /\ Kept' = blocks \cup {h} /\ Wound' = Wound /\ h \in Hash
  BY <1>1, <1>2, AtRest, Types
<1>4. Tip' = Tip
  BY <1>1 DEF ReorgInv, PhaseInv, NewWalk
<1>5. Parent[h] \in blocks \/ Id[h] = 1
  <2>1. ~IsOrphan(h) /\ loaded
    BY DEF TakeIn, ReorgInv, WaitInv
  <2>2. CASE blockring.empty
    <3>1. last_block.id = 0 /\ genesis_block_id = 0
      BY <2>2 DEF ReorgInv, StartInv
    <3>2. h \in FirstBlock
      BY <3>1 DEF ReorgInv, WaitInv
    <3>3. QED
      BY <1>3, <3>2 DEF StartsAtFirst, BlocksFollowParents
  <2>3. CASE ~blockring.empty
    BY <1>3, <2>1, <2>3 DEF IsOrphan, HasParent, BlocksFollowParents
  <2>4. QED
    BY <2>2, <2>3
<1>6. RootedInv' /\ PurgedInv'
  BY <1>1, <1>2, <1>3, <1>5 DEF ReplayInv, RootedInv, PurgedInv, IsLow
<1>7. FlagsInv' /\ WoundInv'
  BY <1>1, <1>3 DEF ReplayInv, FlagsInv, WoundInv
<1>8. UtxoInv' /\ ValidInv'
  BY <1>1, <1>4 DEF ReplayInv, UtxoInv, ValidInv, IsLive, BranchOf, Edge
<1>9. QED
  BY <1>6, <1>7, <1>8 DEF ReplayInv

\* unwind_chain with one block: what it spent may be spent again, because its inputs were
\* there when it was validated, on the same branch.
LEMMA UnwindReplay ==
  ASSUME BlocksFollowParents, SlipsAreDated, StartsAtFirst, TypeInv, ReorgInv, ReorgInv', ReplayInv,
         BlocksAreOnDisk, UnwindBlock
  PROVE  ReplayInv'
<1> DEFINE h == old_chain[wind.index]
<1>1. /\ pc = "unwind" /\ h \notin has_checkpoint /\ utxoset' = UnwoundUtxoset(h) /\ h \in blocks
      /\ in_longest_chain' = in_longest_chain \ {h}
      /\ UNCHANGED <<blocks, is_valid, safe_to_prune, has_checkpoint, last_block, adding, purge, new_chain, old_chain, shared>>
      /\ \/ pc' = "wind" /\ wind.index = Len(old_chain) /\ wind'.index = wind.slice
         \/ pc' = "unwind" /\ wind'.index = wind.index + 1
  <2>1. wind' = [wind EXCEPT !.index = wind.slice] => wind'.index = wind.slice
    BY Types DEF WindArguments
  <2>2. wind' = [wind EXCEPT !.index = @ + 1] => wind'.index = wind.index + 1
    BY Types DEF WindArguments
  <2>3. QED
    BY <2>1, <2>2 DEF UnwindBlock, CanUnwind, IsBarred, Flag, callVars, chainVars, headVars
<1>2. pruned' \subseteq pruned \cup safe_to_prune
  BY DEF UnwindBlock, PrunedBelow
<1> HIDE DEF h
<1>3. /\ Unwinds /\ CatchesUp /\ IsBranch(old_chain) /\ old_chain \in Seq(Hash) /\ old_chain # <<>>
      /\ wind.index \in 1 .. Len(old_chain) /\ Tip = h /\ wind.slice = Len(new_chain)
      /\ new_chain \in Seq(Hash) /\ h \in Wound /\ purge = {} /\ Kept = blocks
  <2>1. Unwinds /\ CatchesUp /\ IsBranch(old_chain) /\ old_chain # <<>> /\ purge = {}
    BY <1>1 DEF ReorgInv, PhaseInv, Moving, Branches, Unwinds, CatchesUp
  <2>2. new_chain \in Seq(Hash) /\ old_chain \in Seq(Hash)
    BY Types
  <2>3. wind.index \in 1 .. Len(old_chain) /\ Tip = h /\ wind.slice = Len(new_chain)
    BY <2>1 DEF Unwinds, h
  <2>4. wind.index >= wind.index
    BY <2>2, <2>3, ChainBlocks
  <2>5. h \in Wound
    BY <2>1, <2>3, <2>4 DEF Unwinds, h
  <2>6. QED
    BY <2>1, <2>2, <2>3, <2>5 DEF Kept
<1>4. h \in Hash /\ Len(old_chain) \in Nat /\ last_block.id \in Nat /\ h # NoHash
  BY <1>1, <1>3, ReplayTypes, ChainBlocks, RingAssumption
<1>5. Tip' = Parent[h] \/ (Tip' = NoHash /\ IsLow(Id[h], last_block.id))
  <2>1. CASE pc' = "unwind"
    <3>1. Tip' = old_chain[wind.index + 1] /\ wind.index + 1 \in 1 .. Len(old_chain)
      BY <1>1, <2>1 DEF ReorgInv, PhaseInv, Unwinds
    <3>2. wind.index \in 1 .. Len(old_chain) - 1
      BY <1>3, <1>4, <3>1
    <3>3. QED
      BY <1>3, <3>1, <3>2 DEF IsBranch, h
  <2>2. CASE pc' = "wind"
    <3>1. wind.index = Len(old_chain) /\ wind'.index = Len(new_chain) /\ h = Bottom(old_chain)
      BY <1>1, <1>3, <2>2 DEF Bottom, h
    <3>2. Len(new_chain) \in Nat
      BY <1>3, ChainBlocks
    <3>3. Tip' = shared
      <4>1. Winds' /\ Rest' = Len(new_chain)
        BY <1>1, <2>2, <3>1 DEF ReorgInv, PhaseInv, Rest
      <4>2. QED
        BY <1>1, <3>2, <4>1 DEF Winds
    <3>4. CASE shared # NoHash
      BY <1>3, <3>1, <3>3, <3>4 DEF CatchesUp
    <3>5. CASE shared = NoHash
      <4>1. Parent[h] \notin blocks
        BY <1>3, <3>1, <3>5 DEF CatchesUp, StartsAtEdge
      <4>2. QED
        BY <1>1, <1>3, <3>3, <3>5, <4>1 DEF ReplayInv, RootedInv
    <3>6. QED
      BY <3>4, <3>5
  <2>3. QED
    BY <1>1, <2>1, <2>2
<1>6. utxoset' = (utxoset \cup Spends[h]) \ Creates[h]
  BY <1>1, BlocksAreReadable DEF UnwoundUtxoset, ReplayInv
<1>7. ASSUME NEW s \in Slip, SlipId[s] >= Edge
      PROVE  s \in utxoset' <=> IsLive(BranchOf(Tip'), s)
  <2>1. s \in utxoset <=> IsLive(Ancestors[h], s)
    BY <1>3, <1>4, <1>7 DEF ReplayInv, UtxoInv, BranchOf
  <2>2. /\ IsLive(Ancestors[h], s) <=> s \in Creates[h] \/ (IsLive(Ancestors[h] \ {h}, s) /\ s \notin Spends[h])
        /\ s \in Creates[h] => ~IsLive(Ancestors[h] \ {h}, s) /\ s \notin Spends[h]
    BY <1>1, <1>4, LiveOneUp
  <2>3. s \in Spends[h] => IsLive(Ancestors[h] \ {h}, s)
    BY <1>3, <1>7 DEF ReplayInv, ValidInv, WoundInv
  <2>4. IsLive(BranchOf(Tip'), s) <=> IsLive(Ancestors[h] \ {h}, s)
    <3>1. CASE Tip' = Parent[h]
      BY <1>4, <3>1, BranchOfParent
    <3>2. CASE Tip' = NoHash /\ IsLow(Id[h], last_block.id)
      <4>1. ~IsLive(Ancestors[h] \ {h}, s)
        BY <1>4, <1>7, <3>2, LowBlock DEF Edge
      <4>2. ~IsLive(BranchOf(Tip'), s)
        BY <3>2 DEF IsLive, BranchOf
      <4>3. QED
        BY <4>1, <4>2
    <3>3. QED
      BY <1>5, <3>1, <3>2
  <2>5. QED
    BY <1>6, <2>1, <2>2, <2>3, <2>4
<1>8. UtxoInv' /\ ValidInv'
  BY <1>1, <1>7 DEF ReplayInv, UtxoInv, ValidInv, IsLive, Edge
<1>9. RootedInv' /\ PurgedInv'
  BY <1>1 DEF ReplayInv, RootedInv, PurgedInv, Kept
<1>10. FlagsInv'
  BY <1>1, <1>2 DEF ReplayInv, FlagsInv, Settled
<1>11. WoundInv'
  BY <1>1 DEF ReplayInv, WoundInv, Wound, FlaggedOnly
<1>12. QED
  BY <1>8, <1>9, <1>10, <1>11 DEF ReplayInv

\* A block that validates spends what is there to be spent on its branch.
LEMMA InputsAreLive ==
  ASSUME BlocksFollowParents, SlipsAreDated, StartsAtFirst, TypeInv, ReorgInv, ReplayInv, pc = "wind",
         NEW h, h = new_chain[wind.index], Validates(h), HasTotalSupplyLoaded(blockring) \/ Tip = NoHash,
         NEW s \in Spends[h], SlipId[s] >= Edge
  PROVE  IsLive(Ancestors[h] \ {h}, s)
<1>1. CASE h \in is_valid
  BY <1>1 DEF ReplayInv, ValidInv
<1>2. CASE h \notin is_valid
  <2>1. /\ h \in Hash /\ h \in blocks /\ Kept = blocks
        /\ Tip # NoHash => Parent[h] = Tip
        /\ Tip = NoHash => Parent[h] \notin blocks
    BY WindOnTip
  <2>2. s \in Slip /\ last_block.id \in Nat
    BY <2>1, ReplayTypes, BlockchainAssumption
  <2>3. CASE Tip = NoHash
    <3>1. IsLow(Id[h], last_block.id)
      BY <2>1, <2>3 DEF ReplayInv, RootedInv
    <3>2. s \notin Spends[h]
      BY <2>1, <2>2, <3>1, LowBlock DEF Edge
    <3>3. QED
      BY <3>2
  <2>4. CASE Tip # NoHash
    <3>1. Spends[h] \subseteq utxoset
      BY <1>2, <2>4 DEF Validates, ValidatesTransactions, ReorgInv, WaitInv
    <3>2. IsLive(BranchOf(Tip), s)
      BY <2>2, <3>1 DEF ReplayInv, UtxoInv
    <3>3. QED
      BY <2>1, <2>4, <3>2, BranchOfParent
  <2>5. QED
    BY <2>3, <2>4
<1>3. QED
  BY <1>1, <1>2

\* The edge of the window only moves up.
LEMMA EdgeRises ==
  ASSUME NEW x \in Nat, NEW y \in Nat, x <= y, NEW n \in Nat, n >= Monus(y, GenesisPeriod)
  PROVE  n >= Monus(x, GenesisPeriod)
BY RingAssumption DEF Monus

\* What was low stays so.
LEMMA LowRises ==
  ASSUME NEW x \in Nat, NEW y \in Nat, x <= y, NEW i \in Nat, IsLow(i, x)
  PROVE  IsLow(i, y)
<1>1. RingSize \in Nat
  BY RingAssumption DEF RingSize
<1>2. QED
  BY <1>1 DEF IsLow

\* wind_chain with one block.
LEMMA WindReplay ==
  ASSUME BlocksFollowParents, SlipsAreDated, StartsAtFirst, TypeInv, ReorgInv, ReorgInv', ReplayInv,
         BlocksAreOnDisk, InputsAreChecked, WindBlock
  PROVE  ReplayInv'
<1> DEFINE h == new_chain[wind.index]
           ring == PutOnLongestChain(blockring, h)
<1>1. /\ pc = "wind" /\ pc' = "purge" /\ h \notin has_checkpoint /\ Validates(h)
      /\ is_valid' = is_valid \cup {h} /\ utxoset' = WoundUtxoset(h)
      /\ in_longest_chain' = in_longest_chain \cup {h}
      /\ blockring' = ring
      /\ UNCHANGED <<blocks, safe_to_prune, has_checkpoint, adding, new_chain, old_chain, shared, wind>>
      /\ pruned' \subseteq pruned
      /\ \/ last_block.id >= Id[h] /\ last_block' = last_block /\ purge' = {}
         \/ ~(last_block.id >= Id[h]) /\ last_block' = [id |-> Id[h], hash |-> h] /\ purge' = PurgedBelow(ring)
  BY DEF WindBlock, IsBarred, Flag, Upgrade, callVars, chainVars, headVars, ReorgInv, WaitInv
<1> HIDE DEF h, ring
<1>2. /\ Branches /\ purge = {} /\ Kept = blocks /\ FlaggedOnly
      /\ wind.index \in 1 .. Len(new_chain) /\ h \in blocks /\ h \in Hash
  BY <1>1, WindOnTip DEF h
<1>3. last_block.id \in Nat /\ Id[h] \in Nat /\ h # NoHash /\ blocks \in SUBSET Hash /\ Len(new_chain) \in Nat
  BY <1>2, ReplayTypes, BlockType, ChainBlocks, Types
<1>4. last_block'.id \in Nat /\ last_block.id <= last_block'.id
  BY <1>1, <1>3
<1>5. Tip' = h
  <2>1. Winds' /\ Rest' = wind.index - 1
    BY <1>1 DEF ReorgInv, PhaseInv, Rest
  <2>2. wind.index - 1 < Len(new_chain) /\ (wind.index - 1) + 1 = wind.index
    BY <1>2, <1>3
  <2>3. QED
    BY <1>1, <2>1, <2>2 DEF Winds, h
<1>6. \A d \in purge' : d \in blocks /\ Id[d] <= last_block'.id - RingSize + 1
  <2>1. CASE purge' = {}
    BY <2>1
  <2>2. CASE last_block' = [id |-> Id[h], hash |-> h] /\ purge' = PurgedBelow(ring)
    <3>1. LatestId(ring) = Id[h]
      BY <1>1, <1>3, <1>5 DEF LatestId, Tip
    <3>2. RingSize \in Nat
      BY RingAssumption DEF RingSize
    <3>3. \A d \in purge' : Id[d] = Id[h] - RingSize \/ Id[d] = Id[h] - RingSize + 1
      BY <2>2, <3>1 DEF PurgedBelow, HashesAt
    <3>4. purge' \subseteq blocks
      BY <1>1 DEF ReorgInv, PurgeInv
    <3>5. QED
      BY <1>3, <2>2, <3>2, <3>3, <3>4
  <2>3. QED
    BY <1>1, <2>1, <2>2
<1>7. RootedInv'
  <2>1. SUFFICES ASSUME NEW b \in Kept', Parent[b] \notin Kept'
                 PROVE  IsLow(Id[b], last_block'.id)
    BY DEF RootedInv
  <2>2. Kept' = blocks \ purge' /\ b \in blocks /\ b \in Hash /\ Id[b] \in Nat
    BY <1>1, <1>3, BlockType DEF Kept
  <2>3. CASE Parent[b] \in blocks
    <3>1. Parent[b] \in purge' /\ Parent[b] \in Hash
      BY <1>3, <2>1, <2>2, <2>3
    <3>2. Id[b] = Id[Parent[b]] + 1 /\ Id[Parent[b]] <= last_block'.id - RingSize + 1 /\ Id[Parent[b]] \in Nat
      BY <1>6, <2>2, <3>1, BlockType DEF BlocksFollowParents
    <3>3. RingSize \in Nat
      BY RingAssumption DEF RingSize
    <3>4. QED
      BY <1>4, <3>2, <3>3 DEF IsLow
  <2>4. CASE Parent[b] \notin blocks
    <3>1. IsLow(Id[b], last_block.id)
      BY <1>2, <2>2, <2>4 DEF ReplayInv, RootedInv
    <3>2. QED
      BY <1>3, <1>4, <2>2, <3>1, LowRises
  <2>5. QED
    BY <2>3, <2>4
<1>8. utxoset' = (utxoset \ Spends[h]) \cup Creates[h]
  BY <1>1, <1>2, BlocksAreReadable DEF WoundUtxoset, ReplayInv
<1>9. HasTotalSupplyLoaded(blockring) \/ Tip = NoHash
  BY DEF InputsAreChecked
<1>10. ASSUME NEW s \in Slip, SlipId[s] >= Edge'
       PROVE  SlipId[s] >= Edge
  <2>1. Edge' = Monus(last_block'.id, GenesisPeriod) /\ SlipId[s] \in Nat
    BY BlockchainAssumption DEF Edge
  <2>2. QED
    BY <1>3, <1>4, <1>10, <2>1, EdgeRises DEF Edge
<1>11. ASSUME NEW s \in Slip, SlipId[s] >= Edge
       PROVE  s \in utxoset' <=> IsLive(Ancestors[h], s)
  <2>1. /\ IsLive(Ancestors[h], s) <=> s \in Creates[h] \/ (IsLive(Ancestors[h] \ {h}, s) /\ s \notin Spends[h])
        /\ s \in Creates[h] => ~IsLive(Ancestors[h] \ {h}, s) /\ s \notin Spends[h]
    BY <1>1, <1>2, LiveOneUp
  <2>2. s \in utxoset <=> IsLive(BranchOf(Tip), s)
    BY <1>11 DEF ReplayInv, UtxoInv
  <2>3. /\ Tip # NoHash => Parent[h] = Tip
        /\ Tip = NoHash => Parent[h] \notin blocks
    BY <1>1, WindOnTip DEF h
  <2>4. IsLive(BranchOf(Tip), s) <=> IsLive(Ancestors[h] \ {h}, s)
    <3>1. CASE Tip # NoHash
      BY <1>2, <2>3, <3>1, BranchOfParent
    <3>2. CASE Tip = NoHash
      <4>1. IsLow(Id[h], last_block.id)
        BY <1>2, <2>3, <3>2 DEF ReplayInv, RootedInv
      <4>2. ~IsLive(Ancestors[h] \ {h}, s)
        BY <1>2, <1>3, <1>11, <4>1, LowBlock DEF Edge
      <4>3. ~IsLive(BranchOf(Tip), s)
        BY <3>2 DEF IsLive, BranchOf
      <4>4. QED
        BY <4>2, <4>3
    <3>3. QED
      BY <3>1, <3>2
  <2>5. QED
    BY <1>8, <2>1, <2>2, <2>4
<1>12. UtxoInv'
  BY <1>1, <1>3, <1>5, <1>10, <1>11 DEF UtxoInv, IsLive, BranchOf
<1>13. \A s \in Spends[h] : SlipId[s] >= Edge => IsLive(Ancestors[h] \ {h}, s)
  BY <1>1, <1>9, InputsAreLive DEF h
<1>14. ValidInv'
  <2>1. ASSUME NEW g \in is_valid', NEW s \in Spends[g], SlipId[s] >= Edge'
        PROVE  IsLive(Ancestors[g] \ {g}, s)
    <3>1. g \in Hash /\ s \in Slip
      BY <1>1, <1>2, ReplayTypes, BlockchainAssumption
    <3>2. SlipId[s] >= Edge
      BY <1>10, <2>1, <3>1
    <3>3. QED
      BY <1>1, <1>13, <3>2 DEF ReplayInv, ValidInv
  <2>2. QED
    BY <1>1, <2>1 DEF ValidInv, IsLive
<1>15. FlagsInv'
  BY <1>1, <1>2 DEF ReplayInv, FlagsInv, Settled
<1>16. WoundInv'
  BY <1>1, <1>2, <1>3 DEF ReplayInv, WoundInv, Wound, FlaggedOnly, Branches, h
<1>17. QED
  BY <1>6, <1>7, <1>12, <1>14, <1>15, <1>16 DEF ReplayInv, PurgedInv

\* A block that is rejected for the supply may have been found valid first.
LEMMA RejectReplay ==
  ASSUME BlocksFollowParents, SlipsAreDated, StartsAtFirst, TypeInv, ReorgInv, ReorgInv', ReplayInv, RejectBlock,
         old_chain = <<>> /\ wind.index = Len(new_chain)
  PROVE  ReplayInv'
<1> DEFINE h == new_chain[wind.index]
<1>1. /\ pc = "wind" /\ pc' = "verdict" /\ verdict' = FALSE
      /\ is_valid' = is_valid \/ (Validates(h) /\ ~IsSupplyValid /\ is_valid' = is_valid \cup {h})
      /\ UNCHANGED <<blocks, in_longest_chain, utxoset, safe_to_prune, has_checkpoint, adding, latest, last_block, purge, blockring>>
      /\ pruned' \subseteq pruned
  BY DEF RejectBlock, Upgrade, Finish, callVars, chainVars, headVars
<1> HIDE DEF h
<1>2. purge = {} /\ Kept = blocks /\ FlaggedOnly /\ h \in blocks /\ h \in Hash
  BY <1>1, WindOnTip DEF h
<1>3. FlaggedOnly' /\ UNCHANGED <<Kept, Edge, Tip>>
  BY <1>1 DEF FlaggedOnly, Kept, Edge, Tip
<1>4. Wound' = Wound
  BY <1>1, <1>2, <1>3 DEF Wound
<1>5. RootedInv' /\ PurgedInv' /\ FlagsInv' /\ WoundInv'
  BY <1>1, <1>2, <1>3, <1>4 DEF ReplayInv, RootedInv, PurgedInv, FlagsInv, WoundInv, Settled
<1>6. UtxoInv'
  BY <1>1, <1>3 DEF ReplayInv, UtxoInv, IsLive, BranchOf
<1>7. (Validates(h) /\ ~IsSupplyValid) => \A s \in Spends[h] : SlipId[s] >= Edge => IsLive(Ancestors[h] \ {h}, s)
  BY <1>1, InputsAreLive DEF h, IsSupplyValid
<1>8. ValidInv'
  BY <1>1, <1>3, <1>7 DEF ReplayInv, ValidInv, IsLive
<1>9. QED
  BY <1>5, <1>6, <1>8 DEF ReplayInv

\* delete_block takes from the utxoset what the block created and what it spent: all of it
\* is out of the window.
LEMMA PurgeReplay ==
  ASSUME BlocksFollowParents, SlipsAreDated, StartsAtFirst, TypeInv, ReorgInv, ReorgInv', ReplayInv,
         NEW h \in purge, PurgeBlock(h)
  PROVE  ReplayInv'
<1>1. /\ pc = "purge" /\ pc' = "purge" /\ h \in blocks /\ blocks' = blocks \ {h} /\ purge' = purge \ {h}
      /\ utxoset' \subseteq utxoset /\ utxoset \subseteq utxoset' \cup Spends[h] \cup Creates[h]
      /\ is_valid' = is_valid \ {h} /\ pruned' = pruned \ {h} /\ safe_to_prune' = safe_to_prune \ {h}
      /\ has_checkpoint' = has_checkpoint \ {h} /\ in_longest_chain' = in_longest_chain \ {h}
      /\ UNCHANGED <<last_block, adding, new_chain, old_chain, shared, wind>>
  BY DEF PurgeBlock, Forget, callVars, chainVars, headVars
<1>2. UNCHANGED <<Kept, Edge>>
  BY <1>1 DEF Kept, Edge
<1>3. Tip' = Tip
  <2>1. Winds /\ Winds' /\ Rest' = Rest
    BY <1>1 DEF ReorgInv, PhaseInv, Rest
  <2>2. QED
    BY <1>1, <2>1 DEF Winds
<1>4. /\ h \in Hash /\ Id[h] \in Nat /\ last_block.id \in Nat /\ Id[h] <= last_block.id - RingSize + 1
      /\ IsLow(Id[h] + 1, last_block.id)
  <2>1. h \in Hash /\ Id[h] \in Nat /\ last_block.id \in Nat /\ Id[h] <= last_block.id - RingSize + 1
    BY <1>1, ReplayTypes, BlockType DEF ReplayInv, PurgedInv
  <2>2. RingSize \in Nat
    BY RingAssumption DEF RingSize
  <2>3. QED
    BY <2>1, <2>2 DEF IsLow
<1>5. ASSUME NEW s \in Slip, SlipId[s] >= Edge
      PROVE  s \notin Creates[h] /\ s \notin Spends[h] /\ s \notin Checkpoint[h]
  <2>1. SlipId[s] \in Nat /\ SlipId[s] > 0
    BY BlockchainAssumption DEF SlipsAreDated
  <2>2. ~(SlipId[s] < Id[h] + 1)
    BY <1>4, <1>5, <2>1, LowIsOut DEF Edge
  <2>3. ~(SlipId[s] <= Id[h])
    BY <1>4, <2>1, <2>2
  <2>4. ~(SlipId[s] < Id[h]) /\ ~(SlipId[s] = Id[h])
    BY <1>4, <2>1, <2>3
  <2>5. QED
    BY <1>4, <2>3, <2>4 DEF SlipsAreDated
<1>6. \A A : \A s \in Slip : SlipId[s] >= Edge =>
        ((\A b \in A : s \notin Spends[b] /\ (b \in has_checkpoint' => s \notin Checkpoint[b]))
           <=> (\A b \in A : s \notin Spends[b] /\ (b \in has_checkpoint => s \notin Checkpoint[b])))
  BY <1>1, <1>5
<1>7. UtxoInv'
  <2>1. SUFFICES ASSUME NEW s \in Slip, SlipId[s] >= Edge
                 PROVE  s \in utxoset' <=> IsLive(BranchOf(Tip), s)'
    BY <1>2 DEF UtxoInv
  <2>2. s \in utxoset' <=> IsLive(BranchOf(Tip), s)
    BY <1>1, <1>5, <2>1 DEF ReplayInv, UtxoInv
  <2>3. BranchOf(Tip') = BranchOf(Tip)
    BY <1>3
  <2>4. QED
    BY <1>6, <2>1, <2>2, <2>3 DEF IsLive
<1>8. ValidInv'
  <2>1. SUFFICES ASSUME NEW g \in is_valid', NEW s \in Spends[g], SlipId[s] >= Edge
                 PROVE  IsLive(Ancestors[g] \ {g}, s)'
    BY <1>2 DEF ValidInv
  <2>2. g \in is_valid /\ s \in Slip
    BY <1>1, ReplayTypes, BlockchainAssumption
  <2>3. IsLive(Ancestors[g] \ {g}, s)
    BY <2>1, <2>2 DEF ReplayInv, ValidInv
  <2>4. QED
    BY <1>1, <2>3 DEF IsLive
<1>9. RootedInv' /\ PurgedInv'
  BY <1>1, <1>2 DEF ReplayInv, RootedInv, PurgedInv
<1>10. FlagsInv'
  BY <1>1 DEF ReplayInv, FlagsInv, Settled
<1>11. WoundInv'
  BY <1>1 DEF ReplayInv, WoundInv, Wound, FlaggedOnly
<1>12. QED
  BY <1>7, <1>8, <1>9, <1>10, <1>11 DEF ReplayInv

\* A block that fails was not on the chain, nor below another.
LEMMA FailReplay ==
  ASSUME TypeInv, ReorgInv, ReorgInv', ReplayInv, Fail, ~verdict
  PROVE  ReplayInv'
<1>1. /\ pc = "verdict" /\ pc' = "batch" /\ blocks' = blocks \ {adding}
      /\ is_valid' = is_valid \ {adding} /\ pruned' = pruned \ {adding}
      /\ safe_to_prune' = safe_to_prune \ {adding} /\ has_checkpoint' = has_checkpoint \ {adding}
      /\ in_longest_chain' = in_longest_chain \ {adding}
      /\ UNCHANGED <<utxoset, last_block, adding, latest, purge>>
  BY DEF Fail, Forget, callVars, headVars
<1>2. ~Settled /\ Settled' /\ purge = {} /\ FlaggedOnly /\ ~FlaggedOnly' /\ adding # NoHash
  BY <1>1, Types, BlockType DEF Settled, FlaggedOnly, ReorgInv, PurgeInv
<1>3. Kept = blocks /\ Kept' = blocks \ {adding} /\ Wound' = Wound /\ Wound = in_longest_chain \ {adding} /\ Edge' = Edge
  BY <1>1, <1>2 DEF Kept, Wound, Edge
<1>4. Tip' = Tip
  BY <1>1, <1>2 DEF ReorgInv, PhaseInv, RestoreInv
<1>5. has_checkpoint' = has_checkpoint
  BY <1>1, <1>2 DEF ReplayInv, FlagsInv
<1>6. \A b \in Kept : Parent[b] # adding
  BY <1>2, NewBlockIsKept
<1>7. RootedInv' /\ PurgedInv'
  BY <1>1, <1>2, <1>3, <1>6 DEF ReplayInv, RootedInv, PurgedInv
<1>8. FlagsInv' /\ WoundInv'
  BY <1>1, <1>2, <1>3 DEF ReplayInv, FlagsInv, WoundInv
<1>9. UtxoInv' /\ ValidInv'
  BY <1>1, <1>3, <1>4, <1>5 DEF ReplayInv, UtxoInv, ValidInv, IsLive, BranchOf
<1>10. QED
  BY <1>7, <1>8, <1>9 DEF ReplayInv

\* add_block_success, with the checkpoint of the block if it has one.  No block is built on
\* it yet, so no verdict of before is overtaken.
LEMMA SucceedReplay ==
  ASSUME BlocksFollowParents, SlipsAreDated, StartsAtFirst, TypeInv, ReorgInv, ReorgInv', ReplayInv,
         FreezesAtTip, Succeed
  PROVE  ReplayInv'
<1> DEFINE frozen == utxoset \cap Checkpoint[adding]
<1>1. /\ pc = "success" /\ pc' = "batch" /\ PrunedAfterAdd \subseteq blocks
      /\ safe_to_prune' \subseteq safe_to_prune \cup blocks /\ pruned' = pruned \cup PrunedAfterAdd
      /\ utxoset' = utxoset \ frozen
      /\ has_checkpoint' = IF frozen = {} THEN has_checkpoint ELSE has_checkpoint \cup {adding}
      /\ UNCHANGED <<blocks, in_longest_chain, is_valid, adding, last_block, blockring, purge>>
      /\ Tip = adding \/ frozen = {}
  BY DEF Succeed, CanSucceed, FreezesAtTip, callVars, chainVars
<1> HIDE DEF frozen
<1>2. ~Settled /\ Settled' /\ Rests /\ Rests' /\ PurgeInv /\ PurgeInv'
  BY <1>1 DEF Settled, Rests, Moving, ReorgInv
<1>3. /\ Kept = blocks /\ Kept' = blocks /\ Wound' = Wound /\ UNCHANGED <<Tip, Edge>>
      /\ adding \in blocks /\ adding \in Hash /\ last_block.id = LatestId(blockring)
      /\ \A b \in blocks : Parent[b] # adding
  BY <1>1, <1>2, AtRest, NewBlockIsKept, RestCore, Types DEF Tip, Edge
<1>4. RootedInv' /\ PurgedInv'
  BY <1>1, <1>3 DEF ReplayInv, RootedInv, PurgedInv
<1>5. FlagsInv' /\ WoundInv'
  BY <1>1, <1>2, <1>3 DEF ReplayInv, FlagsInv, WoundInv
<1>6. CASE frozen = {}
  <2>1. utxoset' = utxoset /\ has_checkpoint' = has_checkpoint
    BY <1>1, <1>6
  <2>2. UtxoInv' /\ ValidInv'
    BY <1>1, <1>3, <2>1 DEF ReplayInv, UtxoInv, ValidInv, IsLive, BranchOf
  <2>3. QED
    BY <1>4, <1>5, <2>2 DEF ReplayInv
<1>7. CASE frozen # {}
  <2>1. Tip = adding /\ has_checkpoint' = has_checkpoint \cup {adding}
    BY <1>1, <1>7
  <2>2. adding # NoHash /\ Tip # NoHash /\ adding \in Ancestors[adding] /\ BranchOf(Tip) = Ancestors[adding]
    BY <1>3, <2>1, BlockType, AncestorsBelow DEF BranchOf
  <2>3. UtxoInv'
    <3>1. SUFFICES ASSUME NEW s \in Slip, SlipId[s] >= Edge
                   PROVE  s \in utxoset' <=> IsLive(BranchOf(Tip), s)'
      BY <1>3 DEF UtxoInv
    <3>2. s \in utxoset <=> IsLive(BranchOf(Tip), s)
      BY <3>1 DEF ReplayInv, UtxoInv
    <3>3. s \in utxoset' <=> s \in utxoset /\ s \notin Checkpoint[adding]
      BY <1>1 DEF frozen
    <3>4. BranchOf(Tip') = BranchOf(Tip)
      BY <1>3
    <3>5. QED
      BY <2>1, <2>2, <3>2, <3>3, <3>4 DEF IsLive
  <2>4. ASSUME NEW g \in is_valid, NEW s \in Spends[g], SlipId[s] >= Edge, adding \in Ancestors[g] \ {g}
        PROVE  FALSE
    <3>1. g \in blocks /\ g \in Hash /\ blocks \in SUBSET Hash /\ last_block.id \in Nat
      BY ReplayTypes DEF ReplayInv, FlagsInv
    <3>2. PICK c \in Ancestors[g] : Parent[c] = adding
      BY <2>4, <3>1, AncestorHasChild
    <3>3. c \in Hash
      BY <3>1, AncestorsBelow
    <3>4. Id[c] = Id[adding] + 1 /\ Id[adding] = last_block.id
      BY <1>3, <2>1, <2>2, <3>2, <3>3 DEF BlocksFollowParents, LatestId, Tip
    <3>5. last_block.id + 1 >= Monus(last_block.id, GenesisPeriod)
      BY <3>1, RingAssumption DEF Monus
    <3>6. \A b \in blocks : Parent[b] \in blocks \/ IsLow(Id[b], last_block.id)
      BY <1>3 DEF ReplayInv, RootedInv
    <3>7. last_block.id + 1 \in Nat /\ last_block.id + 1 > 0 /\ Id[c] >= last_block.id + 1
      BY <3>1, <3>4
    <3>8. c \in blocks
      BY <3>1, <3>5, <3>6, <3>7, WindowIsKnown
    <3>9. QED
      BY <1>3, <3>2, <3>8
  <2>5. ValidInv'
    <3>1. SUFFICES ASSUME NEW g \in is_valid, NEW s \in Spends[g], SlipId[s] >= Edge
                   PROVE  IsLive(Ancestors[g] \ {g}, s)'
      BY <1>1, <1>3 DEF ValidInv
    <3>2. adding \notin Ancestors[g] \ {g} /\ IsLive(Ancestors[g] \ {g}, s)
      BY <2>4, <3>1 DEF ReplayInv, ValidInv
    <3>3. QED
      BY <2>1, <3>2 DEF IsLive
  <2>6. QED
    BY <1>4, <1>5, <2>3, <2>5 DEF ReplayInv
<1>8. QED
  BY <1>6, <1>7

\* There are no slips.
LEMMA InitReplay == Init => ReplayInv
<1> SUFFICES ASSUME Init PROVE ReplayInv
  OBVIOUS
<1>1. /\ blocks = {} /\ purge = {} /\ pc = "idle" /\ in_longest_chain = {} /\ is_valid = {} /\ pruned = {}
      /\ safe_to_prune = {} /\ has_checkpoint = {} /\ utxoset = {} /\ blockring = NewRing
  BY DEF Init
<1>2. Tip = NoHash
  BY <1>1 DEF Tip, LatestHash, NewRing
<1>3. RootedInv /\ PurgedInv /\ FlagsInv /\ WoundInv /\ ValidInv
  BY <1>1 DEF RootedInv, PurgedInv, FlagsInv, WoundInv, ValidInv, Kept, Wound, Settled
<1>4. UtxoInv
  BY <1>1, <1>2 DEF UtxoInv, IsLive, BranchOf
<1>5. QED
  BY <1>3, <1>4 DEF ReplayInv

\* Every step.
LEMMA NextReplay ==
  ASSUME BlocksFollowParents, SlipsAreDated, StartsAtFirst, TypeInv, ReorgInv, ReorgInv', ReplayInv, BlocksAreOnDisk,
         [Next]_vars, [FailsBeforeItMoves /\ InputsAreChecked /\ FreezesAtTip]_vars
  PROVE  ReplayInv'
<1>1. CASE UNCHANGED vars
  <2>1. UNCHANGED <<blocks, in_longest_chain, is_valid, pruned, safe_to_prune, has_checkpoint, utxoset, last_block,
                    purge, blockring, adding, pc, wind, verdict>>
    BY <1>1 DEF vars, blockVars, callVars, headVars
  <2>2. UNCHANGED <<Tip, Wound, Settled>>
    BY <2>1 DEF Tip, Wound, FlaggedOnly, Settled
  <2>3. QED
    BY <2>1, <2>2, FrameReplay
<1>2. CASE Next /\ FailsBeforeItMoves /\ InputsAreChecked /\ FreezesAtTip
  <2>1. CASE \E h \in Hash : ReceiveBlock(h) \/ IgnoreBlock(h)
    <3>1. CASE UNCHANGED vars
      BY <1>1, <3>1
    <3>2. CASE \E h \in Hash : ReceiveBlock(h)
      <4>1. /\ UNCHANGED <<blocks, in_longest_chain, is_valid, pruned, safe_to_prune, has_checkpoint, utxoset,
                           last_block, purge, blockring>>
            /\ pc = "idle" /\ pc' = "batch"
        BY <3>2 DEF ReceiveBlock, StartBatch, blockVars, headVars
      <4>2. QED
        BY <4>1, FrameReplay DEF Tip, Wound, FlaggedOnly, Settled
    <3>3. QED
      BY <2>1, <3>1, <3>2 DEF IgnoreBlock
  <2>2. CASE HandleUpdate \/ EndBatch \/ \E h \in batch : Refuse(h) \/ Postpone(h)
    <3>1. /\ UNCHANGED <<blocks, in_longest_chain, is_valid, pruned, safe_to_prune, has_checkpoint, utxoset,
                         last_block, purge, blockring>>
          /\ pc \in {"idle", "batch"} /\ pc' \in {"idle", "batch"}
      BY <2>2 DEF HandleUpdate, EndBatch, Refuse, Postpone, blockVars, headVars
    <3>2. QED
      BY <3>1, FrameReplay DEF Tip, Wound, FlaggedOnly, Settled
  <2>3. CASE \E h \in batch : TakeIn(h)
    BY <2>3, TakeInReplay
  <2>4. CASE ExtendNewChain \/ FindSharedAncestor \/ MissSharedAncestor \/ ExtendOldChain \/ EndOldChain
    <3>1. /\ UNCHANGED <<blocks, is_valid, pruned, safe_to_prune, has_checkpoint, utxoset, last_block, purge,
                         adding, latest>>
          /\ in_longest_chain' \subseteq in_longest_chain
          /\ pc \in {"new chain", "old chain"} /\ pc' \in {"new chain", "old chain", "select"}
      BY <2>4 DEF ExtendNewChain, FindSharedAncestor, MissSharedAncestor, ExtendOldChain, EndOldChain,
                  blockVars, callVars, headVars
    <3>2. Tip' = Tip
      BY <3>1, WalksKeepTip
    <3>3. QED
      BY <3>1, <3>2, FrameReplay DEF Wound, FlaggedOnly, Settled
  <2>5. CASE SelectOther \/ SelectLongest
    <3>1. /\ UNCHANGED <<blocks, is_valid, pruned, safe_to_prune, has_checkpoint, utxoset, last_block, purge, adding>>
          /\ blockring' = [blockring EXCEPT !.empty = FALSE] /\ pc = "select"
          /\ \/ in_longest_chain' = in_longest_chain /\ pc' = "success"
             \/ /\ in_longest_chain' = in_longest_chain \cup {adding}
                /\ pc' \in {"wind", "unwind"} \/ (pc' = "verdict" /\ verdict' = FALSE)
      BY <2>5 DEF SelectOther, SelectLongest, blockVars, callVars, headVars
    <3>2. Tip' = Tip
      <4>1. LatestHash(blockring') = LatestHash(blockring)
        BY <3>1, Types, NotEmptyAnyMore
      <4>2. QED
        BY <4>1 DEF Tip
    <3>3. Wound' \subseteq Wound
      BY <3>1 DEF Wound, FlaggedOnly
    <3>4. QED
      BY <3>1, <3>2, <3>3, FrameReplay DEF Settled
  <2>6. CASE UnwindCheckpoint \/ WindCheckpoint
    <3>1. /\ UNCHANGED <<blocks, in_longest_chain, is_valid, safe_to_prune, has_checkpoint, utxoset, last_block, purge,
                         adding, blockring>>
          /\ pruned' \subseteq pruned
          /\ pc \in {"unwind", "wind"} /\ pc' = "verdict" /\ verdict' = FALSE
      BY <2>6 DEF UnwindCheckpoint, WindCheckpoint, Finish, Upgrade, blockVars, callVars, headVars
    <3>2. QED
      BY <3>1, FrameReplay DEF Tip, Wound, FlaggedOnly, Settled
  <2>7. CASE UnwindBlock
    BY <2>7, UnwindReplay
  <2>8. CASE WindBlock
    BY <1>2, <2>8, WindReplay
  <2>9. CASE RejectBlock
    BY <1>2, <2>9, RejectReplay DEF FailsBeforeItMoves
  <2>10. CASE \E h \in purge : PurgeBlock(h)
    BY <2>10, PurgeReplay
  <2>11. CASE EndPurge
    <3>1. /\ UNCHANGED <<blocks, in_longest_chain, is_valid, safe_to_prune, has_checkpoint, utxoset, last_block, purge,
                         adding, blockring>>
          /\ pruned' \subseteq pruned \cup safe_to_prune
          /\ pc = "purge"
          /\ \/ pc' = "verdict" /\ wind.index = 1
             \/ pc' = "wind" /\ wind.index # 1
      BY <2>11 DEF EndPurge, Finish, PrunedBelow, callVars, headVars
    <3>2. Wound' \subseteq Wound
      BY <3>1 DEF Wound, FlaggedOnly
    <3>3. QED
      BY <3>1, <3>2, FrameReplay DEF Tip, Settled
  <2>12. CASE Accept
    <3>1. /\ UNCHANGED <<blocks, in_longest_chain, is_valid, pruned, safe_to_prune, has_checkpoint, utxoset, last_block,
                         purge, adding, blockring>>
          /\ pc = "verdict" /\ verdict /\ pc' = "success"
      BY <2>12 DEF Accept, blockVars, callVars, headVars
    <3>2. QED
      BY <3>1, FrameReplay DEF Tip, Wound, FlaggedOnly, Settled
  <2>13. CASE Fail
    BY <1>2, <2>13, FailReplay DEF FailsBeforeItMoves
  <2>14. CASE Succeed
    BY <1>2, <2>14, SucceedReplay
  <2>15. QED
    BY <1>2, <2>1, <2>2, <2>3, <2>4, <2>5, <2>6, <2>7, <2>8, <2>9, <2>10, <2>11, <2>12, <2>13, <2>14
       DEF Next, AddBlocksStep, FailsBeforeItMoves
<1>3. QED
  BY <1>1, <1>2

\* Between two calls the branch of the tip, in the window, is the longest chain.
LEMMA ReplayIsChain ==
  ASSUME BlocksFollowParents, SlipsAreDated, StartsAtFirst, TypeInv, ReorgInv, ReplayInv
  PROVE  UtxosetIsReplay
<1>1. SUFFICES ASSUME Settled, NEW s \in Slip, SlipId[s] >= Monus(LatestId(blockring), GenesisPeriod)
               PROVE  s \in utxoset <=> IsLive(in_longest_chain, s)
  BY DEF UtxosetIsReplay, IsLive
<1>2. Rests
  BY <1>1 DEF Settled, Rests, Moving
<1>3. /\ last_block.id = LatestId(blockring) /\ IsPath(blocks, in_longest_chain, Tip) /\ Kept = blocks
      /\ last_block.id \in Nat /\ blocks \in SUBSET Hash /\ Tip \in Hash \cup {NoHash}
  BY <1>2, RestCore, ReplayTypes
<1>4. \A b \in blocks : Parent[b] \in blocks \/ IsLow(Id[b], last_block.id)
  BY <1>3 DEF ReplayInv, RootedInv
<1>5. s \in utxoset <=> IsLive(BranchOf(Tip), s)
  BY <1>1, <1>3 DEF ReplayInv, UtxoInv, Edge
<1>6. IsLive(BranchOf(Tip), s) <=> IsLive(in_longest_chain, s)
  BY <1>1, <1>3, <1>4, PathIsBranch
<1>7. QED
  BY <1>5, <1>6

\* Under the hypothesis of the theorems the node has not crashed.
LEMMA NothingCrashes == (Spec /\ [][FailsBeforeItMoves]_vars) => [](crashes = 0)
<1>1. Init => crashes = 0
  BY DEF Init
<1>2. crashes = 0 /\ [Next]_vars /\ [FailsBeforeItMoves]_vars => (crashes = 0)'
  <2> SUFFICES ASSUME crashes = 0, [Next]_vars, [FailsBeforeItMoves]_vars
               PROVE  crashes' = 0
    OBVIOUS
  <2>1. CASE UNCHANGED vars
    BY <2>1 DEF vars, nodeVars
  <2>2. CASE Next /\ ~Crash
    <3>1. CASE \E h \in Hash : ReceiveBlock(h) \/ IgnoreBlock(h)
      BY <3>1 DEF ReceiveBlock, IgnoreBlock, vars, nodeVars
    <3>2. CASE AddBlocksStep
      BY <3>2 DEF AddBlocksStep, Refuse, Postpone, TakeIn, ExtendNewChain, FindSharedAncestor,
         MissSharedAncestor, ExtendOldChain, EndOldChain, SelectOther, SelectLongest, UnwindCheckpoint,
         UnwindBlock, WindCheckpoint, WindBlock, RejectBlock, PurgeBlock, EndPurge, Accept, Fail, Succeed,
         EndBatch, nodeVars
    <3>3. CASE HandleUpdate
      BY <3>3 DEF HandleUpdate
    <3>4. QED
      BY <2>2, <3>1, <3>2, <3>3 DEF Next
  <2>3. QED
    BY <2>1, <2>2 DEF FailsBeforeItMoves
<1>3. QED
  BY <1>1, <1>2, PTL DEF Spec

\* Whatever was wound, unwound, deleted and pruned on the way, block by block, the slips that
\* may be spent are those the longest chain created and neither spent nor froze.  A block that
\* is wound again is not validated again: that its inputs are there is what its branch, which
\* does not change, said the first time.
THEOREM UtxosetIsReplayCorrect ==
  ASSUME BlocksFollowParents, SlipsAreDated, StartsAtFirst
  PROVE  (Spec /\ [][FailsBeforeItMoves /\ InputsAreChecked /\ FreezesAtTip]_vars) => []UtxosetIsReplay
<1> PeersAgreeOnStart
  BY DEF StartsAtFirst, PeersAgreeOnStart
<1>1. TypeInv /\ ReorgInv /\ ReorgInv' /\ ReplayInv /\ crashes = 0 /\ (crashes = 0 => BlocksAreOnDisk)
        /\ [Next]_vars /\ [FailsBeforeItMoves /\ InputsAreChecked /\ FreezesAtTip]_vars => ReplayInv'
  BY NextReplay
<1>2. TypeInv /\ ReorgInv /\ ReplayInv => UtxosetIsReplay
  BY ReplayIsChain
<1>3. [FailsBeforeItMoves /\ InputsAreChecked /\ FreezesAtTip]_vars => [FailsBeforeItMoves]_vars
  OBVIOUS
<1>4. QED
  BY <1>1, <1>2, <1>3, InitReplay, NothingCrashes, TypeInvCorrect, ReorganizationCorrect, DiskCorrect, PTL DEF Spec

=============================================================================
