-------------------------- MODULE BlockchainProofs --------------------------
(***************************************************************************)
(* What the operators of BlockRing return and preserve, for every window,  *)
(* every set of blocks and every ring; then what holds of Blockchain for   *)
(* every disposition of the blocks and every number of crashes.  The       *)
(* invariant is that of the types, strengthened by what the type of a few  *)
(* assignments rests on; the index, the deletions, the disk and the queue  *)
(* have one each.  ReorganizationProofs builds on them.                    *)
(***************************************************************************)
EXTENDS Blockchain, SequenceTheorems, TLAPS

-----------------------------------------------------------------------------
(* The block ring: what a ring holds.                                      *)

\* The entries of every slot are those blocks of a set that belong in it.
HoldsExactly(r, S) ==
  \A s \in Slots : HashesIn(r.items[s]) = {h \in S : SlotOf(Id[h]) = s}

\* No slot holds a block twice.
HoldsOnce(r) ==
  \A s \in Slots : \A p, q \in DOMAIN r.items[s].hashes :
    r.items[s].hashes[p] = r.items[s].hashes[q] => p = q

-----------------------------------------------------------------------------
(* Slots and entries.                                                      *)

\* Every height has a slot.
LEMMA SlotOfType == \A id \in Nat : SlotOf(id) \in Slots
<1>1. RingSize \in Nat \ {0}
  BY RingAssumption DEF RingSize
<1>2. QED
  BY <1>1 DEF SlotOf, Slots

\* The slots of a ring are items, the entries of an item are block hashes.
LEMMA ItemType ==
  ASSUME NEW r \in Ring, NEW s \in Slots
  PROVE  /\ r.items[s] \in RingItem
         /\ r.items[s].hashes \in Seq(Hash)
         /\ r.items[s].lc_pos \in Nat
BY DEF Ring, RingItem

\* What a slot declares to be on the longest chain is a block or nothing.
LEMMA EntryType ==
  ASSUME NEW item \in RingItem
  PROVE  LongestChainEntry(item) \in Hash \cup {NoHash}
<1>1. item.hashes \in Seq(Hash)
  BY DEF RingItem
<1>2. QED
  BY <1>1, ElementOfSeq, LenProperties DEF LongestChainEntry

\* The tip of a ring is a block or nothing, and its height a number.
LEMMA LatestType ==
  ASSUME NEW r \in Ring
  PROVE  /\ LatestHash(r) \in Hash \cup {NoHash}
         /\ LatestId(r) \in Nat
<1>1. LatestHash(r) \in Hash \cup {NoHash}
  <2>1. CASE r.lc_pos = NoSlot
    BY <2>1 DEF LatestHash
  <2>2. CASE r.lc_pos # NoSlot
    <3>1. r.lc_pos \in Slots
      BY <2>2 DEF Ring
    <3>2. QED
      BY <2>2, <3>1, ItemType, EntryType DEF LatestHash
  <2>3. QED
    BY <2>1, <2>2
<1>2. QED
  BY <1>1, RingAssumption DEF LatestId

\* So is the longest chain entry of a height.
LEMMA LongestChainHashType ==
  ASSUME NEW r \in Ring, NEW id \in Nat
  PROVE  LongestChainHashAt(r, id) \in Hash \cup {NoHash}
<1>1. SlotOf(id) \in Slots
  BY SlotOfType
<1>2. LongestChainEntry(r.items[SlotOf(id)]) \in Hash \cup {NoHash}
  BY <1>1, ItemType, EntryType
<1>3. QED
  BY <1>2 DEF LongestChainHashAt

\* The blocks a height is said to have are blocks.
LEMMA HashesAtType ==
  ASSUME NEW r \in Ring, NEW id \in Nat
  PROVE  HashesAt(r, id) \subseteq Hash
<1>1. SlotOf(id) \in Slots
  BY SlotOfType
<1>2. r.items[SlotOf(id)].hashes \in Seq(Hash)
  BY <1>1, ItemType
<1>3. HashesIn(r.items[SlotOf(id)]) \subseteq Hash
  BY <1>2, ElementOfSeq, LenProperties DEF HashesIn
<1>4. QED
  BY <1>3 DEF HashesAt

\* The position of a block is one at which it is stored, or none.
LEMMA PositionType ==
  ASSUME NEW item \in RingItem, NEW h
  PROVE  /\ PositionOf(item, h) \in Nat
         /\ h \in HashesIn(item) => /\ PositionOf(item, h) \in DOMAIN item.hashes
                                    /\ item.hashes[PositionOf(item, h)] = h
         /\ h \notin HashesIn(item) => PositionOf(item, h) = NoPos
<1>1. item.hashes \in Seq(Hash) /\ DOMAIN item.hashes = 1 .. Len(item.hashes) /\ Len(item.hashes) \in Nat
  BY LenProperties DEF RingItem
<1>2. CASE h \in HashesIn(item)
  <2>1. PICK p \in DOMAIN item.hashes : item.hashes[p] = h
    BY <1>2 DEF HashesIn
  <2>2. /\ PositionOf(item, h) \in DOMAIN item.hashes
        /\ item.hashes[PositionOf(item, h)] = h
    BY <1>2, <2>1 DEF PositionOf
  <2>3. QED
    BY <1>1, <1>2, <2>2
<1>3. CASE h \notin HashesIn(item)
  BY <1>3 DEF PositionOf, NoPos
<1>4. QED
  BY <1>2, <1>3

-----------------------------------------------------------------------------
(* A slot loses a block.                                                   *)

\* The item without the block is an item.
LEMMA WithoutEntryType ==
  ASSUME NEW item \in RingItem, NEW h
  PROVE  WithoutEntry(item, h) \in RingItem
<1> DEFINE p    == PositionOf(item, h)
           rest == IF p = NoPos
                   THEN item.hashes
                   ELSE SubSeq(item.hashes, 1, p - 1) \o SubSeq(item.hashes, p + 1, Len(item.hashes))
           position == IF LongestChainEntry(item) = NoHash \/ LongestChainEntry(item) = h
                       THEN 1
                       ELSE IF p # NoPos /\ p < item.lc_pos THEN item.lc_pos - 1 ELSE item.lc_pos
<1>1. /\ item.hashes \in Seq(Hash) /\ item.lc_pos \in Nat
      /\ DOMAIN item.hashes = 1 .. Len(item.hashes) /\ Len(item.hashes) \in Nat
      /\ \A i \in 1 .. Len(item.hashes) : item.hashes[i] \in Hash
  BY LenProperties, ElementOfSeq DEF RingItem
<1>2. p \in Nat /\ (p # NoPos => p \in 1 .. Len(item.hashes))
  BY <1>1, PositionType
<1>3. rest \in Seq(Hash)
  <2>1. CASE p = NoPos
    BY <1>1, <2>1
  <2>2. CASE p # NoPos
    <3>1. SubSeq(item.hashes, 1, p - 1) \in Seq(Hash)
      <4>1. \A i \in 1 .. p - 1 : item.hashes[i] \in Hash
        BY <1>1, <1>2, <2>2
      <4>2. 1 \in Int /\ p - 1 \in Int
        BY <1>2
      <4>3. QED
        BY <4>1, <4>2, SubSeqProperties
    <3>2. SubSeq(item.hashes, p + 1, Len(item.hashes)) \in Seq(Hash)
      <4>1. \A i \in p + 1 .. Len(item.hashes) : item.hashes[i] \in Hash
        BY <1>1, <1>2, <2>2
      <4>2. p + 1 \in Int /\ Len(item.hashes) \in Int
        BY <1>1, <1>2
      <4>3. QED
        BY <4>1, <4>2, SubSeqProperties
    <3>3. SubSeq(item.hashes, 1, p - 1) \o SubSeq(item.hashes, p + 1, Len(item.hashes)) \in Seq(Hash)
      BY <3>1, <3>2, ConcatProperties
    <3>4. QED
      BY <2>2, <3>3
  <2>3. QED
    BY <2>1, <2>2
<1>4. position \in Nat
  BY <1>1, <1>2
<1>5. WithoutEntry(item, h) = [hashes |-> rest, lc_pos |-> position]
  BY DEF WithoutEntry
<1>6. QED
  BY <1>3, <1>4, <1>5 DEF RingItem

\* Where the entries of an item are once one of them is gone.
LEMMA WithoutEntryPlaces ==
  ASSUME NEW item \in RingItem, NEW h \in HashesIn(item)
  PROVE  LET p   == PositionOf(item, h)
             n   == Len(item.hashes)
             new == WithoutEntry(item, h)
         IN  /\ p \in 1 .. n /\ p \in Nat /\ p # NoPos /\ item.hashes[p] = h
             /\ new.hashes \in Seq(Hash) /\ DOMAIN new.hashes = 1 .. n - 1
             /\ \A i \in 1 .. n - 1 : new.hashes[i] = IF i <= p - 1 THEN item.hashes[i] ELSE item.hashes[i + 1]
<1> DEFINE p     == PositionOf(item, h)
           new   == WithoutEntry(item, h)
           n     == Len(item.hashes)
           front == SubSeq(item.hashes, 1, p - 1)
           back  == SubSeq(item.hashes, p + 1, n)
<1>1. /\ item.hashes \in Seq(Hash)
      /\ DOMAIN item.hashes = 1 .. n /\ n \in Nat
      /\ \A i \in 1 .. n : item.hashes[i] \in Hash
  BY LenProperties, ElementOfSeq DEF RingItem
<1>2. p \in 1 .. n /\ p \in Nat /\ p # NoPos /\ item.hashes[p] = h
  BY <1>1, PositionType DEF NoPos
<1>3. new.hashes = front \o back
  BY <1>2 DEF WithoutEntry
<1>4. /\ front \in Seq(Hash) /\ Len(front) = p - 1
      /\ \A i \in 1 .. p - 1 : front[i] = item.hashes[i]
  <2>1. \A i \in 1 .. p - 1 : item.hashes[i] \in Hash
    BY <1>1, <1>2
  <2>2. 1 \in Int /\ p - 1 \in Int
    BY <1>2
  <2>3. /\ SubSeq(item.hashes, 1, p - 1) \in Seq(Hash)
        /\ Len(SubSeq(item.hashes, 1, p - 1)) = IF 1 <= p - 1 THEN (p - 1) - 1 + 1 ELSE 0
        /\ \A i \in 1 .. (p - 1) - 1 + 1 : SubSeq(item.hashes, 1, p - 1)[i] = item.hashes[1 + i - 1]
    BY <2>1, <2>2, SubSeqProperties
  <2>4. (p - 1) - 1 + 1 = p - 1 /\ \A i \in Int : 1 + i - 1 = i
    BY <1>2
  <2>5. QED
    BY <1>2, <2>3, <2>4
<1>5. /\ back \in Seq(Hash) /\ Len(back) = n - p
      /\ \A i \in 1 .. n - p : back[i] = item.hashes[p + i]
  <2>1. \A i \in p + 1 .. n : item.hashes[i] \in Hash
    BY <1>1, <1>2
  <2>2. p + 1 \in Int /\ n \in Int
    BY <1>1, <1>2
  <2>3. /\ SubSeq(item.hashes, p + 1, n) \in Seq(Hash)
        /\ Len(SubSeq(item.hashes, p + 1, n)) = IF p + 1 <= n THEN n - (p + 1) + 1 ELSE 0
        /\ \A i \in 1 .. n - (p + 1) + 1 : SubSeq(item.hashes, p + 1, n)[i] = item.hashes[(p + 1) + i - 1]
    BY <2>1, <2>2, SubSeqProperties
  <2> HIDE DEF p, n
  <2>4. Len(back) = n - p
    BY <1>1, <1>2, <2>3
  <2>5. ASSUME NEW i \in 1 .. n - p
        PROVE  back[i] = item.hashes[p + i]
    <3>1. i \in 1 .. n - (p + 1) + 1 /\ (p + 1) + i - 1 = p + i
      BY <1>1, <1>2
    <3>2. back[i] = item.hashes[(p + 1) + i - 1]
      BY <2>3, <3>1
    <3>3. QED
      BY <3>1, <3>2
  <2>6. QED
    BY <2>3, <2>4, <2>5
<1>6. /\ new.hashes \in Seq(Hash) /\ DOMAIN new.hashes = 1 .. n - 1
      /\ \A i \in 1 .. n - 1 : new.hashes[i] = IF i <= p - 1 THEN item.hashes[i] ELSE item.hashes[i + 1]
  <2>1. /\ front \o back \in Seq(Hash)
        /\ Len(front \o back) = Len(front) + Len(back)
        /\ \A i \in 1 .. Len(front) + Len(back) :
              (front \o back)[i] = IF i <= Len(front) THEN front[i] ELSE back[i - Len(front)]
    BY <1>4, <1>5, ConcatProperties
  <2> HIDE DEF front, back, p, n, new
  <2>2. Len(front) + Len(back) = n - 1
    BY <1>1, <1>2, <1>4, <1>5
  <2>3. DOMAIN (front \o back) = 1 .. n - 1
    BY <2>1, <2>2, LenProperties
  <2>4. ASSUME NEW i \in 1 .. n - 1
        PROVE  (front \o back)[i] = IF i <= p - 1 THEN item.hashes[i] ELSE item.hashes[i + 1]
    <3>1. CASE i <= p - 1
      BY <1>1, <1>2, <1>4, <2>1, <2>2, <3>1
    <3>2. CASE ~(i <= p - 1)
      <4>1. i - (p - 1) \in 1 .. n - p /\ p + (i - (p - 1)) = i + 1
        BY <1>1, <1>2, <3>2
      <4>2. (front \o back)[i] = back[i - (p - 1)]
        BY <1>4, <2>1, <2>2, <3>2
      <4>3. QED
        BY <1>5, <3>2, <4>1, <4>2
    <3>3. QED
      BY <3>1, <3>2
  <2>5. QED
    BY <1>3, <2>1, <2>3, <2>4
<1>7. QED
  BY <1>2, <1>6

\* Of an item that holds no block twice just the one block goes, and nothing is
\* doubled.
LEMMA WithoutEntryHashes ==
  ASSUME NEW item \in RingItem, NEW h,
         \A i, j \in DOMAIN item.hashes : item.hashes[i] = item.hashes[j] => i = j
  PROVE  LET new == WithoutEntry(item, h)
         IN  /\ HashesIn(new) = HashesIn(item) \ {h}
             /\ \A i, j \in DOMAIN new.hashes : new.hashes[i] = new.hashes[j] => i = j
<1> DEFINE p   == PositionOf(item, h)
           new == WithoutEntry(item, h)
           n   == Len(item.hashes)
<1>1. /\ item.hashes \in Seq(Hash)
      /\ DOMAIN item.hashes = 1 .. n /\ n \in Nat
      /\ \A i \in 1 .. n : item.hashes[i] \in Hash
  BY LenProperties, ElementOfSeq DEF RingItem
<1>2. CASE h \notin HashesIn(item)
  <2>1. p = NoPos
    BY <1>2, PositionType
  <2>2. new.hashes = item.hashes
    BY <2>1 DEF WithoutEntry
  <2>3. QED
    BY <1>2, <2>2 DEF HashesIn
<1>3. CASE h \in HashesIn(item)
  <2>1. p \in 1 .. n /\ p \in Nat /\ p # NoPos /\ item.hashes[p] = h
    BY <1>3, WithoutEntryPlaces
  <2>2. /\ new.hashes \in Seq(Hash) /\ DOMAIN new.hashes = 1 .. n - 1
        /\ \A i \in 1 .. n - 1 : new.hashes[i] = IF i <= p - 1 THEN item.hashes[i] ELSE item.hashes[i + 1]
    BY <1>3, WithoutEntryPlaces
  <2> HIDE DEF new, p, n
  <2>3. \A i \in 1 .. n - 1 : (IF i <= p - 1 THEN i ELSE i + 1) \in (1 .. n) \ {p}
    BY <1>1, <2>1
  <2>4. ASSUME NEW i \in 1 .. n, i # p
        PROVE  \E j \in 1 .. n - 1 : new.hashes[j] = item.hashes[i]
    <3>1. CASE i < p
      <4>1. i \in 1 .. n - 1 /\ i <= p - 1
        BY <1>1, <2>1, <3>1
      <4>2. QED
        BY <2>2, <4>1
    <3>2. CASE i > p
      <4>1. i - 1 \in 1 .. n - 1 /\ ~(i - 1 <= p - 1) /\ (i - 1) + 1 = i
        BY <1>1, <2>1, <3>2
      <4>2. QED
        BY <2>2, <4>1
    <3>3. QED
      BY <1>1, <2>1, <2>4, <3>1, <3>2
  <2>5. HashesIn(new) \subseteq HashesIn(item) \ {h}
    <3>1. SUFFICES ASSUME NEW i \in 1 .. n - 1
                   PROVE  new.hashes[i] \in HashesIn(item) \ {h}
      BY <2>2 DEF HashesIn
    <3>2. PICK j \in (1 .. n) \ {p} : new.hashes[i] = item.hashes[j]
      BY <2>2, <2>3
    <3>3. item.hashes[j] \in HashesIn(item)
      BY <1>1 DEF HashesIn
    <3>4. item.hashes[j] # h
      BY <1>1, <2>1
    <3>5. QED
      BY <3>2, <3>3, <3>4
  <2>6. HashesIn(item) \ {h} \subseteq HashesIn(new)
    <3>1. SUFFICES ASSUME NEW i \in 1 .. n, item.hashes[i] # h
                   PROVE  item.hashes[i] \in HashesIn(new)
      BY <1>1 DEF HashesIn
    <3>2. PICK j \in 1 .. n - 1 : new.hashes[j] = item.hashes[i]
      BY <2>1, <2>4, <3>1
    <3>3. new.hashes[j] \in HashesIn(new)
      BY <2>2 DEF HashesIn
    <3>4. QED
      BY <3>2, <3>3
  <2>7. ASSUME NEW i \in 1 .. n - 1, NEW j \in 1 .. n - 1, new.hashes[i] = new.hashes[j]
         PROVE  i = j
    <3>1. (IF i <= p - 1 THEN i ELSE i + 1) = (IF j <= p - 1 THEN j ELSE j + 1)
      BY <1>1, <2>2, <2>3, <2>7
    <3>2. QED
      BY <1>1, <2>1, <3>1
  <2>8. QED
    BY <2>2, <2>5, <2>6, <2>7 DEF new
<1>4. QED
  BY <1>2, <1>3

-----------------------------------------------------------------------------
(* The methods that change the ring return a ring, and which blocks it     *)
(* holds then.                                                             *)

\* A change of the items leaves a ring.
LEMMA RingWithItems ==
  ASSUME NEW r \in Ring, NEW items \in [Slots -> RingItem]
  PROVE  [r EXCEPT !.items = items] \in Ring
BY DEF Ring

\* add_block returns a ring.
LEMMA AddToRingType ==
  ASSUME NEW r \in Ring, NEW h \in Hash
  PROVE  AddToRing(r, h) \in Ring
<1>1. SlotOf(Id[h]) \in Slots
  BY SlotOfType, RingAssumption
<1>2. Append(r.items[SlotOf(Id[h])].hashes, h) \in Seq(Hash)
  BY <1>1, ItemType, AppendProperties
<1>3. QED
  BY <1>1, <1>2 DEF AddToRing, Ring, RingItem

\* add_block puts a new block into its slot, and no other.
LEMMA AddToRingHolds ==
  ASSUME NEW r \in Ring, NEW S, NEW h \in Hash, h \notin S,
         HoldsExactly(r, S), HoldsOnce(r)
  PROVE  HoldsExactly(AddToRing(r, h), S \cup {h}) /\ HoldsOnce(AddToRing(r, h))
<1> DEFINE slot == SlotOf(Id[h])
           old  == r.items[slot].hashes
           new  == Append(old, h)
<1>1. slot \in Slots
  BY SlotOfType, RingAssumption
<1>2. old \in Seq(Hash) /\ DOMAIN old = 1 .. Len(old) /\ Len(old) \in Nat
  BY <1>1, ItemType, LenProperties
<1>3. /\ DOMAIN new = 1 .. Len(old) + 1
      /\ \A i \in 1 .. Len(old) : new[i] = old[i]
      /\ new[Len(old) + 1] = h
  BY <1>2, AppendProperties, LenProperties
<1>4. \A s \in Slots : AddToRing(r, h).items[s].hashes = IF s = slot THEN new ELSE r.items[s].hashes
  BY <1>1 DEF AddToRing, Ring, RingItem
<1>5. \A i \in 1 .. Len(old) : old[i] \in S
  BY <1>1, <1>2 DEF HoldsExactly, HashesIn
<1> HIDE DEF new, old, slot
<1>6. {new[i] : i \in DOMAIN new} = {old[i] : i \in DOMAIN old} \cup {h}
  BY <1>2, <1>3
<1>7. HoldsExactly(AddToRing(r, h), S \cup {h})
  <2> SUFFICES ASSUME NEW s \in Slots
               PROVE  HashesIn(AddToRing(r, h).items[s]) = {b \in S \cup {h} : SlotOf(Id[b]) = s}
    BY DEF HoldsExactly
  <2>1. HashesIn(r.items[s]) = {b \in S : SlotOf(Id[b]) = s}
    BY DEF HoldsExactly
  <2>2. CASE s = slot
    <3>1. HashesIn(AddToRing(r, h).items[s]) = HashesIn(r.items[s]) \cup {h}
      BY <1>4, <1>6, <2>2 DEF HashesIn, old
    <3>2. QED
      BY <2>1, <2>2, <3>1 DEF slot
  <2>3. CASE s # slot
    <3>1. HashesIn(AddToRing(r, h).items[s]) = HashesIn(r.items[s])
      BY <1>4, <2>3 DEF HashesIn
    <3>2. QED
      BY <2>1, <2>3, <3>1 DEF slot
  <2>4. QED
    BY <2>2, <2>3
<1>8. \A i, j \in DOMAIN new : new[i] = new[j] => i = j
  <2>1. \A i, j \in DOMAIN old : old[i] = old[j] => i = j
    BY <1>1 DEF HoldsOnce, old
  <2>2. QED
    BY <1>2, <1>3, <1>5, <2>1
<1>9. HoldsOnce(AddToRing(r, h))
  BY <1>4, <1>8 DEF HoldsOnce
<1>10. QED
  BY <1>7, <1>9

\* delete_block returns a ring.
LEMMA DeleteFromRingType ==
  ASSUME NEW r \in Ring, NEW h \in Hash
  PROVE  DeleteFromRing(r, h) \in Ring
<1>1. SlotOf(Id[h]) \in Slots
  BY SlotOfType, RingAssumption
<1>2. WithoutEntry(r.items[SlotOf(Id[h])], h) \in RingItem
  BY <1>1, ItemType, WithoutEntryType
<1>3. QED
  BY <1>1, <1>2 DEF DeleteFromRing, Ring

\* delete_block takes the block out of its slot, and nothing else out of any.
LEMMA DeleteFromRingHolds ==
  ASSUME NEW r \in Ring, NEW S, NEW h \in Hash,
         HoldsExactly(r, S), HoldsOnce(r)
  PROVE  HoldsExactly(DeleteFromRing(r, h), S \ {h}) /\ HoldsOnce(DeleteFromRing(r, h))
<1> DEFINE slot == SlotOf(Id[h])
           old  == r.items[slot]
           new  == WithoutEntry(old, h)
<1>1. slot \in Slots
  BY SlotOfType, RingAssumption
<1>2. old \in RingItem
  BY <1>1, ItemType
<1>3. \A i, j \in DOMAIN old.hashes : old.hashes[i] = old.hashes[j] => i = j
  BY <1>1 DEF HoldsOnce
<1>4. /\ HashesIn(new) = HashesIn(old) \ {h}
      /\ \A i, j \in DOMAIN new.hashes : new.hashes[i] = new.hashes[j] => i = j
  BY <1>2, <1>3, WithoutEntryHashes
<1>5. \A s \in Slots : DeleteFromRing(r, h).items[s] = IF s = slot THEN new ELSE r.items[s]
  BY <1>1 DEF DeleteFromRing, Ring
<1> HIDE DEF new, old
<1>6. HoldsExactly(DeleteFromRing(r, h), S \ {h})
  BY <1>1, <1>4, <1>5 DEF HoldsExactly, old
<1>7. HoldsOnce(DeleteFromRing(r, h))
  BY <1>4, <1>5 DEF HoldsOnce
<1>8. QED
  BY <1>6, <1>7

\* on_chain_reorganization returns a ring, whichever the direction.
LEMMA ReorganizationType ==
  ASSUME NEW r \in Ring, NEW h \in Hash
  PROVE  PutOnLongestChain(r, h) \in Ring /\ TakeOffLongestChain(r, h) \in Ring
<1>1. SlotOf(Id[h]) \in Slots
  BY SlotOfType, RingAssumption
<1>2. PutOnLongestChain(r, h) \in Ring
  <2>1. PositionOf(r.items[SlotOf(Id[h])], h) \in Nat
    BY <1>1, ItemType, PositionType
  <2>2. QED
    BY <1>1, <2>1 DEF PutOnLongestChain, Ring, RingItem
<1>3. TakeOffLongestChain(r, h) \in Ring
  <2>1. (IF SlotOf(Id[h]) > 0 THEN SlotOf(Id[h]) - 1 ELSE RingSize - 1) \in Slots
    BY <1>1, RingAssumption DEF Slots, RingSize
  <2>2. NoPos \in Nat
    BY DEF NoPos
  <2>3. QED
    BY <1>1, <2>1, <2>2 DEF TakeOffLongestChain, Ring, RingItem
<1>4. QED
  BY <1>2, <1>3

\* What a ring holds depends on the entries of its slots alone.
LEMMA SameEntriesHold ==
  ASSUME NEW r, NEW other, NEW S,
         \A s \in Slots : other.items[s].hashes = r.items[s].hashes,
         HoldsExactly(r, S), HoldsOnce(r)
  PROVE  HoldsExactly(other, S) /\ HoldsOnce(other)
BY DEF HoldsExactly, HoldsOnce, HashesIn

\* on_chain_reorganization moves positions, never blocks.
LEMMA ReorganizationHolds ==
  ASSUME NEW r \in Ring, NEW h \in Hash, NEW S,
         HoldsExactly(r, S), HoldsOnce(r)
  PROVE  /\ HoldsExactly(PutOnLongestChain(r, h), S) /\ HoldsOnce(PutOnLongestChain(r, h))
         /\ HoldsExactly(TakeOffLongestChain(r, h), S) /\ HoldsOnce(TakeOffLongestChain(r, h))
<1>1. SlotOf(Id[h]) \in Slots
  BY SlotOfType, RingAssumption
<1>2. \A s \in Slots : /\ PutOnLongestChain(r, h).items[s].hashes = r.items[s].hashes
                       /\ TakeOffLongestChain(r, h).items[s].hashes = r.items[s].hashes
  BY <1>1 DEF PutOnLongestChain, TakeOffLongestChain, Ring, RingItem
<1>3. QED
  BY <1>2, SameEntriesHold

\* A new ring is a ring, and empty.
LEMMA NewRingHolds == NewRing \in Ring /\ HoldsExactly(NewRing, {}) /\ HoldsOnce(NewRing)
<1>1. <<>> \in Seq(Hash) /\ DOMAIN <<>> = {}
  BY EmptySeq
<1>2. QED
  BY <1>1 DEF NewRing, Ring, RingItem, NoPos, NoSlot, HoldsExactly, HoldsOnce, HashesIn

-----------------------------------------------------------------------------
(* Which heights share a slot.  SMT takes division by a variable for an    *)
(* unknown function, of which it knows the first of these lemmas only.     *)

LEMMA Division ==
  ASSUME NEW n \in Int, n > 0, NEW a \in Int
  PROVE  a \div n \in Int /\ a % n \in 0 .. n - 1 /\ a = n * (a \div n) + (a % n)
OBVIOUS

LEMMA SmallMultiple ==
  ASSUME NEW n \in Int, n > 0, NEW q \in Int, NEW x \in Int, x = n * q, 0 <= x, x < n
  PROVE  q = 0
OBVIOUS

LEMMA Distribution ==
  ASSUME NEW n \in Int, NEW p \in Int, NEW q \in Int
  PROVE  n * p - n * q = n * (p - q) /\ n * (p + 1) = n * p + n
OBVIOUS

\* Quotient and remainder are the only ones.
LEMMA Remainder ==
  ASSUME NEW n \in Int, n > 0, NEW a \in Int, NEW q \in Int, NEW r \in 0 .. n - 1, a = n * q + r
  PROVE  a % n = r /\ a \div n = q
<1> DEFINE p == a \div n
           s == a % n
<1>1. p \in Int /\ s \in 0 .. n - 1 /\ a = n * p + s
  BY Division
<1> HIDE DEF p, s
<1>2. n * (q - p) = s - r /\ n * (p - q) = r - s
  <2>1. n * q - n * p = n * (q - p) /\ n * p - n * q = n * (p - q)
    BY <1>1, Distribution
  <2>2. n * q \in Int /\ n * p \in Int
    BY <1>1
  <2>3. QED
    BY <1>1, <2>1, <2>2
<1>3. q = p
  <2>1. CASE s >= r
    <3>1. s - r \in Int /\ q - p \in Int /\ 0 <= s - r /\ s - r < n
      BY <1>1, <2>1
    <3>2. q - p = 0
      BY <1>2, <3>1, SmallMultiple
    <3>3. QED
      BY <1>1, <3>2
  <2>2. CASE ~(s >= r)
    <3>1. r - s \in Int /\ p - q \in Int /\ 0 <= r - s /\ r - s < n
      BY <1>1, <2>2
    <3>2. p - q = 0
      BY <1>2, <3>1, SmallMultiple
    <3>3. QED
      BY <1>1, <3>2
  <2>3. QED
    BY <2>1, <2>2
<1>4. n * p \in Int
  BY <1>1
<1>5. s = r
  BY <1>1, <1>3, <1>4
<1>6. QED
  BY <1>3, <1>5 DEF p, s

LEMMA RingSizeType == RingSize \in Nat /\ RingSize > 1
BY RingAssumption DEF RingSize

\* Two heights that share a slot are the same or a whole ring apart.
LEMMA SlotsAreApart ==
  ASSUME NEW a \in Int, NEW b \in Int, SlotOf(a) = SlotOf(b), a <= b, b < a + RingSize
  PROVE  a = b
<1> DEFINE n == RingSize
           p == a \div n
           q == b \div n
           r == a % n
<1>1. n \in Int /\ n > 0
  BY RingSizeType
<1> HIDE DEF n
<1>2. p \in Int /\ q \in Int /\ r \in Int /\ a = n * p + r /\ b = n * q + r
  <2>1. a % n = b % n
    BY DEF SlotOf, n
  <2>2. QED
    BY <1>1, <2>1, Division
<1> HIDE DEF p, q, r
<1>3. b - a = n * (q - p)
  <2>1. n * q - n * p = n * (q - p)
    BY <1>1, <1>2, Distribution
  <2>2. n * q \in Int /\ n * p \in Int
    BY <1>1, <1>2
  <2>3. QED
    BY <1>2, <2>1, <2>2
<1>4. q - p = 0
  <2>1. b - a \in Int /\ q - p \in Int /\ 0 <= b - a /\ b - a < n
    BY <1>1, <1>2 DEF n
  <2>2. QED
    BY <1>1, <1>3, <2>1, SmallMultiple
<1>5. QED
  BY <1>2, <1>4

\* The slot of the height below is the slot before, round the ring.
LEMMA SlotBelow ==
  ASSUME NEW a \in Int
  PROVE  /\ SlotOf(a - 1) = IF SlotOf(a) > 0 THEN SlotOf(a) - 1 ELSE RingSize - 1
         /\ SlotOf(a - 1) # SlotOf(a)
<1> DEFINE n == RingSize
           p == a \div n
           s == a % n
<1>1. n \in Int /\ n > 1
  BY RingSizeType
<1> HIDE DEF n
<1>2. p \in Int /\ s \in 0 .. n - 1 /\ a = n * p + s
  BY <1>1, Division
<1> HIDE DEF p, s
<1>3. CASE s > 0
  <2>1. s - 1 \in 0 .. n - 1 /\ a - 1 = n * p + (s - 1) /\ a - 1 \in Int
    <3>1. n * p \in Int
      BY <1>1, <1>2
    <3>2. QED
      BY <1>1, <1>2, <1>3, <3>1
  <2>2. (a - 1) % n = s - 1
    BY <1>1, <1>2, <2>1, Remainder
  <2>3. SlotOf(a - 1) = s - 1 /\ SlotOf(a) = s
    BY <2>2 DEF SlotOf, s, n
  <2>4. QED
    BY <1>2, <1>3, <2>3
<1>4. CASE ~(s > 0)
  <2>1. n - 1 \in 0 .. n - 1 /\ a - 1 = n * (p - 1) + (n - 1) /\ a - 1 \in Int /\ p - 1 \in Int
    <3>1. n * ((p - 1) + 1) = n * (p - 1) + n
      BY <1>1, <1>2, Distribution
    <3>2. n * (p - 1) \in Int /\ (p - 1) + 1 = p
      BY <1>1, <1>2
    <3>3. QED
      BY <1>1, <1>2, <1>4, <3>1, <3>2
  <2>2. (a - 1) % n = n - 1
    <3> DEFINE q == p - 1
               b == a - 1
               t == n - 1
    <3>1. b \in Int /\ q \in Int /\ t \in 0 .. n - 1 /\ b = n * q + t
      BY <2>1
    <3> HIDE DEF q, b, t
    <3>2. b % n = t
      BY <1>1, <3>1, Remainder
    <3>3. QED
      BY <3>2 DEF b, t
  <2>3. SlotOf(a - 1) = n - 1 /\ SlotOf(a) = s /\ n = RingSize
    BY <2>2 DEF SlotOf, s, n
  <2>4. QED
    BY <1>1, <1>2, <1>4, <2>3
<1>5. QED
  BY <1>3, <1>4

\* A ring further up the slot is the same.
LEMMA SlotComesBack ==
  ASSUME NEW a \in Int
  PROVE  SlotOf(a + RingSize) = SlotOf(a)
<1> DEFINE n == RingSize
           p == a \div n
           s == a % n
<1>1. n \in Int /\ n > 0
  BY RingSizeType
<1> HIDE DEF n
<1>2. p \in Int /\ s \in 0 .. n - 1 /\ a = n * p + s
  BY <1>1, Division
<1> HIDE DEF p, s
<1>3. a + n = n * (p + 1) + s
  <2>1. n * (p + 1) = n * p + n /\ n * p \in Int
    BY <1>1, <1>2, Distribution
  <2>2. QED
    BY <1>1, <1>2, <2>1
<1>4. (a + n) % n = s
  BY <1>1, <1>2, <1>3, Remainder
<1>5. QED
  BY <1>4 DEF SlotOf, s, n

-----------------------------------------------------------------------------
(* The longest chain entries, and what the methods make of them.           *)

Entry(r, s) == LongestChainEntry(r.items[s])

\* An entry is a block the slot holds.
LEMMA EntryIsHeld ==
  ASSUME NEW r \in Ring, NEW S, HoldsExactly(r, S), NEW s \in Slots
  PROVE  Entry(r, s) # NoHash => Entry(r, s) \in S /\ SlotOf(Id[Entry(r, s)]) = s
<1>1. Entry(r, s) # NoHash => Entry(r, s) \in HashesIn(r.items[s])
  BY DEF Entry, LongestChainEntry, HashesIn
<1>2. QED
  BY <1>1 DEF HoldsExactly

\* A tip is an entry of the slot it is looked up in.
LEMMA LatestIsEntry ==
  ASSUME NEW r \in Ring, NEW S, HoldsExactly(r, S), LatestHash(r) # NoHash
  PROVE  /\ LatestHash(r) \in S /\ LatestHash(r) \in Hash
         /\ r.lc_pos = SlotOf(Id[LatestHash(r)])
         /\ Entry(r, SlotOf(Id[LatestHash(r)])) = LatestHash(r)
         /\ LatestId(r) = Id[LatestHash(r)]
<1>1. r.lc_pos \in Slots /\ LatestHash(r) = Entry(r, r.lc_pos)
  BY DEF LatestHash, Ring, Entry
<1>2. LatestHash(r) \in S /\ SlotOf(Id[LatestHash(r)]) = r.lc_pos
  BY <1>1, EntryIsHeld
<1>3. QED
  BY <1>1, <1>2, LatestType DEF LatestId

\* add_block moves no entry; a position that pointed behind the last block of a
\* slot points at the new one.
LEMMA EntriesAfterAdd ==
  ASSUME NEW r \in Ring, NEW h \in Hash
  PROVE  /\ AddToRing(r, h).lc_pos = r.lc_pos
         /\ \A s \in Slots : /\ Entry(r, s) # NoHash => Entry(AddToRing(r, h), s) = Entry(r, s)
                             /\ Entry(AddToRing(r, h), s) \in {Entry(r, s), h}
<1> DEFINE slot == SlotOf(Id[h])
           old  == r.items[slot].hashes
           new  == Append(old, h)
<1>1. slot \in Slots
  BY SlotOfType, RingAssumption
<1>2. old \in Seq(Hash) /\ DOMAIN old = 1 .. Len(old) /\ Len(old) \in Nat
  BY <1>1, ItemType, LenProperties
<1>3. /\ DOMAIN new = 1 .. Len(old) + 1
      /\ \A i \in 1 .. Len(old) : new[i] = old[i]
      /\ new[Len(old) + 1] = h
  BY <1>2, AppendProperties, LenProperties
<1>4. \A s \in Slots : AddToRing(r, h).items[s].hashes = IF s = slot THEN new ELSE r.items[s].hashes
  BY <1>1 DEF AddToRing, Ring, RingItem
<1>5. \A s \in Slots : AddToRing(r, h).items[s].lc_pos = r.items[s].lc_pos
  BY <1>1 DEF AddToRing, Ring, RingItem
<1>6. AddToRing(r, h).lc_pos = r.lc_pos
  BY DEF AddToRing, Ring
<1>7. \A i \in 1 .. Len(old) : old[i] # NoHash
  BY <1>2, ElementOfSeq, RingAssumption
<1> HIDE DEF new, slot
<1>8. ASSUME NEW s \in Slots
      PROVE  /\ Entry(r, s) # NoHash => Entry(AddToRing(r, h), s) = Entry(r, s)
             /\ Entry(AddToRing(r, h), s) \in {Entry(r, s), h}
  <2>1. CASE s # slot
    BY <1>4, <1>5, <2>1 DEF Entry, LongestChainEntry
  <2>2. CASE s = slot
    <3> DEFINE pos == r.items[s].lc_pos
    <3>1. Entry(r, s) = IF pos \in DOMAIN old THEN old[pos] ELSE NoHash
      BY <2>2 DEF Entry, LongestChainEntry
    <3>2. Entry(AddToRing(r, h), s) = IF pos \in DOMAIN new THEN new[pos] ELSE NoHash
      BY <1>4, <1>5, <2>2 DEF Entry, LongestChainEntry
    <3> HIDE DEF old, pos
    <3>3. QED
      BY <1>2, <1>3, <1>7, <3>1, <3>2
  <2>3. QED
    BY <2>1, <2>2
<1>9. QED
  BY <1>6, <1>8

\* on_chain_reorganization(true): the block is the entry of its slot, and the tip.
LEMMA EntriesAfterPut ==
  ASSUME NEW r \in Ring, NEW S, NEW h \in Hash, h \in S, HoldsExactly(r, S)
  PROVE  /\ \A s \in Slots : Entry(PutOnLongestChain(r, h), s) = IF s = SlotOf(Id[h]) THEN h ELSE Entry(r, s)
         /\ LatestHash(PutOnLongestChain(r, h)) = h
         /\ LatestId(PutOnLongestChain(r, h)) = Id[h]
<1> DEFINE slot == SlotOf(Id[h])
           put  == PutOnLongestChain(r, h)
<1>1. slot \in Slots
  BY SlotOfType, RingAssumption
<1>2. h \in HashesIn(r.items[slot])
  BY <1>1 DEF HoldsExactly
<1>3. /\ PositionOf(r.items[slot], h) \in DOMAIN r.items[slot].hashes
      /\ r.items[slot].hashes[PositionOf(r.items[slot], h)] = h
  BY <1>1, <1>2, ItemType, PositionType
<1>4. \A s \in Slots : /\ put.items[s].hashes = r.items[s].hashes
                       /\ put.items[s].lc_pos = IF s = slot THEN PositionOf(r.items[slot], h) ELSE r.items[s].lc_pos
  BY <1>1 DEF PutOnLongestChain, Ring, RingItem
<1>5. put.lc_pos = slot
  BY DEF PutOnLongestChain, Ring
<1>6. \A s \in Slots : Entry(put, s) = IF s = slot THEN h ELSE Entry(r, s)
  <2> HIDE DEF put, slot
  <2>1. QED
    BY <1>1, <1>3, <1>4 DEF Entry, LongestChainEntry
<1>7. LatestHash(put) = h
  <2>1. slot # NoSlot
    BY <1>1, RingSizeType DEF Slots, NoSlot
  <2>2. QED
    BY <1>1, <1>5, <1>6, <2>1 DEF LatestHash, Entry
<1>8. LatestId(put) = Id[h]
  BY <1>7, RingAssumption DEF LatestId
<1>9. QED
  BY <1>6, <1>7, <1>8

\* on_chain_reorganization(false): the slot has no entry any more; without the
\* tip the ring falls back to the height below, if that has an entry.
LEMMA EntriesAfterTakeOff ==
  ASSUME NEW r \in Ring, NEW S, HoldsExactly(r, S), NEW h \in Hash, LatestHash(r) = h
  PROVE  /\ \A s \in Slots : Entry(TakeOffLongestChain(r, h), s) = IF s = SlotOf(Id[h]) THEN NoHash ELSE Entry(r, s)
         /\ LatestHash(TakeOffLongestChain(r, h)) =
              IF Entry(r, SlotOf(Id[h] - 1)) # NoHash /\ Id[Entry(r, SlotOf(Id[h] - 1))] = Id[h] - 1
              THEN Entry(r, SlotOf(Id[h] - 1)) ELSE NoHash
<1> DEFINE slot  == SlotOf(Id[h])
           below == SlotOf(Id[h] - 1)
           off   == TakeOffLongestChain(r, h)
<1>1. slot \in Slots /\ Id[h] \in Nat \ {0}
  BY SlotOfType, RingAssumption
<1>2. below \in Slots
  <2>1. Id[h] - 1 \in Nat
    BY <1>1
  <2>2. QED
    BY <2>1, SlotOfType
<1>3. below = (IF slot > 0 THEN slot - 1 ELSE RingSize - 1) /\ below # slot
  BY <1>1, SlotBelow
<1>4. r.lc_pos = slot
  BY LatestIsEntry, RingAssumption
<1>5. \A s \in Slots : /\ off.items[s].hashes = r.items[s].hashes
                       /\ off.items[s].lc_pos = IF s = slot THEN NoPos ELSE r.items[s].lc_pos
  BY <1>1 DEF TakeOffLongestChain, Ring, RingItem
<1>6. off.lc_pos = IF Entry(r, below) # NoHash /\ Id[Entry(r, below)] = Id[h] - 1 THEN below ELSE NoSlot
  BY <1>3, <1>4 DEF TakeOffLongestChain, Ring, Entry
<1>7. \A s \in Slots : r.items[s].hashes \in Seq(Hash) /\ NoPos \notin DOMAIN r.items[s].hashes
  BY ItemType, LenProperties DEF NoPos
<1> HIDE DEF off, slot, below
<1>8. \A s \in Slots : Entry(off, s) = IF s = slot THEN NoHash ELSE Entry(r, s)
  BY <1>5, <1>7 DEF Entry, LongestChainEntry
<1>9. LatestHash(off) = IF Entry(r, below) # NoHash /\ Id[Entry(r, below)] = Id[h] - 1
                        THEN Entry(r, below) ELSE NoHash
  <2>1. below # NoSlot
    BY <1>2, RingSizeType DEF Slots, NoSlot
  <2>2. LatestHash(off) = IF off.lc_pos = NoSlot THEN NoHash ELSE Entry(off, off.lc_pos)
    BY DEF LatestHash, Entry
  <2>3. QED
    BY <1>2, <1>3, <1>6, <1>8, <2>1, <2>2
<1>10. QED
  BY <1>8, <1>9 DEF off, slot, below

\* A slot that loses another block than its entry keeps the entry.
LEMMA WithoutEntryKeepsEntry ==
  ASSUME NEW item \in RingItem, NEW h,
         LongestChainEntry(item) # NoHash, LongestChainEntry(item) # h
  PROVE  LongestChainEntry(WithoutEntry(item, h)) = LongestChainEntry(item)
<1> DEFINE p   == PositionOf(item, h)
           e   == item.lc_pos
           n   == Len(item.hashes)
           new == WithoutEntry(item, h)
<1>1. e \in 1 .. n /\ n \in Nat /\ DOMAIN item.hashes = 1 .. n /\ item.hashes[e] # h
      /\ LongestChainEntry(item) = item.hashes[e]
  BY LenProperties DEF RingItem, LongestChainEntry
<1>2. new.lc_pos = IF p # NoPos /\ p < e THEN e - 1 ELSE e
  BY DEF WithoutEntry
<1>3. CASE h \in HashesIn(item)
  <2>1. /\ p \in 1 .. n /\ p # NoPos /\ item.hashes[p] = h
        /\ DOMAIN new.hashes = 1 .. n - 1
        /\ \A i \in 1 .. n - 1 : new.hashes[i] = IF i <= p - 1 THEN item.hashes[i] ELSE item.hashes[i + 1]
    BY <1>3, WithoutEntryPlaces
  <2> HIDE DEF p, e, n, new
  <2>2. p # e
    BY <1>1, <2>1 DEF e
  <2>3. CASE p < e
    <3>1. e - 1 \in 1 .. n - 1 /\ ~(e - 1 <= p - 1) /\ (e - 1) + 1 = e
      BY <1>1, <2>1, <2>3
    <3>2. new.lc_pos = e - 1
      BY <1>2, <2>1, <2>3
    <3>3. new.hashes[e - 1] = item.hashes[e]
      BY <2>1, <3>1
    <3>4. QED
      BY <1>1, <2>1, <3>1, <3>2, <3>3 DEF LongestChainEntry, new
  <2>4. CASE ~(p < e)
    <3>1. e \in 1 .. n - 1 /\ e <= p - 1
      BY <1>1, <2>1, <2>2, <2>4
    <3>2. new.lc_pos = e
      BY <1>2, <2>4
    <3>3. new.hashes[e] = item.hashes[e]
      BY <2>1, <3>1
    <3>4. QED
      BY <1>1, <2>1, <3>1, <3>2, <3>3 DEF LongestChainEntry, new
  <2>5. QED
    BY <2>3, <2>4
<1>4. CASE h \notin HashesIn(item)
  <2>1. p = NoPos
    BY <1>4, PositionType
  <2>2. new.hashes = item.hashes /\ new.lc_pos = item.lc_pos
    BY <1>2, <2>1 DEF WithoutEntry
  <2>3. QED
    BY <2>2 DEF LongestChainEntry
<1>5. QED
  BY <1>3, <1>4

\* delete_block leaves the entries of the other slots alone, and that of its own
\* unless the slot had none or loses it.
LEMMA EntriesAfterDelete ==
  ASSUME NEW r \in Ring, NEW h \in Hash
  PROVE  /\ DeleteFromRing(r, h).lc_pos = r.lc_pos
         /\ \A s \in Slots : (s # SlotOf(Id[h]) \/ Entry(r, s) \notin {NoHash, h})
                               => Entry(DeleteFromRing(r, h), s) = Entry(r, s)
<1>1. SlotOf(Id[h]) \in Slots
  BY SlotOfType, RingAssumption
<1>2. DeleteFromRing(r, h).lc_pos = r.lc_pos
  BY DEF DeleteFromRing, Ring
<1>3. \A s \in Slots : DeleteFromRing(r, h).items[s] =
                         IF s = SlotOf(Id[h]) THEN WithoutEntry(r.items[s], h) ELSE r.items[s]
  BY <1>1 DEF DeleteFromRing, Ring
<1>4. ASSUME NEW s \in Slots, s # SlotOf(Id[h]) \/ Entry(r, s) \notin {NoHash, h}
      PROVE  Entry(DeleteFromRing(r, h), s) = Entry(r, s)
  <2>1. CASE s # SlotOf(Id[h])
    BY <1>3, <2>1 DEF Entry
  <2>2. CASE s = SlotOf(Id[h]) /\ Entry(r, s) \notin {NoHash, h}
    BY <1>3, <2>2, ItemType, WithoutEntryKeepsEntry DEF Entry
  <2>3. QED
    BY <1>4, <2>1, <2>2
<1>5. QED
  BY <1>2, <1>4

\* What the tip of a ring is depends on its position and on its entries.
LEMMA LatestOfEntries ==
  ASSUME NEW r \in Ring, NEW other, other.lc_pos = r.lc_pos,
         r.lc_pos # NoSlot => Entry(other, r.lc_pos) = Entry(r, r.lc_pos)
  PROVE  LatestHash(other) = LatestHash(r) /\ LatestId(other) = LatestId(r)
BY DEF LatestHash, LatestId, Entry

\* The blocks found at a height, and the one on the longest chain.
LEMMA HeightIsRead ==
  ASSUME NEW r \in Ring, NEW S, S \subseteq Hash, HoldsExactly(r, S), NEW id \in Nat
  PROVE  /\ HashesAt(r, id) = {h \in S : Id[h] = id}
         /\ LongestChainHashAt(r, id) # NoHash =>
              /\ LongestChainHashAt(r, id) \in S
              /\ Id[LongestChainHashAt(r, id)] = id
              /\ Entry(r, SlotOf(id)) = LongestChainHashAt(r, id)
         /\ \A h \in Hash : (Id[h] = id /\ Entry(r, SlotOf(Id[h])) = h) => LongestChainHashAt(r, id) = h
<1>1. SlotOf(id) \in Slots
  BY SlotOfType
<1>2. HashesIn(r.items[SlotOf(id)]) = {h \in S : SlotOf(Id[h]) = SlotOf(id)}
  BY <1>1 DEF HoldsExactly
<1>3. HashesAt(r, id) = {h \in S : Id[h] = id}
  BY <1>2 DEF HashesAt
<1>4. LongestChainHashAt(r, id) # NoHash =>
        /\ LongestChainHashAt(r, id) = Entry(r, SlotOf(id))
        /\ Id[LongestChainHashAt(r, id)] = id
  BY DEF LongestChainHashAt, Entry
<1>5. LongestChainHashAt(r, id) # NoHash => LongestChainHashAt(r, id) \in S
  BY <1>1, <1>4, EntryIsHeld
<1>6. \A h \in Hash : (Id[h] = id /\ Entry(r, SlotOf(Id[h])) = h) => LongestChainHashAt(r, id) = h
  BY RingAssumption DEF LongestChainHashAt, Entry
<1>7. QED
  BY <1>3, <1>4, <1>5, <1>6

-----------------------------------------------------------------------------
(* Blockchain: the invariant of the types.                                 *)

\* While add_block works on a block, it has one.
AddingIsBlock == pc \notin {"idle", "batch"} => adding \in Hash

\* While old blocks are deleted, wind_chain has a block it has just wound.
WindIsUnderWay == pc = "purge" => wind.index # 0

TypeInv == TypeOK /\ AddingIsBlock /\ WindIsUnderWay

\* TypeOK by groups of variables, for the steps that leave whole groups alone.
BlocksTyped ==
  /\ blocks \subseteq Hash /\ in_longest_chain \subseteq Hash /\ is_valid \subseteq Hash
  /\ pruned \subseteq Hash /\ safe_to_prune \subseteq Hash /\ has_checkpoint \subseteq Hash
  /\ buried \in [Hash -> Nat]

HeadTyped ==
  /\ last_block \in [id: Nat, hash: Hash \cup {NoHash}]
  /\ genesis_block_id \in Nat /\ checkpoint_found \in BOOLEAN

NodeTyped ==
  /\ blocks_queue \subseteq Hash /\ disk \subseteq Hash
  /\ config \in [last_block: [id: Nat, hash: Hash \cup {NoHash}], genesis_block_id: Nat]
  /\ loaded \in BOOLEAN /\ waiting \in BOOLEAN
  /\ updates \in Seq(BOOLEAN)
  /\ requested \subseteq Hash \cup {NoHash}
  /\ crashes \in Nat

CallTyped ==
  /\ batch \subseteq Hash
  /\ initial_sync \in BOOLEAN
  /\ adding \in Hash \cup {NoHash} /\ latest \in Hash \cup {NoHash}

ChainTyped ==
  /\ new_chain \in Seq(Hash) /\ old_chain \in Seq(Hash)
  /\ cursor \in Hash \cup {NoHash} /\ shared \in Hash \cup {NoHash}

StoreTyped == blockring \in Ring /\ utxoset \subseteq Slip /\ initial_token_supply \in Nat

PlaceTyped == pc \in Places /\ wind \in WindArguments /\ purge \subseteq Hash /\ verdict \in BOOLEAN

\* The groups make up TypeOK, in a state and in its successor.
LEMMA TypeParts ==
  /\ TypeOK <=> /\ BlocksTyped /\ HeadTyped /\ NodeTyped /\ CallTyped
                /\ ChainTyped /\ StoreTyped /\ PlaceTyped
  /\ TypeOK' <=> /\ BlocksTyped' /\ HeadTyped' /\ NodeTyped' /\ CallTyped'
                 /\ ChainTyped' /\ StoreTyped' /\ PlaceTyped'
<1>1. TypeOK <=> /\ BlocksTyped /\ HeadTyped /\ NodeTyped /\ CallTyped
                 /\ ChainTyped /\ StoreTyped /\ PlaceTyped
  BY Zenon DEF TypeOK, BlocksTyped, HeadTyped, NodeTyped, CallTyped, ChainTyped, StoreTyped, PlaceTyped
<1>2. TypeOK' <=> /\ BlocksTyped' /\ HeadTyped' /\ NodeTyped' /\ CallTyped'
                  /\ ChainTyped' /\ StoreTyped' /\ PlaceTyped'
  BY Zenon DEF TypeOK, BlocksTyped, HeadTyped, NodeTyped, CallTyped, ChainTyped, StoreTyped, PlaceTyped
<1>3. QED
  BY <1>1, <1>2

\* A group whose variables do not change keeps its type.
LEMMA TypeFrame ==
  /\ BlocksTyped /\ UNCHANGED blockVars => BlocksTyped'
  /\ HeadTyped /\ UNCHANGED headVars => HeadTyped'
  /\ NodeTyped /\ UNCHANGED nodeVars => NodeTyped'
  /\ CallTyped /\ UNCHANGED callVars => CallTyped'
  /\ ChainTyped /\ UNCHANGED chainVars => ChainTyped'
<1>1. BlocksTyped /\ UNCHANGED blockVars => BlocksTyped'
  BY DEF BlocksTyped, blockVars
<1>2. HeadTyped /\ UNCHANGED headVars => HeadTyped'
  BY DEF HeadTyped, headVars
<1>3. NodeTyped /\ UNCHANGED nodeVars => NodeTyped'
  BY DEF NodeTyped, nodeVars
<1>4. CallTyped /\ UNCHANGED callVars => CallTyped'
  BY DEF CallTyped, callVars
<1>5. ChainTyped /\ UNCHANGED chainVars => ChainTyped'
  BY DEF ChainTyped, chainVars
<1>6. QED
  BY <1>1, <1>2, <1>3, <1>4, <1>5

-----------------------------------------------------------------------------
(* What the methods compute is of its kind.                                *)

\* The parent of a block is a block or nothing.
LEMMA ParentType == \A h \in Hash : Parent[h] \in Hash \cup {NoHash}
BY BlockchainAssumption

\* A subtraction that saturates yields a number.
LEMMA MonusType == \A a, b \in Nat : Monus(a, b) \in Nat
BY DEF Monus

\* Whatever is to be deleted, pruned or marked safe to prune is a block.
LEMMA BelowType ==
  ASSUME NEW r \in Ring, blocks \subseteq Hash, safe_to_prune \subseteq Hash
  PROVE  PrunedBelow(r) \subseteq Hash /\ PurgedBelow(r) \subseteq Hash
<1>1. LatestId(r) \in Nat /\ RingSize \in Nat
  BY LatestType, RingAssumption DEF RingSize
<1>2. PrunedBelow(r) \subseteq Hash
  BY DEF PrunedBelow
<1>3. PurgedBelow(r) \subseteq Hash
  <2>1. CASE LatestId(r) - RingSize < 1
    BY <2>1 DEF PurgedBelow
  <2>2. CASE ~(LatestId(r) - RingSize < 1)
    <3>1. LatestId(r) - RingSize \in Nat /\ LatestId(r) - RingSize + 1 \in Nat
      BY <1>1, <2>2
    <3>2. HashesAt(r, LatestId(r) - RingSize) \subseteq Hash /\ HashesAt(r, LatestId(r) - RingSize + 1) \subseteq Hash
      BY <3>1, HashesAtType
    <3>3. QED
      BY <2>2, <3>2 DEF PurgedBelow
  <2>3. QED
    BY <2>1, <2>2
<1>4. QED
  BY <1>2, <1>3

\* The genesis block id is a height.
LEMMA GenesisBlockIdType ==
  ASSUME NEW r \in Ring, genesis_block_id \in Nat
  PROVE  GenesisBlockId(r) \in Nat
<1>1. Monus(LatestId(r), GenesisPeriod) \in Nat
  BY LatestType, RingAssumption, MonusType
<1>2. QED
  BY <1>1 DEF GenesisBlockId, Max2

\* However the arguments of the next call are made up, they are arguments.
LEMMA WindArgumentsType ==
  ASSUME NEW w \in WindArguments, NEW index \in Nat, NEW failure \in BOOLEAN, NEW slice \in Nat
  PROVE  /\ [index |-> index, failure |-> failure, slice |-> slice] \in WindArguments
         /\ [w EXCEPT !.index = index] \in WindArguments
         /\ [w EXCEPT !.index = index, !.failure = failure] \in WindArguments
         /\ w.index \in Nat /\ w.slice \in Nat
BY DEF WindArguments

\* A supply that is computed is a number of tokens.
LEMMA SupplyType ==
  ASSUME TypeOK, TipIsKnown, NoteSupply
  PROVE  initial_token_supply' \in Nat
<1>1. CASE HasTotalSupplyLoaded(blockring) /\ initial_token_supply = 0
  <2>1. LatestHash(blockring) \in Hash
    BY <1>1 DEF TipIsKnown, TypeOK
  <2>2. Amount[{s \in utxoset : SlipId[s] >= Monus(Id[LatestHash(blockring)], GenesisPeriod)}] \in Nat
    BY BlockchainAssumption DEF TypeOK
  <2>3. Reserves[LatestHash(blockring)] \in Nat /\ buried[LatestHash(blockring)] \in Nat
    BY <2>1, BlockchainAssumption DEF TypeOK
  <2>4. CurrentSupply \in Nat
    BY <2>2, <2>3 DEF CurrentSupply
  <2>5. QED
    BY <1>1, <2>4 DEF NoteSupply
<1>2. CASE ~(HasTotalSupplyLoaded(blockring) /\ initial_token_supply = 0)
  BY <1>2 DEF NoteSupply, TypeOK
<1>3. QED
  BY <1>1, <1>2

\* A block that is forgotten leaves every variable of its kind.
LEMMA ForgetType ==
  ASSUME TypeOK, NEW h \in Hash, Forget(h)
  PROVE  /\ blocks' \subseteq Hash /\ in_longest_chain' \subseteq Hash /\ is_valid' \subseteq Hash
         /\ pruned' \subseteq Hash /\ safe_to_prune' \subseteq Hash /\ has_checkpoint' \subseteq Hash
         /\ buried' \in [Hash -> Nat] /\ blockring' \in Ring
<1>1. blockring' \in Ring
  BY DeleteFromRingType DEF TypeOK, Forget
<1>2. QED
  BY <1>1 DEF TypeOK, Forget

-----------------------------------------------------------------------------
(* The invariant of the types: one lemma for each part of the thread.      *)

\* A node that starts for the first time.
LEMMA InitTyped == Init => TypeInv
<1>1. NewRing \in Ring
  BY NewRingHolds
<1>2. <<>> \in Seq(Hash) /\ <<>> \in Seq(BOOLEAN)
  BY EmptySeq
<1>3. [h \in Hash |-> 0] \in [Hash -> Nat]
  OBVIOUS
<1>4. NoWind \in WindArguments /\ NoHead \in [id: Nat, hash: Hash \cup {NoHash}]
  BY DEF NoWind, WindArguments, NoHead
<1>5. SUFFICES ASSUME Init PROVE TypeInv
  OBVIOUS
<1>6. TypeOK
  BY <1>1, <1>2, <1>3, <1>4, <1>5 DEF Init, TypeOK, Places
<1>7. AddingIsBlock /\ WindIsUnderWay
  BY <1>5 DEF Init, AddingIsBlock, WindIsUnderWay
<1>8. QED
  BY <1>6, <1>7 DEF TypeInv

\* A block arrives.
LEMMA ReceiveTyped ==
  ASSUME TypeInv, NEW h \in Hash, ReceiveBlock(h) \/ IgnoreBlock(h)
  PROVE  TypeInv'
<1>1. CASE ReceiveBlock(h)
  BY <1>1 DEF TypeInv, TypeOK, AddingIsBlock, WindIsUnderWay, Places, ReceiveBlock, StartBatch,
              blockVars, chainVars, headVars
<1>2. CASE IgnoreBlock(h)
  BY <1>2 DEF TypeInv, TypeOK, AddingIsBlock, WindIsUnderWay, IgnoreBlock,
              vars, blockVars, nodeVars, callVars, chainVars, headVars
<1>3. QED
  BY <1>1, <1>2

\* A block of the batch is tested.
LEMMA BatchTyped ==
  ASSUME TypeInv, NEW h \in batch, Refuse(h) \/ Postpone(h) \/ TakeIn(h)
  PROVE  TypeInv'
<1>1. h \in Hash
  BY DEF TypeInv, TypeOK
<1>2. CASE Refuse(h)
  <2>1. /\ batch' = batch \ {h}
        /\ UNCHANGED <<blockVars, nodeVars, chainVars, headVars, initial_sync, adding, latest>>
        /\ UNCHANGED <<blockring, utxoset, initial_token_supply, pc, wind, purge, verdict>>
    BY <1>2 DEF Refuse
  <2>2. CallTyped'
    BY <2>1, TypeParts DEF TypeInv, CallTyped
  <2>3. StoreTyped' /\ PlaceTyped'
    BY <2>1, TypeParts DEF TypeInv, StoreTyped, PlaceTyped
  <2>4. AddingIsBlock' /\ WindIsUnderWay'
    BY <2>1 DEF TypeInv, AddingIsBlock, WindIsUnderWay
  <2>5. QED
    BY <2>1, <2>2, <2>3, <2>4, TypeParts, TypeFrame DEF TypeInv
<1>3. CASE Postpone(h)
  <2>1. /\ blocks_queue' = blocks_queue \cup {h} /\ batch' = batch \ {h}
        /\ requested' = requested \/ requested' = requested \cup {Parent[h]}
        /\ UNCHANGED <<blockVars, chainVars, headVars, blockring, utxoset, initial_token_supply>>
        /\ UNCHANGED <<disk, config, loaded, updates, waiting, crashes>>
        /\ UNCHANGED <<initial_sync, adding, latest, pc, wind, purge, verdict>>
    BY <1>3 DEF Postpone, BackToQueue
  <2>2. NodeTyped'
    BY <1>1, <2>1, ParentType, TypeParts DEF TypeInv, NodeTyped
  <2>3. CallTyped'
    BY <2>1, TypeParts DEF TypeInv, CallTyped
  <2>4. StoreTyped' /\ PlaceTyped'
    BY <2>1, TypeParts DEF TypeInv, StoreTyped, PlaceTyped
  <2>5. AddingIsBlock' /\ WindIsUnderWay'
    BY <2>1 DEF TypeInv, AddingIsBlock, WindIsUnderWay
  <2>6. QED
    BY <2>1, <2>2, <2>3, <2>4, <2>5, TypeParts, TypeFrame DEF TypeInv
<1>4. CASE TakeIn(h)
  <2>1. blockring' \in Ring
    BY <1>1, <1>4, AddToRingType DEF TypeInv, TypeOK, TakeIn
  <2>2. latest' \in Hash \cup {NoHash}
    BY <1>4, LatestType DEF TypeInv, TypeOK, TakeIn
  <2>3. new_chain' \in Seq(Hash) /\ old_chain' \in Seq(Hash)
    BY <1>4, EmptySeq DEF TakeIn
  <2>4. QED
    BY <1>1, <1>4, <2>1, <2>2, <2>3
       DEF TypeInv, TypeOK, AddingIsBlock, WindIsUnderWay, Places, TakeIn, nodeVars, headVars
<1>5. QED
  BY <1>2, <1>3, <1>4

\* The two chains are walked down.
LEMMA WalkTyped ==
  ASSUME TypeInv,
         \/ ExtendNewChain \/ FindSharedAncestor \/ MissSharedAncestor
         \/ ExtendOldChain \/ EndOldChain
  PROVE  TypeInv'
<1>1. CASE ExtendNewChain
  <2>1. cursor \in Hash
    BY <1>1 DEF TypeInv, TypeOK, ExtendNewChain
  <2>2. new_chain' \in Seq(Hash)
    BY <1>1, <2>1, AppendProperties DEF TypeInv, TypeOK, ExtendNewChain
  <2>3. cursor' \in Hash \cup {NoHash}
    BY <1>1, <2>1, ParentType DEF TypeInv, TypeOK, ExtendNewChain
  <2>4. QED
    <3>1. /\ UNCHANGED <<blockVars, nodeVars, callVars, headVars, old_chain, shared>>
          /\ UNCHANGED <<blockring, utxoset, initial_token_supply, pc, wind, purge, verdict>>
      BY <1>1 DEF ExtendNewChain
    <3>2. ChainTyped'
      BY <2>2, <2>3, <3>1, TypeParts DEF TypeInv, ChainTyped
    <3>3. StoreTyped' /\ PlaceTyped'
      BY <3>1, TypeParts DEF TypeInv, StoreTyped, PlaceTyped
    <3>4. AddingIsBlock' /\ WindIsUnderWay'
      BY <3>1 DEF TypeInv, AddingIsBlock, WindIsUnderWay, callVars
    <3>5. QED
      BY <3>1, <3>2, <3>3, <3>4, TypeParts, TypeFrame DEF TypeInv
<1>2. CASE FindSharedAncestor
  <2>1. /\ pc = "new chain" /\ pc' = "old chain" /\ cursor \in blocks
        /\ shared' = cursor /\ cursor' = latest
        /\ UNCHANGED <<blockVars, nodeVars, callVars, headVars, new_chain, old_chain>>
        /\ UNCHANGED <<blockring, utxoset, initial_token_supply, wind, purge, verdict>>
    BY <1>2 DEF FindSharedAncestor
  <2>2. ChainTyped'
    BY <2>1, TypeParts DEF TypeInv, ChainTyped, CallTyped
  <2>3. StoreTyped' /\ PlaceTyped'
    BY <2>1, TypeParts DEF TypeInv, StoreTyped, PlaceTyped, Places
  <2>4. AddingIsBlock' /\ WindIsUnderWay'
    BY <2>1 DEF TypeInv, AddingIsBlock, WindIsUnderWay, callVars
  <2>5. QED
    BY <2>1, <2>2, <2>3, <2>4, TypeParts, TypeFrame DEF TypeInv
<1>3. CASE MissSharedAncestor
  <2>1. blockring' \in Ring
    <3> DEFINE gone  == IF /\ ~blockring.empty /\ latest # NoHash
                           /\ latest = LatestHash(blockring) /\ InWindow(Id[adding])
                        THEN Disconnected(Id[adding]) ELSE {}
               items == [s \in Slots |-> IF LongestChainEntry(blockring.items[s]) \in gone
                                         THEN [blockring.items[s] EXCEPT !.lc_pos = NoPos]
                                         ELSE blockring.items[s]]
    <3>1. items \in [Slots -> RingItem]
      <4>1. ASSUME NEW s \in Slots
            PROVE  /\ blockring.items[s] \in RingItem
                   /\ [blockring.items[s] EXCEPT !.lc_pos = NoPos] \in RingItem
        BY <4>1, ItemType DEF TypeInv, TypeOK, RingItem, NoPos
      <4>2. QED
        BY <4>1
    <3>2. blockring' = [blockring EXCEPT !.items = items]
      BY <1>3 DEF TypeInv, TypeOK, MissSharedAncestor
    <3>3. QED
      BY <3>1, <3>2, RingWithItems DEF TypeInv, TypeOK
  <2>2. in_longest_chain' \subseteq Hash
    BY <1>3 DEF TypeInv, TypeOK, MissSharedAncestor
  <2>3. QED
    <3>1. /\ pc = "new chain" /\ pc' = "old chain" /\ cursor' = latest
          /\ UNCHANGED <<blocks, is_valid, pruned, safe_to_prune, has_checkpoint, buried>>
          /\ UNCHANGED <<nodeVars, callVars, headVars, new_chain, old_chain, shared>>
          /\ UNCHANGED <<utxoset, initial_token_supply, wind, purge, verdict>>
      BY <1>3 DEF MissSharedAncestor
    <3>2. BlocksTyped'
      BY <2>2, <3>1, TypeParts DEF TypeInv, BlocksTyped
    <3>3. ChainTyped'
      BY <3>1, TypeParts DEF TypeInv, ChainTyped, CallTyped
    <3>4. StoreTyped' /\ PlaceTyped'
      BY <2>1, <3>1, TypeParts DEF TypeInv, StoreTyped, PlaceTyped, Places
    <3>5. AddingIsBlock' /\ WindIsUnderWay'
      BY <3>1 DEF TypeInv, AddingIsBlock, WindIsUnderWay, callVars
    <3>6. QED
      BY <3>1, <3>2, <3>3, <3>4, <3>5, TypeParts, TypeFrame DEF TypeInv
<1>4. CASE ExtendOldChain
  <2>1. cursor \in Hash
    BY <1>4 DEF TypeInv, TypeOK, ExtendOldChain, GoesOn
  <2>2. old_chain' \in Seq(Hash)
    BY <1>4, <2>1, AppendProperties DEF TypeInv, TypeOK, ExtendOldChain
  <2>3. cursor' \in Hash \cup {NoHash}
    BY <1>4, <2>1, ParentType DEF TypeInv, TypeOK, ExtendOldChain
  <2>4. QED
    <3>1. /\ UNCHANGED <<blockVars, nodeVars, callVars, headVars, new_chain, shared>>
          /\ UNCHANGED <<blockring, utxoset, initial_token_supply, pc, wind, purge, verdict>>
      BY <1>4 DEF ExtendOldChain
    <3>2. ChainTyped'
      BY <2>2, <2>3, <3>1, TypeParts DEF TypeInv, ChainTyped
    <3>3. StoreTyped' /\ PlaceTyped'
      BY <3>1, TypeParts DEF TypeInv, StoreTyped, PlaceTyped
    <3>4. AddingIsBlock' /\ WindIsUnderWay'
      BY <3>1 DEF TypeInv, AddingIsBlock, WindIsUnderWay, callVars
    <3>5. QED
      BY <3>1, <3>2, <3>3, <3>4, TypeParts, TypeFrame DEF TypeInv
<1>5. CASE EndOldChain
  <2>1. /\ pc = "old chain" /\ pc' = "select"
        /\ UNCHANGED <<blockVars, nodeVars, callVars, chainVars, headVars>>
        /\ UNCHANGED <<blockring, utxoset, initial_token_supply, wind, purge, verdict>>
    BY <1>5 DEF EndOldChain
  <2>2. StoreTyped' /\ PlaceTyped'
    BY <2>1, TypeParts DEF TypeInv, StoreTyped, PlaceTyped, Places
  <2>3. AddingIsBlock' /\ WindIsUnderWay'
    BY <2>1 DEF TypeInv, AddingIsBlock, WindIsUnderWay, callVars
  <2>4. QED
    BY <2>1, <2>2, <2>3, TypeParts, TypeFrame DEF TypeInv
<1>6. QED
  BY <1>1, <1>2, <1>3, <1>4, <1>5

\* The longest chain is chosen.
LEMMA SelectTyped ==
  ASSUME TypeInv, SelectOther \/ SelectLongest
  PROVE  TypeInv'
<1>1. [blockring EXCEPT !.empty = FALSE] \in Ring
  BY DEF TypeInv, TypeOK, Ring
<1>2. Len(new_chain) \in Nat
  BY LenProperties
<1>3. CASE SelectOther
  <2>1. /\ pc = "select" /\ pc' = "success" /\ blockring' \in Ring
        /\ UNCHANGED <<blockVars, nodeVars, callVars, chainVars, headVars>>
        /\ UNCHANGED <<utxoset, initial_token_supply, wind, purge, verdict>>
    BY <1>1, <1>3 DEF SelectOther
  <2>2. StoreTyped' /\ PlaceTyped'
    BY <2>1, TypeParts DEF TypeInv, StoreTyped, PlaceTyped, Places
  <2>3. AddingIsBlock' /\ WindIsUnderWay'
    BY <2>1 DEF TypeInv, AddingIsBlock, WindIsUnderWay, callVars
  <2>4. QED
    BY <2>1, <2>2, <2>3, TypeParts, TypeFrame DEF TypeInv
<1>4. CASE SelectLongest
  <2>1. wind' \in WindArguments
    <3>1. \/ wind' = wind
          \/ wind' = [index |-> Len(new_chain), failure |-> FALSE, slice |-> Len(new_chain)]
          \/ wind' = [index |-> 1, failure |-> FALSE, slice |-> Len(new_chain)]
      BY <1>4 DEF TypeInv, TypeOK, SelectLongest
    <3>2. 1 \in Nat /\ wind \in WindArguments
      BY DEF TypeInv, TypeOK
    <3>3. QED
      BY <1>2, <3>1, <3>2, WindArgumentsType
  <2>2. pc' \in {"verdict", "wind", "unwind"} /\ verdict' \in BOOLEAN
    BY <1>4 DEF TypeInv, TypeOK, SelectLongest
  <2>3. in_longest_chain' \subseteq Hash
    BY <1>4 DEF TypeInv, TypeOK, AddingIsBlock, SelectLongest
  <2>4. QED
    <3>1. /\ pc = "select" /\ blockring' \in Ring
          /\ UNCHANGED <<blocks, is_valid, pruned, safe_to_prune, has_checkpoint, buried>>
          /\ UNCHANGED <<nodeVars, callVars, chainVars, headVars, utxoset, initial_token_supply, purge>>
      BY <1>1, <1>4 DEF SelectLongest
    <3>2. BlocksTyped'
      BY <2>3, <3>1, TypeParts DEF TypeInv, BlocksTyped
    <3>3. StoreTyped' /\ PlaceTyped'
      BY <2>1, <2>2, <3>1, TypeParts DEF TypeInv, StoreTyped, PlaceTyped, Places
    <3>4. AddingIsBlock' /\ WindIsUnderWay'
      BY <2>2, <3>1 DEF TypeInv, AddingIsBlock, WindIsUnderWay, callVars
    <3>5. QED
      BY <3>1, <3>2, <3>3, <3>4, TypeParts, TypeFrame DEF TypeInv
<1>5. QED
  BY <1>3, <1>4

\* The block below the tip, and the pruning that follows, concern blocks only.
LEMMA UtxosetType ==
  ASSUME TypeOK, NEW h \in Hash
  PROVE  WoundUtxoset(h) \subseteq Slip /\ UnwoundUtxoset(h) \subseteq Slip
<1>1. Spends[h] \subseteq Slip /\ Creates[h] \subseteq Slip
  BY BlockchainAssumption
<1>2. QED
  BY <1>1 DEF TypeOK, WoundUtxoset, UnwoundUtxoset

\* A block of the old chain is taken off the longest chain, or bars the way.
LEMMA UnwindTyped ==
  ASSUME TypeInv, UnwindCheckpoint \/ UnwindBlock
  PROVE  TypeInv'
<1>1. CASE UnwindCheckpoint
  <2>1. /\ pc = "unwind" /\ pc' = "verdict" /\ verdict' = FALSE
        /\ UNCHANGED <<blockVars, nodeVars, callVars, chainVars, headVars>>
        /\ UNCHANGED <<blockring, utxoset, initial_token_supply, wind, purge>>
    BY <1>1 DEF UnwindCheckpoint, Finish
  <2>2. StoreTyped' /\ PlaceTyped'
    BY <2>1, TypeParts DEF TypeInv, StoreTyped, PlaceTyped, Places
  <2>3. AddingIsBlock' /\ WindIsUnderWay'
    BY <2>1 DEF TypeInv, AddingIsBlock, WindIsUnderWay, callVars
  <2>4. QED
    BY <2>1, <2>2, <2>3, TypeParts, TypeFrame DEF TypeInv
<1>2. CASE UnwindBlock
  <2> DEFINE h    == old_chain[wind.index]
             ring == TakeOffLongestChain(blockring, h)
  <2>1. h \in Hash /\ h \in blocks
    BY <1>2 DEF TypeInv, TypeOK, UnwindBlock, CanUnwind
  <2>2. ring \in Ring
    BY <2>1, ReorganizationType DEF TypeInv, TypeOK
  <2>3. utxoset' \subseteq Slip
    BY <1>2, <2>1, UtxosetType DEF TypeInv, TypeOK, UnwindBlock
  <2>4. in_longest_chain' \subseteq Hash
    BY <1>2 DEF TypeInv, TypeOK, UnwindBlock, Flag
  <2>5. pruned' \subseteq Hash
    BY <1>2, <2>2, BelowType DEF TypeInv, TypeOK, UnwindBlock
  <2>6. wind' \in WindArguments
    <3>1. wind' = [wind EXCEPT !.index = wind.slice] \/ wind' = [wind EXCEPT !.index = wind.index + 1]
      BY <1>2 DEF TypeInv, TypeOK, UnwindBlock
    <3>2. wind \in WindArguments /\ wind.slice \in Nat /\ wind.index \in Nat
      BY WindArgumentsType DEF TypeInv, TypeOK
    <3>3. wind.index + 1 \in Nat
      BY <3>2
    <3>4. QED
      BY <3>1, <3>2, <3>3, WindArgumentsType
  <2>7. pc = "unwind" /\ pc' \in {"wind", "unwind"}
    BY <1>2 DEF UnwindBlock
  <2>8. blockring' \in Ring
    BY <1>2, <2>2 DEF UnwindBlock
  <2>9. UNCHANGED <<blocks, is_valid, safe_to_prune, has_checkpoint, buried, nodeVars, callVars,
                    chainVars, headVars, initial_token_supply, purge, verdict>>
    BY <1>2 DEF UnwindBlock
  <2>10. AddingIsBlock' /\ WindIsUnderWay'
    BY <2>7, <2>9 DEF TypeInv, AddingIsBlock, WindIsUnderWay, callVars
  <2>11. TypeOK'
    <3>1. pc' \in Places /\ verdict' \in BOOLEAN /\ initial_sync' \in BOOLEAN
      BY <2>7, <2>9 DEF TypeInv, TypeOK, Places, callVars
    <3>2. /\ loaded' \in BOOLEAN /\ waiting' \in BOOLEAN /\ updates' \in Seq(BOOLEAN)
          /\ checkpoint_found' \in BOOLEAN
      BY <2>9 DEF TypeInv, TypeOK, nodeVars, headVars
    <3>3. QED
      BY <2>3, <2>4, <2>5, <2>6, <2>8, <2>9, <3>1, <3>2
         DEF TypeInv, TypeOK, nodeVars, callVars, chainVars, headVars
  <2>12. QED
    BY <2>10, <2>11 DEF TypeInv
<1>3. QED
  BY <1>1, <1>2

\* A block of the new chain is wound, is rejected, or bars the way.
LEMMA WindTyped ==
  ASSUME TypeInv, WindCheckpoint \/ WindBlock \/ RejectBlock
  PROVE  TypeInv'
<1> DEFINE h == new_chain[wind.index]
<1>1. CanWind /\ NoteSupply
  BY DEF TypeInv, TypeOK, WindCheckpoint, WindBlock, RejectBlock
<1>2. h \in Hash /\ wind.index \in 1 .. Len(new_chain) /\ Len(new_chain) \in Nat
  BY <1>1, LenProperties DEF TypeInv, TypeOK, CanWind
<1>3. initial_token_supply' \in Nat
  BY <1>1, SupplyType DEF TypeInv, TypeOK, CanWind
<1>4. CASE WindCheckpoint
  <2>1. pruned' \subseteq Hash
    BY <1>4 DEF TypeInv, TypeOK, WindCheckpoint, Upgrade
  <2>2. QED
    <3>1. /\ pc = "wind" /\ pc' = "verdict" /\ verdict' = FALSE
          /\ UNCHANGED <<blocks, in_longest_chain, is_valid, safe_to_prune, has_checkpoint, buried>>
          /\ UNCHANGED <<nodeVars, callVars, chainVars, headVars, blockring, utxoset, wind, purge>>
      BY <1>4 DEF WindCheckpoint, Finish
    <3>2. BlocksTyped'
      BY <2>1, <3>1, TypeParts DEF TypeInv, BlocksTyped
    <3>3. StoreTyped' /\ PlaceTyped'
      BY <1>3, <3>1, TypeParts DEF TypeInv, StoreTyped, PlaceTyped, Places
    <3>4. AddingIsBlock' /\ WindIsUnderWay'
      BY <3>1 DEF TypeInv, AddingIsBlock, WindIsUnderWay, callVars
    <3>5. QED
      BY <3>1, <3>2, <3>3, <3>4, TypeParts, TypeFrame DEF TypeInv
<1>5. CASE WindBlock
  <2> DEFINE ring == PutOnLongestChain(blockring, h)
  <2>1. ring \in Ring /\ blockring' = ring
    BY <1>2, <1>5, ReorganizationType DEF TypeInv, TypeOK, WindBlock
  <2>2. utxoset' \subseteq Slip
    BY <1>2, <1>5, UtxosetType DEF TypeInv, TypeOK, WindBlock
  <2>3. in_longest_chain' \subseteq Hash /\ pruned' \subseteq Hash /\ is_valid' \subseteq Hash
    BY <1>2, <1>5 DEF TypeInv, TypeOK, WindBlock, Flag, Upgrade
  <2>4. Id[h] \in Nat
    BY <1>2, RingAssumption
  <2>5. GenesisBlockId(ring) \in Nat /\ PurgedBelow(ring) \subseteq Hash
    BY <2>1, GenesisBlockIdType, BelowType DEF TypeInv, TypeOK
  <2>6. /\ last_block' \in [id: Nat, hash: Hash \cup {NoHash}]
        /\ genesis_block_id' \in Nat /\ checkpoint_found' \in BOOLEAN
        /\ purge' \subseteq Hash
    <3>1. CASE last_block.id >= Id[h]
      BY <1>5, <3>1
      DEF TypeInv, TypeOK, AddingIsBlock, WindIsUnderWay, Places,
          WindBlock, headVars
    <3>2. CASE ~(last_block.id >= Id[h])
      BY <1>2, <1>5, <2>4, <2>5, <3>2 DEF TypeInv, TypeOK, WindBlock
    <3>3. QED
      BY <3>1, <3>2
  <2>7. pc' = "purge" /\ wind' = wind /\ wind.index # 0
    BY <1>2, <1>5 DEF TypeInv, TypeOK, WindBlock
  <2> HIDE DEF ring, h
  <2>8. QED
    BY <1>3, <1>5, <2>1, <2>2, <2>3, <2>6, <2>7
      DEF TypeInv, TypeOK, AddingIsBlock, WindIsUnderWay, Places,
          WindBlock, nodeVars, callVars, chainVars
<1>6. CASE RejectBlock
  <2>1. pruned' \subseteq Hash /\ is_valid' \subseteq Hash
    BY <1>2, <1>6 DEF TypeInv, TypeOK, RejectBlock, Upgrade
  <2>2. wind' \in WindArguments
    <3>1. \/ wind' = wind
          \/ wind' = [index |-> 1, failure |-> TRUE, slice |-> Len(new_chain) - wind.index]
          \/ wind' = [wind EXCEPT !.index = Len(old_chain), !.failure = TRUE]
      BY <1>6 DEF TypeInv, TypeOK, RejectBlock, Finish
    <3>2. Len(old_chain) \in Nat
      BY LenProperties
    <3>3. Len(new_chain) - wind.index \in Nat /\ 1 \in Nat
      BY <1>2
    <3>4. wind \in WindArguments
      BY DEF TypeInv, TypeOK
    <3>5. QED
      BY <3>1, <3>2, <3>3, <3>4, WindArgumentsType
  <2>3. pc' \in {"unwind", "wind", "verdict"} /\ verdict' \in BOOLEAN
    BY <1>6 DEF TypeInv, TypeOK, RejectBlock, Finish
  <2> HIDE DEF h
  <2>4. QED
    <3>1. /\ pc = "wind"
          /\ UNCHANGED <<blocks, in_longest_chain, safe_to_prune, has_checkpoint, buried>>
          /\ UNCHANGED <<nodeVars, callVars, chainVars, headVars, blockring, utxoset, purge>>
      BY <1>6 DEF RejectBlock
    <3>2. BlocksTyped'
      BY <2>1, <3>1, TypeParts DEF TypeInv, BlocksTyped
    <3>3. StoreTyped' /\ PlaceTyped'
      BY <1>3, <2>2, <2>3, <3>1, TypeParts DEF TypeInv, StoreTyped, PlaceTyped, Places
    <3>4. AddingIsBlock' /\ WindIsUnderWay'
      BY <2>3, <3>1 DEF TypeInv, AddingIsBlock, WindIsUnderWay, callVars
    <3>5. QED
      BY <3>1, <3>2, <3>3, <3>4, TypeParts, TypeFrame DEF TypeInv
<1>7. QED
  BY <1>4, <1>5, <1>6

\* Old blocks are deleted.
LEMMA PurgeTyped ==
  ASSUME TypeInv, (\E h \in purge : PurgeBlock(h)) \/ EndPurge
  PROVE  TypeInv'
<1>1. ASSUME NEW h \in purge, PurgeBlock(h)
      PROVE  TypeInv'
  <2>1. h \in Hash /\ Forget(h)
    BY <1>1 DEF TypeInv, TypeOK, PurgeBlock
  <2>2. /\ blocks' \subseteq Hash /\ in_longest_chain' \subseteq Hash /\ is_valid' \subseteq Hash
        /\ pruned' \subseteq Hash /\ safe_to_prune' \subseteq Hash /\ has_checkpoint' \subseteq Hash
        /\ buried' \in [Hash -> Nat] /\ blockring' \in Ring
    BY <2>1, ForgetType DEF TypeInv
  <2>3. utxoset' \subseteq Slip
    BY <1>1 DEF TypeInv, TypeOK, PurgeBlock
  <2>4. QED
    <3>1. /\ purge' = purge \ {h} /\ disk' = disk \ {h}
          /\ UNCHANGED <<blocks_queue, config, loaded, updates, requested, waiting, crashes>>
          /\ UNCHANGED <<callVars, chainVars, headVars, initial_token_supply, pc, wind, verdict>>
      BY <1>1 DEF PurgeBlock
    <3>2. BlocksTyped'
      BY <2>2 DEF BlocksTyped
    <3>3. NodeTyped'
      BY <3>1, TypeParts DEF TypeInv, NodeTyped
    <3>4. StoreTyped' /\ PlaceTyped'
      BY <2>2, <2>3, <3>1, TypeParts DEF TypeInv, StoreTyped, PlaceTyped
    <3>5. AddingIsBlock' /\ WindIsUnderWay'
      BY <3>1 DEF TypeInv, AddingIsBlock, WindIsUnderWay, callVars
    <3>6. QED
      BY <3>1, <3>2, <3>3, <3>4, <3>5, TypeParts, TypeFrame DEF TypeInv
<1>2. CASE EndPurge
  <2>1. pruned' \subseteq Hash
    BY <1>2, BelowType DEF TypeInv, TypeOK, EndPurge
  <2>2. wind' \in WindArguments
    <3>1. wind' = wind \/ wind' = [wind EXCEPT !.index = wind.index - 1, !.failure = FALSE]
      BY <1>2 DEF TypeInv, TypeOK, EndPurge, Finish
    <3>2. wind \in WindArguments /\ wind.index \in Nat
      BY WindArgumentsType DEF TypeInv, TypeOK
    <3>3. wind.index # 0
      BY <1>2 DEF TypeInv, WindIsUnderWay, EndPurge
    <3>4. wind.index - 1 \in Nat
      BY <3>2, <3>3
    <3>5. QED
      BY <3>1, <3>2, <3>4, WindArgumentsType
  <2>3. pc = "purge" /\ pc' \in {"verdict", "wind"} /\ verdict' \in BOOLEAN
    <3>1. verdict' = ~wind.failure \/ verdict' = verdict
      BY <1>2 DEF EndPurge, Finish
    <3>2. (~wind.failure) \in BOOLEAN /\ verdict \in BOOLEAN
      BY DEF TypeInv, TypeOK
    <3>3. QED
      BY <1>2, <3>1, <3>2 DEF EndPurge, Finish
  <2>4. UNCHANGED <<blocks, in_longest_chain, is_valid, safe_to_prune, has_checkpoint, buried, nodeVars,
                    callVars, chainVars, headVars, blockring, utxoset, initial_token_supply, purge>>
    BY <1>2 DEF EndPurge
  <2>5. QED
    <3>1. BlocksTyped'
      BY <2>1, <2>4, TypeParts DEF TypeInv, BlocksTyped
    <3>2. StoreTyped' /\ PlaceTyped'
      BY <2>2, <2>3, <2>4, TypeParts DEF TypeInv, StoreTyped, PlaceTyped, Places
    <3>3. AddingIsBlock' /\ WindIsUnderWay'
      BY <2>3, <2>4 DEF TypeInv, AddingIsBlock, WindIsUnderWay, callVars
    <3>4. QED
      BY <2>4, <3>1, <3>2, <3>3, TypeParts, TypeFrame DEF TypeInv
<1>3. QED
  BY <1>1, <1>2

\* add_block comes to its verdict, keeps the block or drops it; the batch ends.
LEMMA VerdictTyped ==
  ASSUME TypeInv, Accept \/ Fail \/ Succeed \/ EndBatch
  PROVE  TypeInv'
<1>1. CASE Accept
  <2>1. initial_token_supply' \in Nat
    BY <1>1, SupplyType DEF TypeInv, Accept
  <2>2. QED
    <3>1. /\ pc = "verdict" /\ pc' = "success"
          /\ UNCHANGED <<blockVars, nodeVars, callVars, chainVars, headVars>>
          /\ UNCHANGED <<blockring, utxoset, wind, purge, verdict>>
      BY <1>1 DEF Accept
    <3>2. StoreTyped' /\ PlaceTyped'
      BY <2>1, <3>1, TypeParts DEF TypeInv, StoreTyped, PlaceTyped, Places
    <3>3. AddingIsBlock' /\ WindIsUnderWay'
      BY <3>1 DEF TypeInv, AddingIsBlock, WindIsUnderWay, callVars
    <3>4. QED
      BY <3>1, <3>2, <3>3, TypeParts, TypeFrame DEF TypeInv
<1>2. CASE Fail
  <2>1. adding \in Hash /\ Forget(adding)
    BY <1>2 DEF TypeInv, AddingIsBlock, Fail
  <2>2. /\ blocks' \subseteq Hash /\ in_longest_chain' \subseteq Hash /\ is_valid' \subseteq Hash
        /\ pruned' \subseteq Hash /\ safe_to_prune' \subseteq Hash /\ has_checkpoint' \subseteq Hash
        /\ buried' \in [Hash -> Nat] /\ blockring' \in Ring
    BY <2>1, ForgetType DEF TypeInv
  <2>3. initial_token_supply' \in Nat
    BY <1>2, SupplyType DEF TypeInv, Fail
  <2>4. pc' = "batch" /\ verdict' = FALSE
    BY <1>2 DEF Fail
  <2>5. UNCHANGED <<nodeVars, callVars, chainVars, headVars, utxoset, wind, purge>>
    BY <1>2 DEF Fail
  <2>6. QED
    <3>1. BlocksTyped'
      BY <2>2 DEF BlocksTyped
    <3>2. StoreTyped' /\ PlaceTyped'
      BY <2>2, <2>3, <2>4, <2>5, TypeParts DEF TypeInv, StoreTyped, PlaceTyped, Places
    <3>3. AddingIsBlock' /\ WindIsUnderWay'
      BY <2>4 DEF AddingIsBlock, WindIsUnderWay
    <3>4. QED
      BY <2>5, <3>1, <3>2, <3>3, TypeParts, TypeFrame DEF TypeInv
<1>3. CASE Succeed
  <2> DEFINE frozen == utxoset \cap Checkpoint[adding]
  <2>1. adding \in Hash
    BY <1>3 DEF TypeInv, AddingIsBlock, Succeed
  <2>2. frozen \subseteq Slip /\ Amount[frozen] \in Nat
    BY BlockchainAssumption DEF TypeInv, TypeOK
  <2>3. utxoset' \subseteq Slip
    BY <1>3 DEF TypeInv, TypeOK, Succeed
  <2>4. buried' \in [Hash -> Nat]
    <3>1. buried' = [buried EXCEPT ![adding] = @ + Amount[frozen]]
      BY <1>3 DEF Succeed
    <3>2. buried[adding] + Amount[frozen] \in Nat
      BY <2>1, <2>2 DEF TypeInv, TypeOK
    <3>3. QED
      BY <2>1, <3>1, <3>2 DEF TypeInv, TypeOK
  <2>5. has_checkpoint' \subseteq Hash /\ checkpoint_found' \in BOOLEAN
    BY <1>3, <2>1 DEF TypeInv, TypeOK, Succeed
  <2>6. disk' \subseteq Hash /\ safe_to_prune' \subseteq Hash
    BY <1>3, <2>1 DEF TypeInv, TypeOK, Succeed
  <2>7. pruned' \subseteq Hash
    <3>1. PrunedAfterAdd \subseteq Hash
      BY <1>3 DEF TypeInv, TypeOK, Succeed, CanSucceed
    <3>2. QED
      BY <1>3, <3>1 DEF TypeInv, TypeOK, Succeed
  <2>8. updates' \in Seq(BOOLEAN)
    BY <1>3, AppendProperties DEF TypeInv, TypeOK, Succeed
  <2>9. pc' = "batch" /\ UNCHANGED <<blocks, in_longest_chain, is_valid, blocks_queue, config, loaded,
               requested, waiting, crashes, callVars, chainVars, last_block, genesis_block_id, blockring,
               initial_token_supply, wind, purge, verdict>>
    BY <1>3 DEF Succeed
  <2>10. QED
    <3>1. BlocksTyped'
      BY <2>4, <2>5, <2>6, <2>7, <2>9, TypeParts DEF TypeInv, BlocksTyped
    <3>2. HeadTyped' /\ NodeTyped'
      BY <2>5, <2>6, <2>8, <2>9, TypeParts DEF TypeInv, HeadTyped, NodeTyped
    <3>3. StoreTyped' /\ PlaceTyped'
      BY <2>3, <2>9, TypeParts DEF TypeInv, StoreTyped, PlaceTyped, Places
    <3>4. AddingIsBlock' /\ WindIsUnderWay'
      BY <2>9 DEF AddingIsBlock, WindIsUnderWay
    <3>5. QED
      BY <2>9, <3>1, <3>2, <3>3, <3>4, TypeParts, TypeFrame DEF TypeInv
<1>4. CASE EndBatch
  <2>1. loaded' \in BOOLEAN /\ waiting' \in BOOLEAN /\ blocks_queue' \subseteq Hash /\ disk' \subseteq Hash
    BY <1>4 DEF TypeInv, TypeOK, EndBatch
  <2>2. pc' = "idle" /\ UNCHANGED <<blockVars, config, updates, requested, crashes, callVars, chainVars,
               headVars, blockring, utxoset, initial_token_supply, wind, purge, verdict, batch>>
    BY <1>4 DEF EndBatch, callVars
  <2>3. QED
    <3>1. NodeTyped'
      BY <2>1, <2>2, TypeParts DEF TypeInv, NodeTyped
    <3>2. StoreTyped' /\ PlaceTyped'
      BY <2>2, TypeParts DEF TypeInv, StoreTyped, PlaceTyped, Places
    <3>3. AddingIsBlock' /\ WindIsUnderWay'
      BY <2>2 DEF AddingIsBlock, WindIsUnderWay
    <3>4. QED
      BY <2>2, <3>1, <3>2, <3>3, TypeParts, TypeFrame DEF TypeInv
<1>5. QED
  BY <1>1, <1>2, <1>3, <1>4

\* The routing thread handles an event.
LEMMA UpdateTyped ==
  ASSUME TypeInv, HandleUpdate
  PROVE  TypeInv'
<1>1. Head(updates) \in BOOLEAN /\ Tail(updates) \in Seq(BOOLEAN)
  BY HeadTailProperties DEF TypeInv, TypeOK, HandleUpdate
<1>2. genesis_block_id' \in Nat
  BY LatestType DEF TypeInv, TypeOK, HandleUpdate
<1>3. config' \in [last_block: [id: Nat, hash: Hash \cup {NoHash}], genesis_block_id: Nat]
  BY DEF TypeInv, TypeOK, HandleUpdate
<1>4. waiting' \in BOOLEAN
  BY <1>1 DEF TypeInv, TypeOK, HandleUpdate
<1>5. QED
  BY <1>1, <1>2, <1>3, <1>4
     DEF TypeInv, TypeOK, AddingIsBlock, WindIsUnderWay, HandleUpdate, blockVars, callVars, chainVars

\* The node crashes and starts again.
LEMMA CrashTyped ==
  ASSUME TypeInv, Crash
  PROVE  TypeInv'
<1>1. NewRing \in Ring
  BY NewRingHolds
<1>2. <<>> \in Seq(Hash) /\ <<>> \in Seq(BOOLEAN)
  BY EmptySeq
<1>3. [h \in Hash |-> 0] \in [Hash -> Nat]
  OBVIOUS
<1>4. NoWind \in WindArguments
  BY DEF NoWind, WindArguments
<1>5. TypeOK'
  <2>1. /\ blockring' = NewRing /\ wind' = NoWind /\ buried' = [h \in Hash |-> 0]
        /\ new_chain' = <<>> /\ old_chain' = <<>> /\ updates' = <<>>
        /\ crashes' \in Nat /\ genesis_block_id' \in Nat
        /\ last_block' \in [id: Nat, hash: Hash \cup {NoHash}]
    BY DEF TypeInv, TypeOK, Crash
  <2>2. /\ loaded' \in BOOLEAN /\ waiting' \in BOOLEAN /\ verdict' \in BOOLEAN
        /\ initial_sync' \in BOOLEAN /\ checkpoint_found' \in BOOLEAN
    BY DEF Crash
  <2>3. QED
    BY <1>1, <1>2, <1>3, <1>4, <2>1, <2>2 DEF TypeInv, TypeOK, Places, Crash, StartBatch
<1>6. AddingIsBlock' /\ WindIsUnderWay'
  BY DEF Crash, StartBatch, AddingIsBlock, WindIsUnderWay
<1>7. QED
  BY <1>5, <1>6 DEF TypeInv

\* The strengthened invariant holds throughout.
LEMMA TypeInvCorrect == Spec => []TypeInv
<1>1. Init => TypeInv
  BY InitTyped
<1>2. TypeInv /\ [Next]_vars => TypeInv'
  <2>1. SUFFICES ASSUME TypeInv, [Next]_vars
                 PROVE  TypeInv'
    OBVIOUS
  <2>2. CASE \E h \in Hash : ReceiveBlock(h) \/ IgnoreBlock(h)
    BY <2>1, <2>2, ReceiveTyped
  <2>3. CASE AddBlocksStep
    BY <2>1, <2>3, BatchTyped, WalkTyped, SelectTyped, UnwindTyped, WindTyped, PurgeTyped, VerdictTyped
       DEF AddBlocksStep
  <2>4. CASE HandleUpdate
    BY <2>1, <2>4, UpdateTyped
  <2>5. CASE Crash
    BY <2>1, <2>5, CrashTyped
  <2>6. CASE UNCHANGED vars
    BY <2>1, <2>6
       DEF TypeInv, TypeOK, AddingIsBlock, WindIsUnderWay,
           vars, blockVars, nodeVars, callVars, chainVars, headVars
  <2>7. QED
    BY <2>1, <2>2, <2>3, <2>4, <2>5, <2>6 DEF Next
<1>3. QED
  BY <1>1, <1>2, PTL DEF Spec

\* Every variable keeps its kind, whatever the blocks, the window and the crashes.
THEOREM TypeCorrect == Spec => []TypeOK
<1>1. TypeInv => TypeOK
  BY DEF TypeInv
<1>2. QED
  BY <1>1, TypeInvCorrect, PTL

-----------------------------------------------------------------------------
(* The index: the map and the ring hold the same blocks.                   *)

\* RingIndexesBlocks in the terms of the lemmas about the ring.
LEMMA IndexHolds ==
  RingIndexesBlocks <=> HoldsExactly(blockring, blocks) /\ HoldsOnce(blockring)
BY DEF RingIndexesBlocks, HoldsExactly, HoldsOnce

\* A block that is forgotten leaves both.
LEMMA ForgetIndexed ==
  ASSUME TypeOK, RingIndexesBlocks, NEW h \in Hash, Forget(h)
  PROVE  RingIndexesBlocks'
<1>1. HoldsExactly(blockring, blocks) /\ HoldsOnce(blockring) /\ blockring \in Ring
  BY IndexHolds DEF TypeOK
<1>2. blockring' = DeleteFromRing(blockring, h) /\ blocks' = blocks \ {h}
  BY DEF Forget
<1>3. HoldsExactly(blockring', blocks') /\ HoldsOnce(blockring')
  BY <1>1, <1>2, DeleteFromRingHolds
<1>4. QED
  BY <1>3 DEF RingIndexesBlocks, HoldsExactly, HoldsOnce

\* A step that moves no entry of the ring and no block keeps the index.
LEMMA StillIndexed ==
  ASSUME RingIndexesBlocks, blocks' = blocks,
         \A s \in Slots : blockring'.items[s].hashes = blockring.items[s].hashes
  PROVE  RingIndexesBlocks'
BY DEF RingIndexesBlocks, HashesIn

\* add_block adds to both.
LEMMA TakeInIndexed ==
  ASSUME TypeOK, RingIndexesBlocks, NEW h \in batch, TakeIn(h)
  PROVE  RingIndexesBlocks'
<1>1. h \in Hash /\ h \notin blocks /\ blocks' = blocks \cup {h}
  BY DEF TypeOK, TakeIn, IsRefused
<1>2. HoldsExactly(blockring, blocks) /\ HoldsOnce(blockring) /\ blockring \in Ring
  BY IndexHolds DEF TypeOK
<1>3. ~ContainsHash(blockring, h)
  <2>1. SlotOf(Id[h]) \in Slots
    BY <1>1, SlotOfType, RingAssumption
  <2>2. QED
    BY <1>1, <1>2, <2>1 DEF HoldsExactly, ContainsHash
<1>4. blockring' = AddToRing(blockring, h)
  BY <1>3 DEF TakeIn
<1>5. HoldsExactly(blockring', blocks') /\ HoldsOnce(blockring')
  BY <1>1, <1>2, <1>4, AddToRingHolds
<1>6. QED
  BY <1>5 DEF RingIndexesBlocks, HoldsExactly, HoldsOnce

\* A reorganisation moves positions in the ring and nothing else.
LEMMA ReorganizationIndexed ==
  ASSUME TypeOK, RingIndexesBlocks,
         \/ MissSharedAncestor \/ SelectOther \/ SelectLongest \/ UnwindBlock \/ WindBlock
  PROVE  RingIndexesBlocks'
<1>1. blockring \in Ring
  BY DEF TypeOK
<1>2. blocks' = blocks
  BY DEF MissSharedAncestor, SelectOther, SelectLongest, UnwindBlock, WindBlock, blockVars
<1>3. ASSUME NEW h \in Hash
      PROVE  \A s \in Slots : /\ PutOnLongestChain(blockring, h).items[s].hashes = blockring.items[s].hashes
                              /\ TakeOffLongestChain(blockring, h).items[s].hashes = blockring.items[s].hashes
  <2>1. SlotOf(Id[h]) \in Slots
    BY SlotOfType, RingAssumption
  <2>2. QED
    BY <1>1, <2>1 DEF PutOnLongestChain, TakeOffLongestChain, Ring, RingItem
<1>4. CASE MissSharedAncestor
  <2>1. PICK gone : blockring'.items = [s \in Slots |-> IF LongestChainEntry(blockring.items[s]) \in gone
                                                   THEN [blockring.items[s] EXCEPT !.lc_pos = NoPos]
                                                   ELSE blockring.items[s]]
    BY <1>1, <1>4 DEF MissSharedAncestor, Ring
  <2>2. \A s \in Slots : blockring'.items[s].hashes = blockring.items[s].hashes
    BY <1>1, <2>1 DEF Ring, RingItem
  <2>3. QED
    BY <1>2, <2>2, StillIndexed
<1>5. CASE SelectOther \/ SelectLongest
  <2>1. blockring' = [blockring EXCEPT !.empty = FALSE]
    BY <1>5 DEF SelectOther, SelectLongest
  <2>2. \A s \in Slots : blockring'.items[s].hashes = blockring.items[s].hashes
    BY <1>1, <2>1 DEF Ring
  <2>3. QED
    BY <1>2, <2>2, StillIndexed
<1>6. CASE UnwindBlock
  <2>1. old_chain[wind.index] \in Hash /\ blockring' = TakeOffLongestChain(blockring, old_chain[wind.index])
    BY <1>6 DEF TypeOK, UnwindBlock, CanUnwind
  <2>2. QED
    BY <1>2, <1>3, <2>1, StillIndexed
<1>7. CASE WindBlock
  <2>1. new_chain[wind.index] \in Hash /\ blockring' = PutOnLongestChain(blockring, new_chain[wind.index])
    BY <1>7 DEF TypeOK, WindBlock, CanWind
  <2>2. QED
    BY <1>2, <1>3, <2>1, StillIndexed
<1>8. QED
  BY <1>4, <1>5, <1>6, <1>7

\* Whatever happens, forks, failures, deletions and crashes included, the ring
\* holds exactly the blocks of the map, each once and in the slot of its height.
THEOREM IndexCorrect == Spec => []RingIndexesBlocks
<1>1. Init => RingIndexesBlocks
  <2>1. SUFFICES ASSUME Init PROVE HoldsExactly(blockring, blocks) /\ HoldsOnce(blockring)
    BY IndexHolds
  <2>2. blocks = {} /\ blockring = NewRing
    BY <2>1 DEF Init
  <2>3. QED
    BY <2>2, NewRingHolds
<1>2. TypeOK /\ TypeInv /\ RingIndexesBlocks /\ [Next]_vars => RingIndexesBlocks'
  <2>1. SUFFICES ASSUME TypeOK, TypeInv, RingIndexesBlocks, [Next]_vars
                 PROVE  RingIndexesBlocks'
    OBVIOUS
  <2> DEFINE Still == UNCHANGED <<blocks, blockring>>
  <2>2. Still => RingIndexesBlocks'
    BY <2>1 DEF RingIndexesBlocks
  <2>3. CASE \E h \in Hash : ReceiveBlock(h) \/ IgnoreBlock(h)
    BY <2>2, <2>3 DEF ReceiveBlock, IgnoreBlock, vars, blockVars
  <2>4. CASE AddBlocksStep
    <3>1. ASSUME NEW h \in batch, Refuse(h) \/ Postpone(h)
          PROVE  Still
      BY <3>1 DEF Refuse, Postpone, blockVars
    <3>2. ASSUME ExtendNewChain \/ FindSharedAncestor \/ ExtendOldChain \/ EndOldChain
          PROVE  Still
      BY <3>2 DEF ExtendNewChain, FindSharedAncestor, ExtendOldChain, EndOldChain, blockVars
    <3>3. ASSUME UnwindCheckpoint \/ WindCheckpoint \/ RejectBlock
          PROVE  Still
      BY <3>3 DEF UnwindCheckpoint, WindCheckpoint, RejectBlock, blockVars
    <3>4. ASSUME EndPurge \/ Accept \/ Succeed \/ EndBatch
          PROVE  Still
      BY <3>4 DEF EndPurge, Accept, Succeed, EndBatch, blockVars
    <3>5. ASSUME NEW h \in purge, PurgeBlock(h)
          PROVE  RingIndexesBlocks'
      <4>1. h \in Hash
        BY <2>1 DEF TypeOK
      <4>2. Forget(h)
        BY <3>5 DEF PurgeBlock
      <4>3. QED
        BY <2>1, <4>1, <4>2, ForgetIndexed
    <3>6. ASSUME Fail
          PROVE  RingIndexesBlocks'
      <4>1. adding \in Hash
        BY <2>1, <3>6 DEF TypeInv, AddingIsBlock, Fail
      <4>2. Forget(adding)
        BY <3>6 DEF Fail
      <4>3. QED
        BY <2>1, <4>1, <4>2, ForgetIndexed
    <3> HIDE DEF Still
    <3>7. QED
      BY <2>1, <2>2, <2>4, <3>1, <3>2, <3>3, <3>4, <3>5, <3>6, TakeInIndexed, ReorganizationIndexed
         DEF AddBlocksStep
  <2>5. CASE HandleUpdate
    BY <2>2, <2>5 DEF HandleUpdate, blockVars
  <2>6. CASE Crash
    <3>1. blocks' = {} /\ blockring' = NewRing
      BY <2>6 DEF Crash
    <3>2. HoldsExactly(blockring', blocks') /\ HoldsOnce(blockring')
      BY <3>1, NewRingHolds
    <3>3. QED
      BY <3>2 DEF RingIndexesBlocks, HoldsExactly, HoldsOnce
  <2>7. CASE UNCHANGED vars
    BY <2>2, <2>7 DEF vars, blockVars
  <2>8. QED
    BY <2>1, <2>3, <2>4, <2>5, <2>6, <2>7 DEF Next
<1>3. QED
  BY <1>1, <1>2, TypeCorrect, TypeInvCorrect, PTL DEF Spec

-----------------------------------------------------------------------------
(* Deletion and pruning: what goes is known.                               *)

\* Every hash of a slot is a block, so is its longest chain entry.
LEMMA EntriesAreBlocks ==
  ASSUME NEW r \in Ring, NEW known, HoldsExactly(r, known), NEW id \in Nat
  PROVE  /\ HashesAt(r, id) \subseteq known
         /\ LongestChainHashAt(r, id) \in known \cup {NoHash}
<1>1. SlotOf(id) \in Slots
  BY SlotOfType
<1>2. \A h \in HashesIn(r.items[SlotOf(id)]) : h \in known
  BY <1>1, ElementOfSeq DEF HoldsExactly, HashesIn, Ring, RingItem
<1>3. LongestChainEntry(r.items[SlotOf(id)]) \in known \cup {NoHash}
  BY <1>2 DEF LongestChainEntry, HashesIn
<1>4. QED
  BY <1>2, <1>3 DEF HashesAt, LongestChainHashAt

\* Blocks are deleted at two heights the ring is read at.
LEMMA PurgedAreBlocks ==
  ASSUME NEW r \in Ring, NEW known, HoldsExactly(r, known)
  PROVE  PurgedBelow(r) \subseteq known
<1>1. LatestId(r) \in Nat /\ RingSize \in Nat
  BY LatestType, RingAssumption DEF RingSize
<1>2. CASE LatestId(r) - RingSize < 1
  BY <1>2 DEF PurgedBelow
<1>3. CASE ~(LatestId(r) - RingSize < 1)
  <2>1. LatestId(r) - RingSize \in Nat /\ LatestId(r) - RingSize + 1 \in Nat
    BY <1>1, <1>3
  <2>2. /\ HashesAt(r, LatestId(r) - RingSize) \subseteq known
        /\ HashesAt(r, LatestId(r) - RingSize + 1) \subseteq known
    BY <2>1, EntriesAreBlocks
  <2>3. QED
    BY <1>3, <2>2 DEF PurgedBelow
<1>4. QED
  BY <1>2, <1>3

\* So is the block whose transactions are pruned once another was added.
LEMMA PrunedAfterAddAreBlocks ==
  ASSUME TypeOK, RingIndexesBlocks
  PROVE  PrunedAfterAdd \subseteq blocks
<1>1. blockring \in Ring /\ HoldsExactly(blockring, blocks)
  BY IndexHolds DEF TypeOK
<1>2. LatestId(blockring) \in Nat /\ GenesisPeriod \in Nat
  BY <1>1, LatestType, RingAssumption
<1> DEFINE id == LatestId(blockring) - (GenesisPeriod + 1)
<1>3. CASE id <= 0
  BY <1>3 DEF PrunedAfterAdd
<1>4. CASE ~(id <= 0)
  <2>1. id \in Nat
    BY <1>2, <1>4
  <2>2. LongestChainHashAt(blockring, id) \in blocks \cup {NoHash}
    BY <1>1, <2>1, EntriesAreBlocks
  <2>3. QED
    BY <1>4, <2>2 DEF PrunedAfterAdd
<1>5. QED
  BY <1>3, <1>4

\* A block is deleted from the set and from the map in one step, and nothing else
\* happens until the set is empty.
LEMMA PurgeStaysKnown ==
  ASSUME TypeOK, pc = "purge" => purge \subseteq blocks, AddBlocksStep,
         TypeOK', RingIndexesBlocks', pc' = "purge"
  PROVE  (purge \subseteq blocks)'
<1>1. ASSUME NEW h \in purge, PurgeBlock(h)
      PROVE  (purge \subseteq blocks)'
  <2>1. purge' = purge \ {h} /\ blocks' = blocks \ {h} /\ purge \subseteq blocks
    BY <1>1 DEF PurgeBlock, Forget
  <2>2. QED
    BY <2>1
<1>2. CASE WindBlock
  <2>1. purge' = {} \/ purge' = PurgedBelow(blockring')
    BY <1>2 DEF WindBlock
  <2>2. blockring' \in Ring /\ HoldsExactly(blockring', blocks')
    BY DEF TypeOK, RingIndexesBlocks, HoldsExactly
  <2>3. PurgedBelow(blockring') \subseteq blocks'
    BY <2>2, PurgedAreBlocks
  <2>4. QED
    BY <2>1, <2>3
<1>3. ASSUME NEW h \in batch, Refuse(h) \/ Postpone(h) \/ TakeIn(h)
      PROVE  pc' # "purge"
  BY <1>3 DEF Refuse, Postpone, TakeIn
<1>4. ASSUME ExtendNewChain \/ FindSharedAncestor \/ MissSharedAncestor \/ ExtendOldChain \/ EndOldChain
      PROVE  pc' # "purge"
  <2>1. CASE ExtendNewChain \/ ExtendOldChain
    BY <2>1 DEF ExtendNewChain, ExtendOldChain
  <2>2. CASE FindSharedAncestor \/ EndOldChain
    BY <2>2 DEF FindSharedAncestor, EndOldChain
  <2>3. CASE MissSharedAncestor
    <3>1. pc' = "old chain"
      BY <2>3 DEF MissSharedAncestor
    <3>2. QED
      BY <3>1
  <2>4. QED
    BY <1>4, <2>1, <2>2, <2>3
<1>5. ASSUME SelectOther \/ SelectLongest \/ UnwindCheckpoint \/ UnwindBlock \/ WindCheckpoint \/ RejectBlock
      PROVE  pc' # "purge"
  <2>1. CASE SelectOther \/ SelectLongest
    BY <2>1 DEF SelectOther, SelectLongest
  <2>2. CASE UnwindCheckpoint \/ WindCheckpoint
    BY <2>2 DEF UnwindCheckpoint, WindCheckpoint, Finish
  <2>3. CASE UnwindBlock
    BY <2>3 DEF UnwindBlock
  <2>4. CASE RejectBlock
    BY <2>4 DEF RejectBlock, Finish
  <2>5. QED
    BY <1>5, <2>1, <2>2, <2>3, <2>4
<1>6. ASSUME EndPurge \/ Accept \/ Fail \/ Succeed \/ EndBatch
      PROVE  pc' # "purge"
  BY <1>6 DEF EndPurge, Accept, Fail, Succeed, EndBatch, Finish
<1>7. QED
  BY <1>1, <1>2, <1>3, <1>4, <1>5, <1>6 DEF AddBlocksStep

\* delete_block and prune_blocks_after_add_block look up blocks of the map only.
THEOREM DeletedAreKnownAlways == Spec => []DeletedAreKnown
<1> DEFINE PurgeIsKnown == pc = "purge" => purge \subseteq blocks
<1>1. Init => PurgeIsKnown
  BY DEF Init
<1>2. TypeOK /\ PurgeIsKnown /\ [Next]_vars /\ TypeOK' /\ RingIndexesBlocks' => PurgeIsKnown'
  <2>1. SUFFICES ASSUME TypeOK, PurgeIsKnown, [Next]_vars, TypeOK', RingIndexesBlocks', pc' = "purge"
                 PROVE  (purge \subseteq blocks)'
    OBVIOUS
  <2>2. CASE AddBlocksStep
    BY <2>1, <2>2, PurgeStaysKnown
  <2>3. CASE \E h \in Hash : ReceiveBlock(h) \/ IgnoreBlock(h)
    BY <2>1, <2>3 DEF ReceiveBlock, IgnoreBlock, StartBatch, vars, blockVars
  <2>4. CASE HandleUpdate
    <3>1. pc = "idle" /\ pc' = pc
      BY <2>4 DEF HandleUpdate
    <3>2. QED
      BY <2>1, <3>1
  <2>5. CASE Crash
    BY <2>1, <2>5 DEF Crash, StartBatch
  <2>6. CASE UNCHANGED vars
    BY <2>1, <2>6 DEF vars, blockVars
  <2>7. QED
    BY <2>1, <2>2, <2>3, <2>4, <2>5, <2>6 DEF Next
<1>3. TypeOK /\ RingIndexesBlocks => CanSucceed
  BY PrunedAfterAddAreBlocks DEF CanSucceed
<1>4. PurgeIsKnown /\ CanSucceed => DeletedAreKnown
  BY DEF DeletedAreKnown
<1> HIDE DEF PurgeIsKnown
<1>5. QED
  BY <1>1, <1>2, <1>3, <1>4, TypeCorrect, IndexCorrect, PTL DEF Spec

-----------------------------------------------------------------------------
(* The disk: what is in memory can be read back.                           *)

\* While a node runs for the first time it has its blocks on the disk.  After a
\* restart the loading ends with a deletion of files (delete_old_blocks), which
\* goes by the height of the tip that was loaded, and not by what is in memory.
DiskInv == crashes = 0 => loaded /\ BlocksAreOnDisk

\* A block is written before the next one is taken in.
LEMMA AddBlocksOnDisk ==
  ASSUME TypeInv, DiskInv, crashes = 0, AddBlocksStep
  PROVE  DiskInv'
<1>1. loaded /\ BlocksAreOnDisk
  BY DEF DiskInv
<1>2. ASSUME NEW h \in batch, Refuse(h) \/ Postpone(h)
      PROVE  DiskInv'
  BY <1>1, <1>2 DEF Refuse, Postpone, BackToQueue, DiskInv, BlocksAreOnDisk, Settled, blockVars, nodeVars
<1>3. ASSUME NEW h \in batch, TakeIn(h)
      PROVE  DiskInv'
  <2>1. blocks \subseteq disk
    BY <1>1, <1>3 DEF TakeIn, BlocksAreOnDisk, Settled
  <2>2. pc' = "new chain" /\ blocks' = blocks \cup {h} /\ adding' = h /\ disk' = disk /\ loaded' = loaded
    BY <1>3 DEF TakeIn, nodeVars
  <2>3. QED
    BY <1>1, <2>1, <2>2 DEF DiskInv, BlocksAreOnDisk, Settled
<1>4. ASSUME blocks' = blocks, disk' = disk, loaded' = loaded, adding' = adding, Settled' <=> Settled
      PROVE  DiskInv'
  BY <1>1, <1>4 DEF DiskInv, BlocksAreOnDisk
<1>5. ASSUME ExtendNewChain \/ FindSharedAncestor \/ MissSharedAncestor \/ ExtendOldChain \/ EndOldChain
      PROVE  DiskInv'
  BY <1>4, <1>5 DEF ExtendNewChain, FindSharedAncestor, MissSharedAncestor, ExtendOldChain, EndOldChain,
                    Settled, blockVars, nodeVars, callVars
<1>6. ASSUME SelectOther \/ SelectLongest \/ Accept
      PROVE  DiskInv'
  BY <1>4, <1>6 DEF SelectOther, SelectLongest, Accept, Settled, blockVars, nodeVars, callVars
<1>7. ASSUME UnwindCheckpoint \/ UnwindBlock \/ WindCheckpoint \/ WindBlock \/ RejectBlock \/ EndPurge
      PROVE  DiskInv'
  BY <1>4, <1>7 DEF UnwindCheckpoint, UnwindBlock, WindCheckpoint, WindBlock, RejectBlock, EndPurge, Finish,
                    Settled, blockVars, nodeVars, callVars
<1>8. ASSUME NEW h \in purge, PurgeBlock(h)
      PROVE  DiskInv'
  <2>1. blocks' = blocks \ {h} /\ disk' = disk \ {h} /\ loaded' = loaded /\ adding' = adding /\ pc' = pc
    BY <1>8 DEF PurgeBlock, Forget, callVars
  <2>2. QED
    BY <1>1, <2>1 DEF DiskInv, BlocksAreOnDisk, Settled
<1>9. ASSUME Fail
      PROVE  DiskInv'
  <2>1. pc = "verdict" /\ pc' = "batch" /\ blocks' = blocks \ {adding} /\ disk' = disk /\ loaded' = loaded
    BY <1>9 DEF Fail, Forget, nodeVars
  <2>2. QED
    BY <1>1, <2>1 DEF DiskInv, BlocksAreOnDisk, Settled
<1>10. ASSUME Succeed
       PROVE  DiskInv'
  <2>1. pc = "success" /\ pc' = "batch" /\ blocks' = blocks /\ disk' = disk \cup {adding} /\ loaded' = loaded
    BY <1>10 DEF Succeed
  <2>2. QED
    BY <1>1, <2>1 DEF DiskInv, BlocksAreOnDisk, Settled
<1>11. ASSUME EndBatch
       PROVE  DiskInv'
  <2>1. pc = "batch" /\ pc' = "idle" /\ blocks' = blocks /\ disk' = disk /\ loaded' = loaded
    BY <1>1, <1>11 DEF EndBatch, blockVars
  <2>2. QED
    BY <1>1, <2>1 DEF DiskInv, BlocksAreOnDisk, Settled
<1>12. QED
  BY <1>2, <1>3, <1>5, <1>6, <1>7, <1>8, <1>9, <1>10, <1>11 DEF AddBlocksStep

\* Until it restarts a node has on disk every block of its map but the one it is
\* adding, so that a block whose transactions were pruned can have them back.
THEOREM DiskCorrect == Spec => [](crashes = 0 => BlocksAreOnDisk)
<1>1. Init => DiskInv
  BY DEF Init, DiskInv, BlocksAreOnDisk
<1>2. TypeInv /\ DiskInv /\ [Next]_vars => DiskInv'
  <2>1. SUFFICES ASSUME TypeInv, DiskInv, [Next]_vars
                 PROVE  DiskInv'
    OBVIOUS
  <2>2. CASE \E h \in Hash : ReceiveBlock(h) \/ IgnoreBlock(h)
    BY <2>1, <2>2 DEF ReceiveBlock, StartBatch, IgnoreBlock, DiskInv, BlocksAreOnDisk, Settled,
                      vars, blockVars, nodeVars, callVars
  <2>3. CASE AddBlocksStep
    <3>1. CASE crashes = 0
      BY <2>1, <2>3, <3>1, AddBlocksOnDisk
    <3>2. CASE crashes # 0
      <4>1. crashes' = crashes
        BY <2>3 DEF AddBlocksStep, Refuse, Postpone, TakeIn, ExtendNewChain, FindSharedAncestor,
                    MissSharedAncestor, ExtendOldChain, EndOldChain, SelectOther, SelectLongest,
                    UnwindCheckpoint, UnwindBlock, WindCheckpoint, WindBlock, RejectBlock, PurgeBlock,
                    EndPurge, Accept, Fail, Succeed, EndBatch, nodeVars
      <4>2. QED
        BY <3>2, <4>1 DEF DiskInv
    <3>3. QED
      BY <3>1, <3>2
  <2>4. CASE HandleUpdate
    BY <2>1, <2>4 DEF HandleUpdate, DiskInv, BlocksAreOnDisk, Settled, blockVars, callVars
  <2>5. CASE Crash
    <3>1. crashes' # 0
      BY <2>1, <2>5 DEF TypeInv, TypeOK, Crash
    <3>2. QED
      BY <3>1 DEF DiskInv
  <2>6. CASE UNCHANGED vars
    BY <2>1, <2>6 DEF DiskInv, BlocksAreOnDisk, Settled, vars, blockVars, nodeVars, callVars
  <2>7. QED
    BY <2>1, <2>2, <2>3, <2>4, <2>5, <2>6 DEF Next
<1>3. DiskInv => (crashes = 0 => BlocksAreOnDisk)
  BY DEF DiskInv
<1>4. QED
  BY <1>1, <1>2, <1>3, TypeInvCorrect, PTL DEF Spec

-----------------------------------------------------------------------------
(* The queue: no block waits for a parent that is there.                   *)

\* A block is one higher than the block it was created on (Block::create).
ParentsAreLower == \A h \in Hash : Parent[h] \in Hash => Id[Parent[h]] < Id[h]

\* The batch is worked off from below, so what went back to the queue is not above
\* what is still to be added, and no such block is the parent of it.
QueueInv ==
  /\ \A h \in blocks_queue : Parent[h] \notin blocks
  /\ \A h \in blocks_queue, g \in batch : Id[h] <= Id[g]

\* Fewer blocks, in the map, in the queue or in the batch, do no harm.
LEMMA QueueShrinks ==
  ASSUME QueueInv, blocks' \subseteq blocks, blocks_queue' \subseteq blocks_queue, batch' \subseteq batch
  PROVE  QueueInv'
BY DEF QueueInv

\* add_block puts a block back whose parent is missing, or adds one that is not
\* the parent of a block put back before it.
LEMMA AddBlocksKeepsQueue ==
  ASSUME ParentsAreLower, TypeOK, QueueInv, AddBlocksStep
  PROVE  QueueInv'
<1>1. ASSUME NEW h \in batch, Refuse(h)
      PROVE  QueueInv'
  BY <1>1, QueueShrinks DEF Refuse, blockVars, nodeVars
<1>2. ASSUME NEW h \in batch, Postpone(h)
      PROVE  QueueInv'
  <2>1. /\ blocks_queue' = blocks_queue \cup {h} /\ batch' = batch \ {h} /\ blocks' = blocks
        /\ Parent[h] \notin blocks /\ \A g \in batch : Id[h] <= Id[g]
    BY <1>2 DEF Postpone, BackToQueue, IsOrphan, HasParent, Lowest, blockVars
  <2>2. QED
    BY <2>1 DEF QueueInv
<1>3. ASSUME NEW h \in batch, TakeIn(h)
      PROVE  QueueInv'
  <2>1. blocks_queue' = blocks_queue /\ batch' = batch \ {h} /\ blocks' = blocks \cup {h}
    BY <1>3 DEF TakeIn, nodeVars
  <2>2. ASSUME NEW q \in blocks_queue
        PROVE  Parent[q] # h
    <3>1. q \in Hash /\ h \in Hash
      BY DEF TypeOK
    <3>2. Id[q] \in Nat /\ Id[h] \in Nat /\ Id[q] <= Id[h]
      BY <3>1, RingAssumption DEF QueueInv
    <3>3. QED
      BY <3>1, <3>2 DEF ParentsAreLower
  <2>3. QED
    BY <2>1, <2>2 DEF QueueInv
<1>4. ASSUME ExtendNewChain \/ FindSharedAncestor \/ MissSharedAncestor \/ ExtendOldChain \/ EndOldChain
      PROVE  QueueInv'
  BY <1>4, QueueShrinks DEF ExtendNewChain, FindSharedAncestor, MissSharedAncestor, ExtendOldChain,
                            EndOldChain, blockVars, nodeVars, callVars
<1>5. ASSUME SelectOther \/ SelectLongest \/ Accept
      PROVE  QueueInv'
  BY <1>5, QueueShrinks DEF SelectOther, SelectLongest, Accept, blockVars, nodeVars, callVars
<1>6. ASSUME UnwindCheckpoint \/ UnwindBlock \/ WindCheckpoint \/ WindBlock \/ RejectBlock \/ EndPurge
      PROVE  QueueInv'
  BY <1>6, QueueShrinks DEF UnwindCheckpoint, UnwindBlock, WindCheckpoint, WindBlock, RejectBlock,
                            EndPurge, blockVars, nodeVars, callVars
<1>7. ASSUME NEW h \in purge, PurgeBlock(h)
      PROVE  QueueInv'
  <2>1. blocks' = blocks \ {h} /\ blocks_queue' = blocks_queue /\ batch' = batch
    BY <1>7 DEF PurgeBlock, Forget, callVars
  <2>2. QED
    BY <2>1, QueueShrinks
<1>8. ASSUME Fail
      PROVE  QueueInv'
  <2>1. blocks' = blocks \ {adding} /\ blocks_queue' = blocks_queue /\ batch' = batch
    BY <1>8 DEF Fail, Forget, nodeVars, callVars
  <2>2. QED
    BY <2>1, QueueShrinks
<1>9. ASSUME Succeed \/ EndBatch
      PROVE  QueueInv'
  <2>1. blocks' = blocks /\ blocks_queue' \subseteq blocks_queue /\ batch' = batch
    BY <1>9 DEF Succeed, EndBatch, blockVars, callVars
  <2>2. QED
    BY <2>1, QueueShrinks
<1>10. QED
  BY <1>1, <1>2, <1>3, <1>4, <1>5, <1>6, <1>7, <1>8, <1>9 DEF AddBlocksStep

\* Among blocks that are higher than their parents, whatever is refused, fails, is
\* deleted or comes again after a restart: when the call ends no block waits in the
\* queue for a parent the chain has.
THEOREM NoStrandedBlockAlways ==
  ASSUME ParentsAreLower
  PROVE  Spec => []NoStrandedBlock
<1>1. Init => QueueInv
  BY DEF Init, QueueInv
<1>2. TypeOK /\ QueueInv /\ [Next]_vars => QueueInv'
  <2>1. SUFFICES ASSUME TypeOK, QueueInv, [Next]_vars
                 PROVE  QueueInv'
    OBVIOUS
  <2>2. CASE \E h \in Hash : ReceiveBlock(h) \/ IgnoreBlock(h)
    <3>1. CASE UNCHANGED vars
      BY <2>1, <3>1, QueueShrinks DEF vars, blockVars, nodeVars, callVars
    <3>2. CASE \E h \in Hash : ReceiveBlock(h)
      BY <3>2 DEF ReceiveBlock, StartBatch, QueueInv
    <3>3. QED
      BY <2>2, <3>1, <3>2 DEF IgnoreBlock
  <2>3. CASE AddBlocksStep
    BY <2>1, <2>3, AddBlocksKeepsQueue
  <2>4. CASE HandleUpdate
    BY <2>1, <2>4, QueueShrinks DEF HandleUpdate, blockVars, callVars
  <2>5. CASE Crash
    BY <2>5 DEF Crash, StartBatch, QueueInv
  <2>6. CASE UNCHANGED vars
    BY <2>1, <2>6, QueueShrinks DEF vars, blockVars, nodeVars, callVars
  <2>7. QED
    BY <2>1, <2>2, <2>3, <2>4, <2>5, <2>6 DEF Next
<1>3. QueueInv => NoStrandedBlock
  BY DEF QueueInv, NoStrandedBlock
<1>4. QED
  BY <1>1, <1>2, <1>3, TypeCorrect, PTL DEF Spec

=============================================================================
