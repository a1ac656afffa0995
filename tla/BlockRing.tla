------------------------------ MODULE BlockRing ------------------------------
(***************************************************************************)
(* The index of the blockchain by height: consensus/blockring.rs and       *)
(* consensus/ringitem.rs.  A ring of 2 * GenesisPeriod slots holds, for    *)
(* every block the node knows, its hash in the slot Id % (2*GenesisPeriod),*)
(* and remembers in each slot, and for the whole ring, which entry is on   *)
(* the longest chain.                                                      *)
(*                                                                         *)
(* The ring is a value and every method of BlockRing an operator on it.    *)
(* A slot keeps the hashes only: the id stored beside a hash in            *)
(* RingItem::block_ids is Id[hash].  Positions count from 1, so the code's *)
(* Some(i) is i + 1 and None is NoPos.                                     *)
(***************************************************************************)
EXTENDS Integers, Sequences

CONSTANTS
  Hash,           \* the block hashes that can occur
  NoHash,         \* the all-zero hash, which names no block
  Id,             \* Id[h]: the height (Block::id) of the block with hash h
  GenesisPeriod   \* the length of the window of spendable history

ASSUME RingAssumption ==
  /\ NoHash \notin Hash
  /\ Id \in [Hash -> Nat \ {0}]
  /\ GenesisPeriod \in Nat \ {0}

RingSize == 2 * GenesisPeriod

Slots == 0 .. RingSize - 1

SlotOf(id) == id % RingSize

NoPos == 0     \* RingItem::lc_pos = None
NoSlot == -1   \* BlockRing::lc_pos = None

RingItem == [lc_pos: Nat, hashes: Seq(Hash)]

Ring == [lc_pos: Slots \cup {NoSlot}, items: [Slots -> RingItem], empty: BOOLEAN]

NewRing ==
  [lc_pos |-> NoSlot,
   items  |-> [s \in Slots |-> [lc_pos |-> NoPos, hashes |-> <<>>]],
   empty  |-> TRUE]

HashesIn(item) == {item.hashes[p] : p \in DOMAIN item.hashes}

PositionOf(item, h) ==
  IF h \in HashesIn(item)
  THEN CHOOSE p \in DOMAIN item.hashes : item.hashes[p] = h
  ELSE NoPos

\* The entry a slot declares to be on the longest chain, NoHash when it
\* declares none or a position at which nothing is stored.
LongestChainEntry(item) ==
  IF item.lc_pos \in DOMAIN item.hashes THEN item.hashes[item.lc_pos] ELSE NoHash

-----------------------------------------------------------------------------
(* Reading the ring.                                                       *)

ContainsHash(r, h) == h \in HashesIn(r.items[SlotOf(Id[h])])

LatestHash(r) ==
  IF r.lc_pos = NoSlot THEN NoHash ELSE LongestChainEntry(r.items[r.lc_pos])

LatestId(r) == IF LatestHash(r) = NoHash THEN 0 ELSE Id[LatestHash(r)]

\* A slot is shared by the heights that differ by a multiple of RingSize, so
\* the entry counts only if it has the height asked for.
LongestChainHashAt(r, id) ==
  LET h == LongestChainEntry(r.items[SlotOf(id)])
  IN  IF h # NoHash /\ Id[h] = id THEN h ELSE NoHash

\* Mutant: the heights that share the slot are taken for one.
HashesInSlotOf(r, id) == HashesIn(r.items[SlotOf(id)])

HashesAt(r, id) == {h \in HashesIn(r.items[SlotOf(id)]) : Id[h] = id}

\* The oldest entry of a height.
FirstHashAt(r, id) ==
  LET hashes == r.items[SlotOf(id)].hashes
      First  == {p \in DOMAIN hashes : /\ Id[hashes[p]] = id
                                       /\ \A q \in 1 .. p - 1 : Id[hashes[q]] # id}
  IN  IF First = {} THEN NoHash ELSE hashes[CHOOSE p \in First : TRUE]

-----------------------------------------------------------------------------
(* Changing the ring.                                                      *)

AddToRing(r, h) ==
  [r EXCEPT !.items[SlotOf(Id[h])].hashes = Append(@, h)]

\* Mutant: the block after the deleted one goes too.
WithoutEntryAndNext(item, h) ==
  LET p == PositionOf(item, h)
  IN  IF p = NoPos THEN item
      ELSE [item EXCEPT !.hashes = SubSeq(@, 1, p - 1) \o SubSeq(@, p + 2, Len(@))]

\* RingItem::delete_block rebuilds the two vectors without the block.  The
\* new position starts as Some(0) and becomes that of the old longest chain
\* entry when it is copied: a slot that had no such entry, or loses it, points
\* at its first entry afterwards.
WithoutEntry(item, h) ==
  LET p    == PositionOf(item, h)
      rest == IF p = NoPos
              THEN item.hashes
              ELSE SubSeq(item.hashes, 1, p - 1)
                     \o SubSeq(item.hashes, p + 1, Len(item.hashes))
      old  == LongestChainEntry(item)
  IN  [hashes |-> rest,
       lc_pos |-> IF old = NoHash \/ old = h
                  THEN 1
                  ELSE IF p # NoPos /\ p < item.lc_pos THEN item.lc_pos - 1 ELSE item.lc_pos]

\* Mutant: the ring loses its tip with the block.
DeleteWithTip(r, h) ==
  [r EXCEPT !.items[SlotOf(Id[h])] = WithoutEntry(@, h), !.lc_pos = NoSlot]

\* Mutant: the block is taken off the longest chain, but stays in its slot.
KeepInSlot(r, h) ==
  [r EXCEPT !.items[SlotOf(Id[h])].lc_pos = IF LongestChainEntry(r.items[SlotOf(Id[h])]) = h THEN NoPos ELSE @]

DeleteFromRing(r, h) ==
  [r EXCEPT !.items[SlotOf(Id[h])] = WithoutEntry(@, h)]

\* Mutant: the first block of the slot is taken for the one reorganised.
PutFirstOnLongestChain(r, h) ==
  [r EXCEPT !.items[SlotOf(Id[h])].lc_pos = 1, !.lc_pos = SlotOf(Id[h])]

\* on_chain_reorganization(id, hash, true)
PutOnLongestChain(r, h) ==
  [r EXCEPT !.items[SlotOf(Id[h])].lc_pos = PositionOf(r.items[SlotOf(Id[h])], h),
            !.lc_pos = SlotOf(Id[h])]

\* on_chain_reorganization(id, hash, false): the slot has no longest chain entry
\* any more; if it was the tip, the slot before it becomes the tip, provided that
\* its longest chain entry is of the height below.
TakeOffLongestChain(r, h) ==
  LET slot     == SlotOf(Id[h])
      previous == IF slot > 0 THEN slot - 1 ELSE RingSize - 1
      below    == LongestChainEntry(r.items[previous])
  IN  [r EXCEPT !.items[slot].lc_pos = NoPos,
                !.lc_pos = IF @ # slot THEN @
                           ELSE IF below # NoHash /\ Id[below] = Id[h] - 1 THEN previous
                           ELSE NoSlot]
=============================================================================
