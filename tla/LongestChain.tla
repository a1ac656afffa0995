----------------------------- MODULE LongestChain -----------------------------
(***************************************************************************)
(* What a node promises about its chain, however it goes about it: it      *)
(* knows some blocks and stands on one of them.  A block it learns becomes *)
(* the tip exactly if its branch is longer than that of the tip and not    *)
(* lighter where the two differ (is_new_chain_the_longest_chain); a block  *)
(* that is not accepted leaves no trace.                                   *)
(***************************************************************************)
EXTENDS Integers, FiniteSetsExt

CONSTANTS
  Hash, NoHash,
  Id,             \* Id[h]: the height of a block
  Parent,         \* Parent[h]: Block::previous_block_hash
  Burnfee         \* Burnfee[h]: the work a block adds to its chain

VARIABLES
  known,          \* the blocks of the node
  tip             \* the one it stands on, NoHash if it has none

\* A block, its parent, the parent of that, and so on.
Ancestors[h \in Hash] == {h} \cup (IF Parent[h] \in Hash THEN Ancestors[Parent[h]] ELSE {})

Branch(h) == IF h = NoHash THEN {} ELSE Ancestors[h]

Work(S) == MapThenSumSet(LAMBDA h : Burnfee[h], S)

\* The branch of h is longer than the branch of g, and has as much work.
Beats(h, g) ==
  \/ g = NoHash
  \/ /\ Id[h] > Id[g]
     /\ Work(Branch(h) \ Branch(g)) >= Work(Branch(g) \ Branch(h))

Init == known = {} /\ tip = NoHash

Learn(h) ==
  /\ h \in Hash \ known
  /\ known' = known \cup {h}
  /\ tip' = IF Beats(h, tip) THEN h ELSE tip

\* Old blocks go, the tip never.
Expire ==
  /\ known' \in (SUBSET known) \ {known}
  /\ tip \in known'
  /\ UNCHANGED tip

\* The node starts again, and learns its blocks from the disk.
Restart == known' = {} /\ tip' = NoHash

Next == (\E h \in Hash : Learn(h)) \/ Expire \/ Restart

Spec == Init /\ [][Next]_<<known, tip>>
===============================================================================
