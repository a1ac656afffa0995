----------------------------- MODULE MCBlockchain -----------------------------
(***************************************************************************)
(* Small block trees for Blockchain.  A tree maps a block to its height and*)
(* its parent.  In every tree a block spends the coin its parent created   *)
(* and creates one of its own: one coin is always in circulation, and the  *)
(* coin has the name of the block that creates it.  "dust" is a further    *)
(* output of the first block that nobody spends.                           *)
(***************************************************************************)
EXTENDS Blockchain, TLC

MCNoHash == "none"

HashOf(tree)    == DOMAIN tree
IdOf(tree)      == [h \in DOMAIN tree |-> tree[h][1]]
ParentOf(tree)  == [h \in DOMAIN tree |-> tree[h][2]]
SpendsOf(tree)  == [h \in DOMAIN tree |-> {tree[h][2]} \ {"none"}]
CreatesOf(tree) == [h \in DOMAIN tree |-> {h}]
AmountOf(slips) == [S \in SUBSET slips |-> 10 * Cardinality(S)]
ForAll(tree, x) == [h \in DOMAIN tree |-> x]

-----------------------------------------------------------------------------
(* Blocks that fail: x2 does not validate and y2 cannot be read, both on   *)
(* top of a1; the branch of b4 lacks golden tickets.  The branch of b2 is  *)
(* the lighter one: being longer is not enough to win.                     *)

RejectTree ==
  [a1 |-> <<1, "none">>, a2 |-> <<2, "a1">>, a3 |-> <<3, "a2">>,
   b2 |-> <<2, "a1">>, b3 |-> <<3, "b2">>, b4 |-> <<4, "b3">>,
   x2 |-> <<2, "a1">>, y2 |-> <<2, "a1">>]

FirstOfReject      == {"a1"}
UnsoundOfReject    == {"x2"}
UngenerableOfReject == {"y2"}
TicketsOfReject    == {"a1", "a2", "a3", "x2", "y2"}
HashOfReject     == HashOf(RejectTree)
IdOfReject       == IdOf(RejectTree)
ParentOfReject   == ParentOf(RejectTree)
SpendsOfReject   == SpendsOf(RejectTree)
CreatesOfReject  == CreatesOf(RejectTree)
AmountOfReject   == AmountOf(HashOfReject)
ReservesOfReject == ForAll(RejectTree, 5)
NoCheckpointOfReject == ForAll(RejectTree, {})
BurnfeeOfReject  == [h \in HashOfReject |-> IF h \in {"b2", "b3"} THEN 1 ELSE 2]

-----------------------------------------------------------------------------
(* A chain longer than the ring, with a fork in a slot that is used again. *)

WindowTree ==
  [c1 |-> <<1, "none">>, c2 |-> <<2, "c1">>, c3 |-> <<3, "c2">>, c4 |-> <<4, "c3">>,
   c5 |-> <<5, "c4">>, c6 |-> <<6, "c5">>, c7 |-> <<7, "c6">>,
   d2 |-> <<2, "c1">>, d3 |-> <<3, "d2">>]

FirstOfWindow    == {"c1"}
HashOfWindow     == HashOf(WindowTree)
IdOfWindow       == IdOf(WindowTree)
ParentOfWindow   == ParentOf(WindowTree)
SpendsOfWindow   == SpendsOf(WindowTree)
SlipOfWindow     == HashOfWindow \cup {"dust"}
SlipIdOfWindow   == IdOf(WindowTree) @@ [dust |-> 1]
CreatesOfWindow  == [CreatesOf(WindowTree) EXCEPT !["c1"] = @ \cup {"dust"}]
AmountOfWindow   == AmountOf(SlipOfWindow)
ReservesOfWindow == [h \in HashOfWindow |-> IF IdOfWindow[h] > 3 THEN 15 ELSE 5]
NoCheckpointOfWindow == ForAll(WindowTree, {})
BurnfeeOfWindow  == ForAll(WindowTree, 1)

-----------------------------------------------------------------------------
(* A branch of two blocks against one, for what the code does not live up  *)
(* to: a reorganisation that fails after the older chain was unwound.  b2  *)
(* does not validate, which shows only when b3 makes its branch the longer.*)

ShortTree ==
  [a1 |-> <<1, "none">>, a2 |-> <<2, "a1">>, b2 |-> <<2, "a1">>, b3 |-> <<3, "b2">>]

HashOfShort     == HashOf(ShortTree)
IdOfShort       == IdOf(ShortTree)
ParentOfShort   == ParentOf(ShortTree)
SpendsOfShort   == SpendsOf(ShortTree)
CreatesOfShort  == CreatesOf(ShortTree)
AmountOfShort   == AmountOf(HashOfShort)
ReservesOfShort == ForAll(ShortTree, 5)
NoCheckpointOfShort == ForAll(ShortTree, {})
BurnfeeOfShort  == ForAll(ShortTree, 1)
FirstOfShort    == {"a1"}
FirstBad        == {"b2"}

-----------------------------------------------------------------------------
(* The checkpoint of b2 freezes the dust of a1, a3 does not validate.      *)

CheckpointTree ==
  [a1 |-> <<1, "none">>, a2 |-> <<2, "a1">>, a3 |-> <<3, "a2">>,
   b2 |-> <<2, "a1">>, b3 |-> <<3, "b2">>, b4 |-> <<4, "b3">>]

FirstOfCheckpoint    == {"a1"}
UnsoundOfCheckpoint  == {"a3"}
HashOfCheckpoint     == HashOf(CheckpointTree)
IdOfCheckpoint       == IdOf(CheckpointTree)
ParentOfCheckpoint   == ParentOf(CheckpointTree)
SpendsOfCheckpoint   == SpendsOf(CheckpointTree)
SlipOfCheckpoint     == HashOfCheckpoint \cup {"dust"}
SlipIdOfCheckpoint   == IdOfCheckpoint @@ [dust |-> 1]
CreatesOfCheckpoint  == [CreatesOf(CheckpointTree) EXCEPT !["a1"] = @ \cup {"dust"}]
AmountOfCheckpoint   == AmountOf(SlipOfCheckpoint)
CheckpointOfCheckpoint == [ForAll(CheckpointTree, {}) EXCEPT !["b2"] = {"dust"}]
BurnfeeOfCheckpoint  == ForAll(CheckpointTree, 1)

\* A block on top of a checkpoint carries the frozen tokens in its graveyard.
ReservesOfCheckpoint == [h \in HashOfCheckpoint |-> IF h \in {"b3", "b4"} THEN 15 ELSE 5]
=============================================================================
