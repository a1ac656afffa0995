------------------------------ MODULE MCFetching ------------------------------
(***************************************************************************)
(* Fetching on small instances: two peers, and over the first block 1 some *)
(* of the blocks 2 and 3, in a row, and 4, a fork beside 2.                *)
(***************************************************************************)
EXTENDS Fetching

CONSTANTS
  p1, p2,
  Above,                             \* the blocks above the first one
  ServedByFirst, ServedBySecond,     \* those that p1 and p2 serve
  AnnouncedByFirst, AnnouncedBySecond,
  CorruptedBySecond                  \* those for which p2 serves something else

MCPeer == {p1, p2}

IdOf(b) == CASE b = 1 -> 1 [] b \in {2, 4} -> 2 [] b = 3 -> 3

MCHeader   == {[id |-> IdOf(b), hash |-> b] : b \in Above}
MCId       == [b \in Above \cup {1} |-> IdOf(b)]
MCParent   == [b \in Above |-> IF b = 3 THEN 2 ELSE 1]
MCServes   == (p1 :> ServedByFirst) @@ (p2 :> ServedBySecond)
MCAnnounces == (p1 :> {h \in MCHeader : h.hash \in AnnouncedByFirst})
                 @@ (p2 :> {h \in MCHeader : h.hash \in AnnouncedBySecond})
MCCorrupts == (p1 :> {}) @@ (p2 :> CorruptedBySecond)
=============================================================================
