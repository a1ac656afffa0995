---------------------------- MODULE MCConfirmations ----------------------------
(***************************************************************************)
(* Two branches of blocks that part above the first one: a2 and, in the    *)
(* deeper fork, a3 are left for b2, b3 and b4.                             *)
(***************************************************************************)
EXTENDS Confirmations

CONSTANTS a1, a2, a3, b2, b3, b4

MCBlock     == {a1, a2, b2, b3, b4}
MCDeepBlock == MCBlock \cup {a3}

ParentIn(S) == [b \in S |-> CASE b = a1 -> NoBlock
                              [] b \in {a2, b2} -> a1
                              [] b = a3 -> a2
                              [] b = b3 -> b2
                              [] b = b4 -> b3]

HeightIn(S) == [b \in S |-> CASE b = a1 -> 1
                              [] b \in {a2, b2} -> 2
                              [] b \in {a3, b3} -> 3
                              [] b = b4 -> 4]

MCParent     == ParentIn(MCBlock)
MCHeight     == HeightIn(MCBlock)
MCDeepParent == ParentIn(MCDeepBlock)
MCDeepHeight == HeightIn(MCDeepBlock)

=============================================================================
