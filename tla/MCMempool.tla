------------------------------- MODULE MCMempool -------------------------------
(***************************************************************************)
(* t1, which the wallet made, and t2 spend the same output.  Peers make    *)
(* block 2 with t1 on the first one, and beside it block 3 with two        *)
(* children, of which block 5 has t2.                                      *)
(***************************************************************************)
EXTENDS Mempool

CONSTANTS t1, t2, t3, s1, s2

MCTx     == {t1, t2, t3}
MCInputs == [t \in MCTx |-> IF t = t3 THEN {s2} ELSE {s1}]
MCMine   == {t1}

Made(id, parent, lineage, txs, ticket) ==
  [id |-> id, parent |-> parent, lineage |-> lineage, txs |-> txs, ticket |-> ticket,
   mine |-> FALSE, valid |-> TRUE]

MCPeerBlocks == << Made(1, 0, {1}, {}, FALSE),
                   Made(2, 1, {1, 2}, {t1}, TRUE),
                   Made(2, 1, {1, 3}, {}, TRUE),
                   Made(3, 3, {1, 3, 4}, {t3}, FALSE),
                   Made(3, 3, {1, 3, 5}, {t2}, FALSE) >>

=============================================================================
