----------------------------- MODULE MempoolProofs -----------------------------
(***************************************************************************)
(* The types of the mempool's variables, four of its invariants and the    *)
(* action property LeavesForAReason, for every tree of peers' blocks, any  *)
(* transactions and any number of blocks of this node that fail.           *)
(*                                                                         *)
(* That pooled transactions can be spent is inductive with the types.      *)
(* That they do not conflict rests on the marks: an output that a pooled   *)
(* transaction spends is in utxo_map unless the transaction was put back,  *)
(* and what is collected from an unwound chain has no output in common     *)
(* because no chain of valid blocks spends one twice, and the longest one  *)
(* is a chain of valid blocks.  That the miner is at the tip holds in the  *)
(* midst of a batch too.                                                   *)
(***************************************************************************)
EXTENDS Mempool, TLAPS

\* No chain of blocks that validate spends an output twice.
IsValidChain(h) == \A c \in made[h].lineage : made[c].valid
ChainsAreDisjoint == \A h \in Hash : IsValidChain(h) => AreDisjoint(TxsOf(made[h].lineage))

\* The longest chain is one of them.
TipIsValid == IsValidChain(tip)

\* What the pool holds is marked, but for what was put back.
PooledAreMarked == \A t \in pool.transactions \ returned : Inputs[t] \subseteq pool.utxo_map

-----------------------------------------------------------------------------
(* The operations of the pool *)

LEMMA AddTransactionsFields ==
  ASSUME NEW p \in Pool, NEW T \in SUBSET Tx
  PROVE  /\ AddTransactions(p, T) \in Pool
         /\ AddTransactions(p, T).transactions = p.transactions \cup T
         /\ AddTransactions(p, T).utxo_map = p.utxo_map \cup InputsOf(T)
         /\ AddTransactions(p, T).new_tx_added = (p.new_tx_added \/ T # {})
         /\ AddTransactions(p, T).golden_tickets = p.golden_tickets
<1>1. Inputs \in [Tx -> SUBSET Slip] BY MempoolAssumption
<1>2. InputsOf(T) \subseteq Slip BY <1>1 DEF InputsOf
<1>3. CASE T = {} BY <1>3 DEF AddTransactions, InputsOf, Pool
<1>4. CASE T # {} BY <1>2, <1>4 DEF AddTransactions, Pool
<1>5. QED BY <1>3, <1>4

LEMMA DeleteTransactionsFields ==
  ASSUME NEW p \in Pool, NEW B
  PROVE  /\ DeleteTransactions(p, B) \in Pool
         /\ DeleteTransactions(p, B).transactions = p.transactions \ TxsOf(B)
         /\ DeleteTransactions(p, B).utxo_map = p.utxo_map
         /\ DeleteTransactions(p, B).new_tx_added = p.new_tx_added
BY DEF DeleteTransactions, Pool

\* What is left when a block was added can be spent on the chain that ends in h.
LEMMA RemoveBlockTransactionsFields ==
  ASSUME NEW p \in Pool, NEW b, NEW h
  PROVE  /\ RemoveBlockTransactions(p, b, h) \in Pool
         /\ RemoveBlockTransactions(p, b, h).transactions \subseteq p.transactions
         /\ \A t \in RemoveBlockTransactions(p, b, h).transactions : IsSpendableAt(t, h)
         /\ RemoveBlockTransactions(p, b, h).utxo_map = p.utxo_map
         /\ RemoveBlockTransactions(p, b, h).new_tx_added = p.new_tx_added
<1> DEFINE q == [p EXCEPT !.transactions = {t \in @ : IsSpendableAt(t, h)}]
<1>1. /\ q \in Pool /\ q.transactions = {t \in p.transactions : IsSpendableAt(t, h)}
      /\ q.utxo_map = p.utxo_map /\ q.new_tx_added = p.new_tx_added
  BY DEF Pool
<1>2. RemoveBlockTransactions(p, b, h) = DeleteTransactions(q, {b}) BY DEF RemoveBlockTransactions
<1> HIDE DEF q
<1>3. QED BY <1>1, <1>2, DeleteTransactionsFields

\* What is collected from the unwound blocks was refused by nothing.
Collected(p, B) == {t \in Tx : /\ \E b \in B : t \in made[b].txs /\ IsCollected(t, b)
                               /\ ~ IsRefused(p, t)}

LEMMA CollectDiscardedFields ==
  ASSUME NEW p \in Pool, NEW B
  PROVE  /\ CollectDiscarded(p, B) \in Pool
         /\ CollectDiscarded(p, B).transactions = p.transactions \cup Collected(p, B)
         /\ CollectDiscarded(p, B).utxo_map = p.utxo_map \cup InputsOf(Collected(p, B))
         /\ CollectDiscarded(p, B).new_tx_added = (p.new_tx_added \/ Collected(p, B) # {})
<1>1. Collected(p, B) \in SUBSET Tx BY DEF Collected
<1>2. CollectDiscarded(p, B) = AddTransactions(p, Collected(p, B))
  BY DEF CollectDiscarded, Collected
<1>3. QED BY <1>1, <1>2, AddTransactionsFields

\* The pool after the chain has moved to b.
Moved(b) == RemoveBlockTransactions(
              DeleteTransactions(CollectDiscarded(pool, Unwound(b)), Wound(b)), b, b)

LEMMA MovedFields ==
  ASSUME pool \in Pool, NEW b
  PROVE  LET C == Collected(pool, Unwound(b)) IN
         /\ Moved(b) \in Pool
         /\ Moved(b).transactions \subseteq pool.transactions \cup C
         /\ \A t \in Moved(b).transactions : IsSpendableAt(t, b)
         /\ Moved(b).utxo_map = pool.utxo_map \cup InputsOf(C)
         /\ Moved(b).new_tx_added = (pool.new_tx_added \/ C # {})
<1> DEFINE p == CollectDiscarded(pool, Unwound(b))
           q == DeleteTransactions(p, Wound(b))
<1>1. p \in Pool BY CollectDiscardedFields
<1>2. q \in Pool /\ q.transactions \subseteq p.transactions /\ q.utxo_map = p.utxo_map
      /\ q.new_tx_added = p.new_tx_added
  BY <1>1, DeleteTransactionsFields
<1>3. Moved(b) = RemoveBlockTransactions(q, b, b) BY DEF Moved
<1> HIDE DEF q
<1>4. /\ Moved(b) \in Pool /\ Moved(b).transactions \subseteq q.transactions
      /\ \A t \in Moved(b).transactions : IsSpendableAt(t, b)
      /\ Moved(b).utxo_map = q.utxo_map /\ Moved(b).new_tx_added = q.new_tx_added
  BY <1>2, <1>3, RemoveBlockTransactionsFields
<1>5. QED BY <1>2, <1>4, CollectDiscardedFields

\* What bundle_block takes in first.
TakenIn(T) == AddTransactions(pool, T)

LEMMA AdmissibleIsTaken ==
  ASSUME pool \in Pool, NEW T \in SUBSET Tx, TakeIn(T)
  PROVE  /\ TakenIn(T) \in Pool
         /\ TakenIn(T).transactions = pool.transactions \cup T
         /\ TakenIn(T).utxo_map = pool.utxo_map \cup InputsOf(T)
         /\ TakenIn(T).new_tx_added = (pool.new_tx_added \/ T # {})
         /\ AreDisjoint(T) /\ \A t \in T : IsSpendable(t) /\ Inputs[t] \cap pool.utxo_map = {}
<1>1. AreDisjoint(T) /\ \A t \in T : IsSpendable(t) /\ Inputs[t] \cap pool.utxo_map = {}
  BY DEF TakeIn, Admissible, IsRefused
<1>2. QED BY <1>1, AddTransactionsFields DEF TakenIn

-----------------------------------------------------------------------------
(* The types *)

LEMMA TypeInit == Init => TypeOK
<1> SUFFICES ASSUME Init PROVE TypeOK OBVIOUS
<1> USE DEF Init
<1>1. PeerBlocks \in Seq(Block) /\ PeerBlocks # <<>> BY MempoolAssumption
<1>2. 1 \in DOMAIN PeerBlocks BY <1>1
<1>3. ASSUME NEW h \in DOMAIN PeerBlocks PROVE PeerBlocks[h].lineage \subseteq DOMAIN PeerBlocks
  <2>1. PeerBlocks[h].lineage \subseteq 1..h BY MempoolAssumption
  <2>2. h \in 1..Len(PeerBlocks) /\ DOMAIN PeerBlocks = 1..Len(PeerBlocks) BY <1>1
  <2>3. QED BY <2>1, <2>2
<1>4. QED BY <1>1, <1>2, <1>3 DEF TypeOK, Hash, Pool, EmptyPool

\* A block that this node makes is a block, and its lineage ends in it.
LEMMA NewBlockType ==
  ASSUME TypeOK, NEW txs \in SUBSET Tx, NEW ticket \in BOOLEAN, NEW valid \in BOOLEAN
  PROVE  LET n == NewBlock(txs, ticket, valid) IN
         /\ n \in Block /\ n.txs = txs /\ n.valid = valid
         /\ n.lineage = made[tip].lineage \cup {Len(made) + 1}
<1>1. made \in Seq(Block) /\ tip \in DOMAIN made BY DEF TypeOK, Hash
<1>2. made[tip] \in Block /\ tip \in Nat /\ Len(made) + 1 \in Nat BY <1>1
<1>3. made[tip].id + 1 \in Nat \ {0} /\ made[tip].lineage \subseteq Nat BY <1>2 DEF Block
<1>4. QED BY <1>2, <1>3 DEF NewBlock, Block

\* What Append does to a tree of blocks.
LEMMA Appended ==
  ASSUME made \in Seq(Block), NEW n \in Block, made' = Append(made, n)
  PROVE  /\ made' \in Seq(Block) /\ Hash' = Hash \cup {Len(made) + 1}
         /\ Len(made) + 1 \notin Hash
         /\ made'[Len(made) + 1] = n
         /\ \A h \in Hash : made'[h] = made[h]
BY DEF Hash

\* The parts of a step that makes a block.
LEMMA BundleBlockStep ==
  ASSUME TypeOK, NEW T \in SUBSET Tx, BundleBlock(T)
  PROVE  \E valid \in BOOLEAN :
           LET txs == TakenIn(T).transactions
               n == NewBlock(txs, HasTicket, valid)
           IN /\ txs \in SUBSET Tx /\ AreDisjoint(txs)
              /\ valid => \A t \in txs : IsSpendable(t)
              /\ n \in Block /\ n.txs = txs /\ n.valid = valid
              /\ n.lineage = made[tip].lineage \cup {Len(made) + 1}
              /\ made' = Append(made, n)
<1> DEFINE txs == TakenIn(T).transactions
<1>1. PICK valid \in BOOLEAN : /\ valid => \A t \in txs : IsSpendable(t)
                               /\ made' = Append(made, NewBlock(txs, HasTicket, valid))
  BY DEF BundleBlock, TakenIn
<1>2. TakeIn(T) /\ AreDisjoint(txs) BY DEF BundleBlock, TakenIn
<1>3. txs \in SUBSET Tx BY <1>2, AdmissibleIsTaken DEF TypeOK, Pool
<1>4. HasTicket \in BOOLEAN BY DEF HasTicket
<1> HIDE DEF txs
<1>5. LET n == NewBlock(txs, HasTicket, valid) IN
        /\ n \in Block /\ n.txs = txs /\ n.valid = valid
        /\ n.lineage = made[tip].lineage \cup {Len(made) + 1}
  BY <1>3, <1>4, NewBlockType
<1>6. QED BY <1>1, <1>2, <1>3, <1>5 DEF txs

LEMMA BundledFields ==
  ASSUME NEW p \in Pool
  PROVE  Bundled(p) \in Pool /\ Bundled(p).transactions = {}
BY DEF Bundled, Pool

\* Every step keeps the types.
LEMMA TypeNext == TypeOK /\ [Next]_vars => TypeOK'
<1> SUFFICES ASSUME TypeOK, [Next]_vars PROVE TypeOK' OBVIOUS
<1>0. pool \in Pool /\ made \in Seq(Block) /\ tip \in Hash BY DEF TypeOK
<1>1. CASE NewGoldenTicket
  <2>1. pool' \in Pool /\ pool'.transactions = pool.transactions
    BY <1>0, <1>1 DEF NewGoldenTicket, TypeOK, Pool, networkVars, Hash
  <2>2. miner' \in [active : BOOLEAN, target : Hash] BY <1>1 DEF NewGoldenTicket, TypeOK
  <2>3. QED BY <1>1, <2>1, <2>2
        DEF NewGoldenTicket, TypeOK, networkVars, chainVars, Hash, Pool
<1>2. CASE \E t \in Tx : NewTransaction(t)
  BY <1>2 DEF NewTransaction, TypeOK, networkVars, chainVars, Hash, Pool
<1>3. CASE \E b \in fetching : BlockFetched(b)
  BY <1>3 DEF BlockFetched, TypeOK, chainVars, Hash, Pool
<1>4. ASSUME NEW T \in SUBSET Tx, BundleWaits(T) PROVE TypeOK'
  <2>1. pool' = TakenIn(T) /\ TakeIn(T) BY <1>4 DEF BundleWaits, TakenIn
  <2>2. pool' \in Pool /\ pool.transactions \subseteq pool'.transactions
    BY <1>0, <2>1, AdmissibleIsTaken
  <2>3. QED BY <1>4, <2>2 DEF BundleWaits, TakeIn, TypeOK, networkVars, chainVars, Hash, Pool
<1>5. ASSUME NEW T \in SUBSET Tx, BundleFails(T) PROVE TypeOK'
  <2>1. pool' = [TakenIn(T) EXCEPT !.transactions = {}] /\ TakeIn(T)
    BY <1>5 DEF BundleFails, TakenIn
  <2>2. pool' \in Pool BY <1>0, <2>1, AdmissibleIsTaken DEF Pool
  <2>3. QED BY <1>5, <2>2 DEF BundleFails, TakeIn, TypeOK, networkVars, chainVars, Hash, Pool
<1>6. ASSUME NEW T \in SUBSET Tx, BundleBlock(T) PROVE TypeOK'
  <2>1. PICK n \in Block : /\ made' = Append(made, n)
                           /\ n.lineage = made[tip].lineage \cup {Len(made) + 1}
    BY <1>6, BundleBlockStep
  <2>2. /\ made' \in Seq(Block) /\ Hash' = Hash \cup {Len(made) + 1}
        /\ made'[Len(made) + 1] = n /\ \A h \in Hash : made'[h] = made[h]
    BY <1>0, <2>1, Appended
  <2>3. \A h \in Hash' : made'[h].lineage \subseteq Hash' BY <1>0, <2>1, <2>2 DEF TypeOK
  <2>4. pool' = Bundled(TakenIn(T)) /\ TakeIn(T) BY <1>6 DEF BundleBlock, TakenIn
  <2>5. pool' \in Pool BY <1>0, <2>4, AdmissibleIsTaken, BundledFields
  <2>6. pool' \in Pool' BY <2>2, <2>5 DEF Pool
  <2>7. batch' = {Len(made) + 1} /\ returned' = {} BY <1>6 DEF BundleBlock
  <2>8. UNCHANGED <<fetching, chainVars, blocks_queue, miner, passed_over>>
        /\ txs_for_mempool' = {}
    BY <1>6 DEF BundleBlock, TakeIn
  <2>9. QED BY <2>2, <2>3, <2>6, <2>7, <2>8 DEF TypeOK, chainVars
<1>7. ASSUME NEW b \in batch, AddLater(b) PROVE TypeOK'
  BY <1>7 DEF AddLater, TypeOK, networkVars, chainVars, Hash, Pool
<1>8. ASSUME NEW b \in batch, AddToLongestChain(b) PROVE TypeOK'
  <2>1. pool' = Moved(b) BY <1>8 DEF AddToLongestChain, Moved
  <2>2. pool' \in Pool BY <1>0, <2>1, MovedFields
  <2>3. b \in Hash BY DEF TypeOK
  <2>4. miner' \in [active : BOOLEAN, target : Hash] /\ passed_over' \in BOOLEAN
    <3>1. TellMiner(b) BY <1>8 DEF AddToLongestChain
    <3>2. miner \in [active : BOOLEAN, target : Hash] BY DEF TypeOK
    <3>3. miner' \in {miner, [active |-> TRUE, target |-> b]} /\ passed_over' \in {TRUE, FALSE}
      BY <3>1 DEF TellMiner
    <3>4. [active |-> TRUE, target |-> b] \in [active : BOOLEAN, target : Hash] BY <2>3
    <3>5. QED BY <3>2, <3>3, <3>4
  <2>5. UNCHANGED <<networkVars, blocks_queue, txs_for_mempool>> /\ tip' = b
        /\ blocks' = blocks \cup {b} /\ batch' = batch \ {b}
        /\ returned' = returned \cap pool'.transactions
    BY <1>8 DEF AddToLongestChain
  <2>6. QED BY <2>2, <2>3, <2>4, <2>5 DEF TypeOK, networkVars, Hash, Pool
<1>9. ASSUME NEW b \in batch, AddToFork(b) PROVE TypeOK'
  <2>1. pool' \in Pool
    BY <1>0, <1>9, RemoveBlockTransactionsFields DEF AddToFork
  <2>2. QED BY <1>9, <2>1 DEF AddToFork, TypeOK, networkVars, Hash, Pool
<1>10. ASSUME NEW b \in batch, AddFails(b) PROVE TypeOK'
  <2>1. PICK back \in SUBSET made[b].txs :
          /\ pool' = PutBack([pool EXCEPT !.golden_tickets = @ \ {b}], back)
          /\ returned' = returned \cup back
    BY <1>10 DEF AddFails
  <2>2. made[b] \in Block BY <1>0 DEF TypeOK, Hash
  <2>3. back \subseteq Tx BY <2>2 DEF Block
  <2>4. pool' \in Pool /\ pool'.transactions = pool.transactions \cup back
    BY <1>0, <2>1, <2>3 DEF PutBack, Pool
  <2>5. QED BY <1>10, <2>1, <2>4 DEF AddFails, TypeOK, networkVars, chainVars, Hash, Pool
<1>11. CASE UNCHANGED vars
  BY <1>11 DEF vars, networkVars, chainVars, TypeOK, Hash, Pool
<1>12. QED
  BY <1>1, <1>2, <1>3, <1>4, <1>5, <1>6, <1>7, <1>8, <1>9, <1>10, <1>11 DEF Next, AddBlock

\* Every variable has its type.
THEOREM TypeCorrect == Spec => []TypeOK
<1>1. Init => TypeOK BY TypeInit
<1>2. TypeOK /\ [Next]_vars => TypeOK' BY TypeNext
<1>3. QED BY <1>1, <1>2, PTL DEF Spec


-----------------------------------------------------------------------------
(* What the pool holds can be spent, and is new                            *)

\* A step that neither makes a block nor moves the tip changes nothing of what can be spent.
LEMMA SpendableKept ==
  ASSUME UNCHANGED <<made, tip>>, NEW t
  PROVE  IsSpendable(t)' <=> IsSpendable(t)
BY DEF IsSpendable, IsSpendableAt, TxsOf


\* Every step keeps it that what the pool holds can be spent.
LEMMA SpendableNext ==
  TypeOK /\ PooledAreSpendable /\ [Next]_vars => PooledAreSpendable'
<1> SUFFICES ASSUME TypeOK, PooledAreSpendable, [Next]_vars PROVE PooledAreSpendable' OBVIOUS
<1>0. pool \in Pool BY DEF TypeOK
<1>1. ASSUME UNCHANGED <<made, tip>>,
             \A t \in pool'.transactions : t \in pool.transactions \/ IsSpendable(t)
      PROVE  PooledAreSpendable'
  BY <1>1, SpendableKept DEF PooledAreSpendable
<1>2. CASE NewGoldenTicket
  <2>1. pool'.transactions = pool.transactions BY <1>0, <1>2 DEF NewGoldenTicket, Pool
  <2>2. QED BY <1>1, <1>2, <2>1 DEF NewGoldenTicket, networkVars, chainVars
<1>3. CASE \E t \in Tx : NewTransaction(t)
  BY <1>1, <1>3 DEF NewTransaction, networkVars, chainVars
<1>4. CASE \E b \in fetching : BlockFetched(b)
  BY <1>1, <1>4 DEF BlockFetched, chainVars
<1>5. ASSUME NEW T \in SUBSET Tx, BundleWaits(T) PROVE PooledAreSpendable'
  <2>1. pool' = TakenIn(T) /\ TakeIn(T) BY <1>5 DEF BundleWaits, TakenIn
  <2>2. QED BY <1>0, <1>1, <1>5, <2>1, AdmissibleIsTaken DEF BundleWaits, networkVars, chainVars
<1>6. ASSUME NEW T \in SUBSET Tx, BundleFails(T) PROVE PooledAreSpendable'
  <2>1. pool' = [TakenIn(T) EXCEPT !.transactions = {}] /\ TakeIn(T)
    BY <1>6 DEF BundleFails, TakenIn
  <2>2. pool'.transactions = {} BY <1>0, <2>1, AdmissibleIsTaken DEF Pool
  <2>3. QED BY <2>2 DEF PooledAreSpendable
<1>7. ASSUME NEW T \in SUBSET Tx, BundleBlock(T) PROVE PooledAreSpendable'
  <2>1. pool' = Bundled(TakenIn(T)) /\ TakeIn(T) BY <1>7 DEF BundleBlock, TakenIn
  <2>2. pool'.transactions = {} BY <1>0, <2>1, AdmissibleIsTaken, BundledFields
  <2>3. QED BY <2>2 DEF PooledAreSpendable
<1>8. ASSUME NEW b \in batch, AddLater(b) PROVE PooledAreSpendable'
  BY <1>1, <1>8 DEF AddLater, networkVars, chainVars
<1>9. ASSUME NEW b \in batch, AddToLongestChain(b) PROVE PooledAreSpendable'
  <2>1. pool' = Moved(b) /\ tip' = b /\ made' = made
    BY <1>9 DEF AddToLongestChain, Moved, networkVars
  <2>2. \A t \in pool'.transactions : IsSpendableAt(t, b) BY <1>0, <2>1, MovedFields
  <2>3. QED BY <2>1, <2>2 DEF PooledAreSpendable, IsSpendable, IsSpendableAt, TxsOf
<1>10. ASSUME NEW b \in batch, AddToFork(b) PROVE PooledAreSpendable'
  <2>1. pool' = RemoveBlockTransactions(pool, b, tip) BY <1>10 DEF AddToFork
  <2>2. pool'.transactions \subseteq pool.transactions
    BY <1>0, <2>1, RemoveBlockTransactionsFields
  <2>3. QED BY <1>1, <1>10, <2>2 DEF AddToFork, networkVars
<1>11. ASSUME NEW b \in batch, AddFails(b) PROVE PooledAreSpendable'
  <2>1. pool'.transactions = pool.transactions \cup {t \in made[b].txs : IsSpendable(t)}
    BY <1>0, <1>11 DEF AddFails, PutBack, Pool
  <2>2. QED BY <1>1, <1>11, <2>1 DEF AddFails, networkVars, chainVars
<1>12. CASE UNCHANGED vars
  BY <1>1, <1>12 DEF vars, networkVars, chainVars
<1>13. QED
  BY <1>2, <1>3, <1>4, <1>5, <1>6, <1>7, <1>8, <1>9, <1>10, <1>11, <1>12 DEF Next, AddBlock

\* Whatever blocks are added, wound and unwound, what waits in the pool can be spent on the
\* longest chain (remove_block_transactions, blockchain.rs:968).
THEOREM PooledAreSpendableAlways == Spec => []PooledAreSpendable
<1>1. Init => TypeOK /\ PooledAreSpendable
  BY TypeInit DEF Init, PooledAreSpendable, EmptyPool
<1>2. TypeOK /\ PooledAreSpendable /\ [Next]_vars => TypeOK' /\ PooledAreSpendable'
  BY TypeNext, SpendableNext
<1>3. QED BY <1>1, <1>2, PTL DEF Spec

\* Every step keeps it that a pool that is not empty is new.
LEMMA NewNext == TypeOK /\ PoolIsNew /\ [Next]_vars => PoolIsNew'
<1> SUFFICES ASSUME TypeOK, PoolIsNew, [Next]_vars PROVE PoolIsNew' OBVIOUS
<1>0. pool \in Pool BY DEF TypeOK
<1>1. CASE pool'.transactions \subseteq pool.transactions /\ pool'.new_tx_added = pool.new_tx_added
  BY <1>1 DEF PoolIsNew
<1>2. CASE pool'.transactions = {} BY <1>2 DEF PoolIsNew
<1>3. CASE NewGoldenTicket BY <1>0, <1>1, <1>3 DEF NewGoldenTicket, Pool
<1>4. CASE \E t \in Tx : NewTransaction(t) BY <1>1, <1>4 DEF NewTransaction
<1>5. CASE \E b \in fetching : BlockFetched(b) BY <1>1, <1>5 DEF BlockFetched
<1>6. ASSUME NEW T \in SUBSET Tx, BundleWaits(T) PROVE PoolIsNew'
  <2>1. pool' = TakenIn(T) /\ TakeIn(T) BY <1>6 DEF BundleWaits, TakenIn
  <2>2. QED BY <1>0, <2>1, AdmissibleIsTaken DEF PoolIsNew
<1>7. ASSUME NEW T \in SUBSET Tx, BundleFails(T) PROVE PoolIsNew'
  <2>1. pool' = [TakenIn(T) EXCEPT !.transactions = {}] /\ TakeIn(T)
    BY <1>7 DEF BundleFails, TakenIn
  <2>2. QED BY <1>0, <1>2, <2>1, AdmissibleIsTaken DEF Pool
<1>8. ASSUME NEW T \in SUBSET Tx, BundleBlock(T) PROVE PoolIsNew'
  <2>1. pool' = Bundled(TakenIn(T)) /\ TakeIn(T) BY <1>8 DEF BundleBlock, TakenIn
  <2>2. QED BY <1>0, <1>2, <2>1, AdmissibleIsTaken, BundledFields
<1>9. ASSUME NEW b \in batch, AddLater(b) PROVE PoolIsNew' BY <1>1, <1>9 DEF AddLater
<1>10. ASSUME NEW b \in batch, AddToLongestChain(b) PROVE PoolIsNew'
  <2>1. pool' = Moved(b) BY <1>10 DEF AddToLongestChain, Moved
  <2>2. QED BY <1>0, <2>1, MovedFields DEF PoolIsNew
<1>11. ASSUME NEW b \in batch, AddToFork(b) PROVE PoolIsNew'
  <2>1. pool' = RemoveBlockTransactions(pool, b, tip) BY <1>11 DEF AddToFork
  <2>2. QED BY <1>0, <1>1, <2>1, RemoveBlockTransactionsFields
<1>12. ASSUME NEW b \in batch, AddFails(b) PROVE PoolIsNew'
  <2>1. pool'.new_tx_added = TRUE BY <1>0, <1>12 DEF AddFails, PutBack, Pool
  <2>2. QED BY <2>1 DEF PoolIsNew
<1>13. CASE UNCHANGED vars BY <1>1, <1>13 DEF vars
<1>14. QED
  BY <1>3, <1>4, <1>5, <1>6, <1>7, <1>8, <1>9, <1>10, <1>11, <1>12, <1>13 DEF Next, AddBlock

\* new_tx_added, which can_bundle_block asks for, is never left behind (mempool.rs:332).
THEOREM PoolIsNewAlways == Spec => []PoolIsNew
<1>1. Init => TypeOK /\ PoolIsNew BY TypeInit DEF Init, PoolIsNew, EmptyPool
<1>2. TypeOK /\ PoolIsNew /\ [Next]_vars => TypeOK' /\ PoolIsNew' BY TypeNext, NewNext
<1>3. QED BY <1>1, <1>2, PTL DEF Spec


-----------------------------------------------------------------------------
(* The chains: no output is spent twice on one that validates              *)

LEMMA ChainsInit == Init => ChainsAreDisjoint /\ TipIsValid
<1> SUFFICES ASSUME Init PROVE ChainsAreDisjoint /\ TipIsValid OBVIOUS
<1>1. made = PeerBlocks /\ tip = 1 /\ PeerBlocks # <<>> /\ PeerBlocks \in Seq(Block)
  BY MempoolAssumption DEF Init
<1>2. 1 \in DOMAIN PeerBlocks BY <1>1
<1>3. \A h \in DOMAIN PeerBlocks :
        AreDisjoint(UNION {PeerBlocks[g].txs : g \in PeerBlocks[h].lineage})
  BY MempoolAssumption
<1>4. PeerBlocks[1].lineage = {1} /\ PeerBlocks[1].valid BY <1>2, MempoolAssumption
<1>5. ChainsAreDisjoint BY <1>1, <1>3 DEF ChainsAreDisjoint, Hash, TxsOf
<1>6. TipIsValid BY <1>1, <1>4 DEF TipIsValid, IsValidChain
<1>7. QED BY <1>5, <1>6

\* Only a block of this node makes a chain longer, and only one that validates may be the tip.
LEMMA ChainsNext ==
  TypeOK /\ ChainsAreDisjoint /\ TipIsValid /\ [Next]_vars => ChainsAreDisjoint' /\ TipIsValid'
<1> SUFFICES ASSUME TypeOK, ChainsAreDisjoint, TipIsValid, [Next]_vars
             PROVE  ChainsAreDisjoint' /\ TipIsValid'
  OBVIOUS
<1>0. made \in Seq(Block) /\ tip \in Hash /\ \A h \in Hash : made[h].lineage \subseteq Hash
  BY DEF TypeOK
<1>1. CASE UNCHANGED <<made, tip>>
  BY <1>1 DEF ChainsAreDisjoint, TipIsValid, IsValidChain, TxsOf, Hash
<1>2. ASSUME NEW T \in SUBSET Tx, BundleBlock(T) PROVE ChainsAreDisjoint' /\ TipIsValid'
  <2>0. PICK m : m = Len(made) + 1 OBVIOUS
  <2>1. PICK n \in Block, txs \in SUBSET Tx :
          /\ AreDisjoint(txs) /\ n.txs = txs
          /\ n.valid => \A t \in txs : IsSpendable(t)
          /\ n.lineage = made[tip].lineage \cup {m}
          /\ made' = Append(made, n)
    BY <1>2, <2>0, BundleBlockStep
  <2>2. /\ Hash' = Hash \cup {m} /\ m \notin Hash
        /\ made'[m] = n /\ \A h \in Hash : made'[h] = made[h]
    BY <1>0, <2>0, <2>1, Appended
  <2>3. ASSUME NEW h \in Hash, IsValidChain(h)' PROVE AreDisjoint(TxsOf(made[h].lineage))'
    <3>1. made'[h] = made[h] /\ made[h].lineage \subseteq Hash BY <1>0, <2>2
    <3>2. IsValidChain(h) BY <2>2, <2>3, <3>1 DEF IsValidChain
    <3>3. \A c \in made[h].lineage : made'[c].txs = made[c].txs BY <2>2, <3>1
    <3>4. TxsOf(made[h].lineage)' \subseteq TxsOf(made[h].lineage) BY <3>1, <3>3 DEF TxsOf
    <3>5. AreDisjoint(TxsOf(made[h].lineage)) BY <3>2 DEF ChainsAreDisjoint
    <3>6. QED BY <3>4, <3>5 DEF AreDisjoint
  <2>4. ASSUME IsValidChain(m)' PROVE AreDisjoint(TxsOf(made[m].lineage))'
    <3>1. made'[m] = n /\ m \in n.lineage BY <2>1, <2>2
    <3>2. n.valid BY <2>4, <3>1 DEF IsValidChain
    <3>3. \A c \in made[tip].lineage : made'[c].txs = made[c].txs BY <1>0, <2>2
    <3>4. TxsOf(made[m].lineage)' \subseteq TxsOf(made[tip].lineage) \cup txs
      <4>1. TxsOf(made[m].lineage)' = UNION {made'[c].txs : c \in made'[m].lineage} BY DEF TxsOf
      <4>2. SUFFICES ASSUME NEW c \in n.lineage
                     PROVE  made'[c].txs \subseteq TxsOf(made[tip].lineage) \cup txs
        BY <3>1, <4>1
      <4>3. CASE c = m BY <2>1, <3>1, <4>3
      <4>4. CASE c \in made[tip].lineage BY <3>3, <4>4 DEF TxsOf
      <4>5. QED BY <2>1, <4>2, <4>3, <4>4
    <3>5. AreDisjoint(TxsOf(made[tip].lineage)) BY <1>0 DEF ChainsAreDisjoint, TipIsValid
    <3>6. \A t \in txs : \A u \in TxsOf(made[tip].lineage) : Inputs[t] \cap Inputs[u] = {}
      BY <2>1, <3>2 DEF IsSpendable, IsSpendableAt
    <3>7. QED BY <2>1, <3>4, <3>5, <3>6 DEF AreDisjoint
  <2>5. ChainsAreDisjoint' BY <2>2, <2>3, <2>4 DEF ChainsAreDisjoint
  <2>6. tip' = tip BY <1>2 DEF BundleBlock, chainVars
  <2>7. TipIsValid' BY <1>0, <2>2, <2>6 DEF TipIsValid, IsValidChain
  <2>8. QED BY <2>5, <2>7
<1>3. ASSUME NEW b \in batch, AddToLongestChain(b) PROVE ChainsAreDisjoint' /\ TipIsValid'
  <2>1. made' = made /\ tip' = b /\ \A c \in Wound(b) : made[c].valid
    BY <1>3 DEF AddToLongestChain, networkVars
  <2>2. ChainsAreDisjoint' BY <2>1 DEF ChainsAreDisjoint, IsValidChain, TxsOf, Hash
  <2>3. IsValidChain(b) BY <2>1 DEF IsValidChain, TipIsValid, Wound
  <2>4. TipIsValid' BY <2>1, <2>3 DEF TipIsValid, IsValidChain
  <2>5. QED BY <2>2, <2>4
<1>4. CASE NewGoldenTicket BY <1>1, <1>4 DEF NewGoldenTicket, networkVars, chainVars
<1>5. CASE \E t \in Tx : NewTransaction(t)
  BY <1>1, <1>5 DEF NewTransaction, networkVars, chainVars
<1>6. CASE \E b \in fetching : BlockFetched(b) BY <1>1, <1>6 DEF BlockFetched, chainVars
<1>7. ASSUME NEW T \in SUBSET Tx, BundleWaits(T) \/ BundleFails(T)
      PROVE  ChainsAreDisjoint' /\ TipIsValid'
  BY <1>1, <1>7 DEF BundleWaits, BundleFails, networkVars, chainVars
<1>8. ASSUME NEW b \in batch, AddLater(b) \/ AddToFork(b) \/ AddFails(b)
      PROVE  ChainsAreDisjoint' /\ TipIsValid'
  BY <1>1, <1>8 DEF AddLater, AddToFork, AddFails, networkVars, chainVars
<1>9. CASE UNCHANGED vars BY <1>1, <1>9 DEF vars, networkVars, chainVars
<1>10. QED
  BY <1>2, <1>3, <1>4, <1>5, <1>6, <1>7, <1>8, <1>9 DEF Next, AddBlock

-----------------------------------------------------------------------------
(* The marks keep the pooled transactions apart                            *)

ConflictInv == TypeOK /\ ChainsAreDisjoint /\ TipIsValid /\ PooledAreMarked
               /\ PooledDoNotConflict

\* Two sets of transactions that are kept apart by the marks of one of them.
LEMMA UnionIsDisjoint ==
  ASSUME NEW A, NEW C, AreDisjoint(A), AreDisjoint(C), NEW M,
         \A t \in A : Inputs[t] \subseteq M, \A t \in C : Inputs[t] \cap M = {}
  PROVE  AreDisjoint(A \cup C)
<1>1. \A t \in A, u \in C : Inputs[t] \cap Inputs[u] = {} OBVIOUS
<1>2. QED BY <1>1 DEF AreDisjoint

\* What was marked stays marked, and what comes to the pool is marked and was not before.
LEMMA ConflictKept ==
  ASSUME PooledAreMarked, PooledDoNotConflict, NEW C, AreDisjoint(C),
         \A t \in C : Inputs[t] \cap pool.utxo_map = {},
         pool'.transactions \ returned' \subseteq (pool.transactions \ returned) \cup C,
         pool'.utxo_map = pool.utxo_map \cup InputsOf(C)
  PROVE  PooledAreMarked' /\ PooledDoNotConflict'
<1> DEFINE A == pool.transactions \ returned
<1>1. AreDisjoint(A) /\ \A t \in A : Inputs[t] \subseteq pool.utxo_map
  BY DEF PooledAreMarked, PooledDoNotConflict
<1> HIDE DEF A
<1>2. AreDisjoint(A \cup C) BY <1>1, UnionIsDisjoint
<1>3. \A t \in C : Inputs[t] \subseteq InputsOf(C) BY DEF InputsOf
<1>4. pool'.transactions \ returned' \subseteq A \cup C BY DEF A
<1>5. PooledAreMarked' BY <1>1, <1>3, <1>4 DEF PooledAreMarked
<1>6. PooledDoNotConflict' BY <1>2, <1>4 DEF PooledDoNotConflict, AreDisjoint
<1>7. QED BY <1>5, <1>6

\* The same when nothing comes to the pool.
LEMMA ConflictShrinks ==
  ASSUME PooledAreMarked, PooledDoNotConflict,
         pool'.transactions \ returned' \subseteq pool.transactions \ returned,
         pool'.utxo_map = pool.utxo_map
  PROVE  PooledAreMarked' /\ PooledDoNotConflict'
BY DEF PooledAreMarked, PooledDoNotConflict, AreDisjoint

LEMMA ConflictNext == ConflictInv /\ [Next]_vars => ConflictInv'
<1> SUFFICES ASSUME ConflictInv, [Next]_vars PROVE PooledAreMarked' /\ PooledDoNotConflict'
  BY TypeNext, ChainsNext DEF ConflictInv
<1> USE DEF ConflictInv
<1>0. pool \in Pool /\ returned \subseteq pool.transactions BY DEF TypeOK
<1>1. CASE pool'.transactions = {}
  BY <1>1 DEF PooledAreMarked, PooledDoNotConflict, AreDisjoint
<1>2. CASE NewGoldenTicket
  <2>1. pool'.transactions = pool.transactions /\ pool'.utxo_map = pool.utxo_map
        /\ returned' = returned
    BY <1>0, <1>2 DEF NewGoldenTicket, Pool
  <2>2. QED BY <2>1, ConflictShrinks
<1>3. CASE \E t \in Tx : NewTransaction(t) BY <1>3, ConflictShrinks DEF NewTransaction
<1>4. CASE \E b \in fetching : BlockFetched(b) BY <1>4, ConflictShrinks DEF BlockFetched
<1>5. ASSUME NEW T \in SUBSET Tx, BundleWaits(T) PROVE PooledAreMarked' /\ PooledDoNotConflict'
  <2>1. pool' = TakenIn(T) /\ TakeIn(T) /\ returned' = returned
    BY <1>5 DEF BundleWaits, TakenIn
  <2>2. /\ pool'.transactions = pool.transactions \cup T
        /\ pool'.utxo_map = pool.utxo_map \cup InputsOf(T)
        /\ AreDisjoint(T) /\ \A t \in T : Inputs[t] \cap pool.utxo_map = {}
    BY <1>0, <2>1, AdmissibleIsTaken
  <2>3. QED BY <2>1, <2>2, ConflictKept
<1>6. ASSUME NEW T \in SUBSET Tx, BundleFails(T) PROVE PooledAreMarked' /\ PooledDoNotConflict'
  <2>1. pool' = [TakenIn(T) EXCEPT !.transactions = {}] /\ TakeIn(T)
    BY <1>6 DEF BundleFails, TakenIn
  <2>2. QED BY <1>0, <1>1, <2>1, AdmissibleIsTaken DEF Pool
<1>7. ASSUME NEW T \in SUBSET Tx, BundleBlock(T) PROVE PooledAreMarked' /\ PooledDoNotConflict'
  <2>1. pool' = Bundled(TakenIn(T)) /\ TakeIn(T) BY <1>7 DEF BundleBlock, TakenIn
  <2>2. QED BY <1>0, <1>1, <2>1, AdmissibleIsTaken, BundledFields
<1>8. ASSUME NEW b \in batch, AddLater(b) PROVE PooledAreMarked' /\ PooledDoNotConflict'
  BY <1>8, ConflictShrinks DEF AddLater
<1>9. ASSUME NEW b \in batch, AddToLongestChain(b)
      PROVE  PooledAreMarked' /\ PooledDoNotConflict'
  <2> DEFINE C == Collected(pool, Unwound(b))
  <2>1. pool' = Moved(b) /\ returned' = returned \cap pool'.transactions
    BY <1>9 DEF AddToLongestChain, Moved
  <2>2. /\ pool'.transactions \subseteq pool.transactions \cup C
        /\ pool'.utxo_map = pool.utxo_map \cup InputsOf(C)
    BY <1>0, <2>1, MovedFields
  <2>3. C \subseteq TxsOf(made[tip].lineage) BY DEF Collected, Unwound, TxsOf
  <2>4. AreDisjoint(TxsOf(made[tip].lineage))
    BY DEF ChainsAreDisjoint, TipIsValid, TypeOK
  <2>5. AreDisjoint(C) BY <2>3, <2>4 DEF AreDisjoint
  <2>6. \A t \in C : Inputs[t] \cap pool.utxo_map = {} BY DEF Collected, IsRefused
  <2> HIDE DEF C
  <2>7. pool'.transactions \ returned' \subseteq (pool.transactions \ returned) \cup C
    BY <2>1, <2>2
  <2>8. QED BY <2>2, <2>5, <2>6, <2>7, ConflictKept
<1>10. ASSUME NEW b \in batch, AddToFork(b) PROVE PooledAreMarked' /\ PooledDoNotConflict'
  <2>1. pool' = RemoveBlockTransactions(pool, b, tip)
        /\ returned' = returned \cap pool'.transactions
    BY <1>10 DEF AddToFork
  <2>2. pool'.transactions \subseteq pool.transactions /\ pool'.utxo_map = pool.utxo_map
    BY <1>0, <2>1, RemoveBlockTransactionsFields
  <2>3. QED BY <2>1, <2>2, ConflictShrinks
<1>11. ASSUME NEW b \in batch, AddFails(b) PROVE PooledAreMarked' /\ PooledDoNotConflict'
  <2>1. PICK back : /\ pool' = PutBack([pool EXCEPT !.golden_tickets = @ \ {b}], back)
                    /\ returned' = returned \cup back
    BY <1>11 DEF AddFails
  <2>2. pool'.transactions = pool.transactions \cup back /\ pool'.utxo_map = pool.utxo_map
    BY <1>0, <2>1 DEF PutBack, Pool
  <2>3. QED BY <2>1, <2>2, ConflictShrinks
<1>12. CASE UNCHANGED vars BY <1>12, ConflictShrinks DEF vars
<1>13. QED
  BY <1>2, <1>3, <1>4, <1>5, <1>6, <1>7, <1>8, <1>9, <1>10, <1>11, <1>12 DEF Next, AddBlock

\* Pooled transactions spend the same output only if one of them was put back by a block of
\* this node that failed: what add_transaction refuses is enough, whatever is collected from
\* unwound chains.
THEOREM PooledDoNotConflictAlways == Spec => []PooledDoNotConflict
<1>1. Init => ConflictInv
  <2>1. Init => PooledAreMarked /\ PooledDoNotConflict
    BY DEF Init, EmptyPool, PooledAreMarked, PooledDoNotConflict, AreDisjoint
  <2>2. QED BY <2>1, TypeInit, ChainsInit DEF ConflictInv
<1>2. ConflictInv /\ [Next]_vars => ConflictInv' BY ConflictNext
<1>3. ConflictInv => PooledDoNotConflict BY DEF ConflictInv
<1>4. QED BY <1>1, <1>2, <1>3, PTL DEF Spec


-----------------------------------------------------------------------------
(* The miner                                                               *)

\* A block is not built on itself, so that the ticket that delete_block takes is not for the
\* tip; and while the miner was not passed over it is at the tip, in the midst of a batch too.
ParentsAreOthers == \A h \in Hash : made[h].parent # h
MinerIsAtTip == ~ passed_over => miner.target = tip /\ (miner.active \/ HasTicket)
MinerInv == TypeOK /\ ParentsAreOthers /\ MinerIsAtTip

LEMMA ParentsNext == TypeOK /\ ParentsAreOthers /\ [Next]_vars => ParentsAreOthers'
<1> SUFFICES ASSUME TypeOK, ParentsAreOthers, [Next]_vars PROVE ParentsAreOthers' OBVIOUS
<1>1. CASE UNCHANGED made BY <1>1 DEF ParentsAreOthers, Hash
<1>2. ASSUME NEW T \in SUBSET Tx, BundleBlock(T) PROVE ParentsAreOthers'
  <2>1. PICK txs, valid : made' = Append(made, NewBlock(txs, HasTicket, valid))
    BY <1>2 DEF BundleBlock
  <2>2. PICK n \in Block : made' = Append(made, n) BY <1>2, BundleBlockStep
  <2>3. made \in Seq(Block) /\ tip \in Hash BY DEF TypeOK
  <2>4. /\ Hash' = Hash \cup {Len(made) + 1} /\ Len(made) + 1 \notin Hash
        /\ made'[Len(made) + 1] = n /\ \A h \in Hash : made'[h] = made[h]
    BY <2>2, <2>3, Appended
  <2>5. made'[Len(made) + 1] = NewBlock(txs, HasTicket, valid) BY <2>1, <2>3
  <2>6. made'[Len(made) + 1].parent = tip BY <2>5 DEF NewBlock
  <2>7. QED BY <2>3, <2>4, <2>6 DEF ParentsAreOthers
<1>3. QED
  BY <1>1, <1>2 DEF Next, vars, networkVars, NewGoldenTicket, NewTransaction, BlockFetched,
     BundleWaits, BundleFails, AddBlock, AddLater, AddToLongestChain, AddToFork, AddFails

\* What keeps the tip and what the miner is at, and no ticket for the tip, keeps it.
LEMMA MinerKept ==
  ASSUME MinerIsAtTip, UNCHANGED <<tip, miner, passed_over>>,
         HasTicket => HasTicket'
  PROVE  MinerIsAtTip'
BY DEF MinerIsAtTip

LEMMA MinerNext == MinerInv /\ [Next]_vars => MinerInv'
<1> SUFFICES ASSUME MinerInv, [Next]_vars PROVE MinerIsAtTip'
  BY TypeNext, ParentsNext DEF MinerInv
<1> USE DEF MinerInv
<1>0. pool \in Pool /\ tip \in Hash /\ batch \subseteq Hash BY DEF TypeOK
<1>1. CASE NewGoldenTicket
  <2>1. miner'.target = miner.target /\ tip' = tip /\ passed_over' = passed_over
    BY <1>1 DEF NewGoldenTicket, TypeOK, chainVars
  <2>2. pool'.golden_tickets = pool.golden_tickets \cup {miner.target}
    BY <1>0, <1>1 DEF NewGoldenTicket, Pool
  <2>3. QED BY <2>1, <2>2 DEF MinerIsAtTip, HasTicket
<1>2. CASE \E t \in Tx : NewTransaction(t)
  BY <1>2, MinerKept DEF NewTransaction, chainVars, HasTicket
<1>3. CASE \E b \in fetching : BlockFetched(b)
  BY <1>3, MinerKept DEF BlockFetched, chainVars, HasTicket
<1>4. ASSUME NEW T \in SUBSET Tx, BundleWaits(T) \/ BundleFails(T) \/ BundleBlock(T)
      PROVE  MinerIsAtTip'
  <2>1. TakeIn(T) BY <1>4 DEF BundleWaits, BundleFails, BundleBlock
  <2>2. TakenIn(T) \in Pool /\ TakenIn(T).golden_tickets = pool.golden_tickets
    BY <1>0, <2>1, AddTransactionsFields DEF TakenIn
  <2>3. pool'.golden_tickets = pool.golden_tickets
    BY <1>4, <2>2 DEF BundleWaits, BundleFails, BundleBlock, TakenIn, Bundled, Pool
  <2>4. UNCHANGED <<tip, miner, passed_over>>
    BY <1>4 DEF BundleWaits, BundleFails, BundleBlock, chainVars
  <2>5. QED BY <2>3, <2>4, MinerKept DEF HasTicket
<1>5. ASSUME NEW b \in batch, AddLater(b) PROVE MinerIsAtTip'
  BY <1>5, MinerKept DEF AddLater, chainVars, HasTicket
<1>6. ASSUME NEW b \in batch, AddToLongestChain(b) PROVE MinerIsAtTip'
  <2>1. TellMiner(b) /\ tip' = b BY <1>6 DEF AddToLongestChain
  <2>2. QED BY <2>1 DEF TellMiner, MinerIsAtTip
<1>7. ASSUME NEW b \in batch, AddToFork(b) PROVE MinerIsAtTip'
  <2>1. /\ pool' = RemoveBlockTransactions(pool, b, tip) /\ made[b].parent # tip
        /\ UNCHANGED <<tip, miner, passed_over>>
    BY <1>7 DEF AddToFork
  <2>2. pool'.golden_tickets =
          pool.golden_tickets \ {made[c].parent : c \in {d \in {b} : made[d].ticket}}
    BY <1>0, <2>1 DEF RemoveBlockTransactions, DeleteTransactions, Pool
  <2>3. HasTicket => HasTicket' BY <2>1, <2>2 DEF HasTicket
  <2>4. QED BY <2>1, <2>3, MinerKept
<1>8. ASSUME NEW b \in batch, AddFails(b) PROVE MinerIsAtTip'
  <2>1. pool'.golden_tickets = pool.golden_tickets \ {b}
    BY <1>0, <1>8 DEF AddFails, PutBack, Pool
  <2>2. made[b].parent = tip /\ UNCHANGED <<tip, miner, passed_over>>
    BY <1>8 DEF AddFails, chainVars
  <2>3. b # tip BY <1>0, <2>2 DEF ParentsAreOthers
  <2>4. HasTicket => HasTicket' BY <2>1, <2>2, <2>3 DEF HasTicket
  <2>5. QED BY <2>2, <2>4, MinerKept
<1>9. CASE UNCHANGED vars BY <1>9, MinerKept DEF vars, chainVars, HasTicket
<1>10. QED BY <1>1, <1>2, <1>3, <1>4, <1>5, <1>6, <1>7, <1>8, <1>9 DEF Next, AddBlock

\* The miner works on the tip or has its ticket in the pool, unless a batch passed it over
\* (blockchain.rs:2340).
THEOREM TipIsMinedAlways == Spec => []TipIsMined
<1>1. Init => MinerInv
  <2>1. Init => ParentsAreOthers
    <3> SUFFICES ASSUME Init, NEW h \in DOMAIN PeerBlocks PROVE PeerBlocks[h].parent # h
      BY DEF Init, ParentsAreOthers, Hash
    <3>1. h \in Nat \ {0} BY MempoolAssumption
    <3>2. PeerBlocks[h].parent = 0 \/ PeerBlocks[h].parent \in 1..h - 1 BY MempoolAssumption
    <3>3. QED BY <3>1, <3>2
  <2>2. Init => MinerIsAtTip BY DEF Init, MinerIsAtTip
  <2>3. QED BY <2>1, <2>2, TypeInit DEF MinerInv
<1>2. MinerInv /\ [Next]_vars => MinerInv' BY MinerNext
<1>3. MinerInv => TipIsMined BY DEF MinerInv, MinerIsAtTip, TipIsMined
<1>4. QED BY <1>1, <1>2, <1>3, PTL DEF Spec


-----------------------------------------------------------------------------
(* Why transactions leave the pool                                         *)

HasReason(t) ==
  \/ \E b \in blocks' \cup batch' : t \in made'[b].txs
  \/ ~ IsSpendable(t)'
  \/ /\ returned # {} /\ pool'.transactions = {}
     /\ ~ AreDisjoint(pool.transactions \cup txs_for_mempool)

\* What block b takes out of a pool when the chain ends in h.
LEMMA RemovedByBlock ==
  ASSUME NEW p \in Pool, NEW b, NEW h,
         NEW t \in p.transactions \ RemoveBlockTransactions(p, b, h).transactions
  PROVE  t \in made[b].txs \/ ~ IsSpendableAt(t, h)
<1> DEFINE q == [p EXCEPT !.transactions = {u \in @ : IsSpendableAt(u, h)}]
<1>1. q \in Pool /\ q.transactions = {u \in p.transactions : IsSpendableAt(u, h)} BY DEF Pool
<1>2. RemoveBlockTransactions(p, b, h) = DeleteTransactions(q, {b}) BY DEF RemoveBlockTransactions
<1> HIDE DEF q
<1>3. RemoveBlockTransactions(p, b, h).transactions = q.transactions \ TxsOf({b})
  BY <1>1, <1>2, DeleteTransactionsFields
<1>4. t \in TxsOf({b}) \/ ~ IsSpendableAt(t, h) BY <1>1, <1>3
<1>5. QED BY <1>4 DEF TxsOf

\* Bundling fails on a double spend only if something was put back.
LEMMA FailsForAReason ==
  ASSUME ConflictInv, NEW T \in SUBSET Tx, BundleFails(T)
  PROVE  /\ returned # {} /\ pool'.transactions = {}
         /\ ~ AreDisjoint(pool.transactions \cup txs_for_mempool)
<1>0. pool \in Pool BY DEF ConflictInv, TypeOK
<1>1. /\ TakeIn(T) /\ ~ AreDisjoint(TakenIn(T).transactions)
      /\ pool' = [TakenIn(T) EXCEPT !.transactions = {}]
  BY DEF BundleFails, TakenIn
<1>2. /\ TakenIn(T) \in Pool /\ TakenIn(T).transactions = pool.transactions \cup T
      /\ AreDisjoint(T) /\ \A t \in T : Inputs[t] \cap pool.utxo_map = {}
  BY <1>0, <1>1, AdmissibleIsTaken
<1>3. pool'.transactions = {} BY <1>1, <1>2 DEF Pool
<1>4. T \subseteq txs_for_mempool BY <1>1 DEF TakeIn, Admissible
<1>5. ~ AreDisjoint(pool.transactions \cup txs_for_mempool)
  BY <1>1, <1>2, <1>4 DEF AreDisjoint
<1>6. ASSUME returned = {} PROVE FALSE
  <2>1. AreDisjoint(pool.transactions)
        /\ \A t \in pool.transactions : Inputs[t] \subseteq pool.utxo_map
    BY <1>6 DEF ConflictInv, PooledDoNotConflict, PooledAreMarked
  <2>2. AreDisjoint(pool.transactions \cup T) BY <1>2, <2>1, UnionIsDisjoint
  <2>3. QED BY <1>1, <1>2, <2>2
<1>7. QED BY <1>3, <1>5, <1>6

LEMMA LeavesStep ==
  ASSUME ConflictInv, Next, NEW t \in pool.transactions \ pool'.transactions
  PROVE  HasReason(t)
<1>0. pool \in Pool /\ made \in Seq(Block) /\ t \in Tx BY DEF ConflictInv, TypeOK, Pool
<1>1. ASSUME pool.transactions \subseteq pool'.transactions PROVE HasReason(t) BY <1>1
<1>2. CASE NewGoldenTicket BY <1>0, <1>1, <1>2 DEF NewGoldenTicket, Pool
<1>3. CASE \E u \in Tx : NewTransaction(u) BY <1>1, <1>3 DEF NewTransaction
<1>4. CASE \E b \in fetching : BlockFetched(b) BY <1>1, <1>4 DEF BlockFetched
<1>5. ASSUME NEW T \in SUBSET Tx, BundleWaits(T) PROVE HasReason(t)
  <2>1. pool' = TakenIn(T) /\ TakeIn(T) BY <1>5 DEF BundleWaits, TakenIn
  <2>2. QED BY <1>0, <1>1, <2>1, AdmissibleIsTaken
<1>6. ASSUME NEW T \in SUBSET Tx, BundleFails(T) PROVE HasReason(t)
  BY <1>6, FailsForAReason DEF HasReason
<1>7. ASSUME NEW T \in SUBSET Tx, BundleBlock(T) PROVE HasReason(t)
  <2>1. PICK n \in Block : made' = Append(made, n) /\ n.txs = TakenIn(T).transactions
    BY <1>7, BundleBlockStep DEF ConflictInv
  <2>2. made'[Len(made) + 1] = n BY <1>0, <2>1, Appended
  <2>3. TakeIn(T) /\ batch' = {Len(made) + 1} BY <1>7 DEF BundleBlock
  <2>4. t \in n.txs BY <1>0, <2>1, <2>3, AdmissibleIsTaken
  <2>5. QED BY <2>2, <2>3, <2>4 DEF HasReason
<1>8. ASSUME NEW b \in batch, AddLater(b) PROVE HasReason(t) BY <1>1, <1>8 DEF AddLater
<1>9. ASSUME NEW b \in batch, AddToLongestChain(b) PROVE HasReason(t)
  <2> DEFINE p == CollectDiscarded(pool, Unwound(b))
             q == DeleteTransactions(p, Wound(b))
  <2>1. pool' = RemoveBlockTransactions(q, b, b) /\ made' = made /\ tip' = b
        /\ blocks' = blocks \cup {b}
    BY <1>9 DEF AddToLongestChain, networkVars
  <2>2. p \in Pool /\ t \in p.transactions BY <1>0, CollectDiscardedFields
  <2>3. q \in Pool /\ q.transactions = p.transactions \ TxsOf(Wound(b))
    BY <2>2, DeleteTransactionsFields
  <2> HIDE DEF p, q
  <2>4. CASE t \in q.transactions
    <3>1. t \in made[b].txs \/ ~ IsSpendableAt(t, b) BY <2>1, <2>3, <2>4, RemovedByBlock
    <3>2. ~ IsSpendableAt(t, b) => ~ IsSpendable(t)'
      BY <2>1 DEF IsSpendable, IsSpendableAt, TxsOf
    <3>3. QED BY <2>1, <3>1, <3>2 DEF HasReason
  <2>5. CASE t \in TxsOf(Wound(b))
    <3>1. t \in TxsOf(made[b].lineage) BY <2>5 DEF Wound, TxsOf
    <3>2. Inputs[t] \cap Inputs[t] # {} BY <1>0, MempoolAssumption
    <3>3. ~ IsSpendable(t)' BY <2>1, <3>1, <3>2 DEF IsSpendable, IsSpendableAt, TxsOf
    <3>4. QED BY <3>3 DEF HasReason
  <2>6. QED BY <2>2, <2>3, <2>4, <2>5
<1>10. ASSUME NEW b \in batch, AddToFork(b) PROVE HasReason(t)
  <2>1. pool' = RemoveBlockTransactions(pool, b, tip) /\ made' = made /\ tip' = tip
        /\ blocks' = blocks \cup {b}
    BY <1>10 DEF AddToFork, networkVars
  <2>2. t \in made[b].txs \/ ~ IsSpendable(t) BY <1>0, <2>1, RemovedByBlock DEF IsSpendable
  <2>3. QED BY <2>1, <2>2, SpendableKept DEF HasReason
<1>11. ASSUME NEW b \in batch, AddFails(b) PROVE HasReason(t)
  <2>1. pool.transactions \subseteq pool'.transactions
    BY <1>0, <1>11 DEF AddFails, PutBack, Pool
  <2>2. QED BY <1>1, <2>1
<1>12. QED
  BY <1>2, <1>3, <1>4, <1>5, <1>6, <1>7, <1>8, <1>9, <1>10, <1>11 DEF Next, AddBlock

\* A transaction leaves the pool for a block that has it, because it can no longer be spent, or
\* with all the others when Block::create meets a double spend that a failed block left there.
THEOREM LeavesForAReasonAlways == Spec => LeavesForAReason
<1>1. Init => ConflictInv
  <2>1. Init => PooledAreMarked /\ PooledDoNotConflict
    BY DEF Init, EmptyPool, PooledAreMarked, PooledDoNotConflict, AreDisjoint
  <2>2. QED BY <2>1, TypeInit, ChainsInit DEF ConflictInv
<1>2. ConflictInv /\ [Next]_vars => ConflictInv' BY ConflictNext
<1>3. ConflictInv /\ [Next]_vars =>
        [\A t \in pool.transactions \ pool'.transactions :
           \/ \E b \in blocks' \cup batch' : t \in made'[b].txs
           \/ ~ IsSpendable(t)'
           \/ /\ returned # {} /\ pool'.transactions = {}
              /\ ~ AreDisjoint(pool.transactions \cup txs_for_mempool)]_vars
  BY LeavesStep DEF HasReason
<1>4. QED BY <1>1, <1>2, <1>3, PTL DEF Spec, LeavesForAReason

=============================================================================
