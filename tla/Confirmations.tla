----------------------------- MODULE Confirmations -----------------------------
(***************************************************************************)
(* How a module of the application comes to know that its transaction was  *)
(* confirmed.  The core counts the confirmations of every block when a     *)
(* block joins the longest chain (on_confirmation in blockchain.rs) and    *)
(* calls the handlers of the JavaScript Blockchain, which are asynchronous *)
(* (saito-js/lib/blockchain.ts): they wait for the lock that the core      *)
(* holds until it has added all the blocks it has, look the block up, and  *)
(* run the callbacks that the modules affixed to its transactions.  By     *)
(* then the block may be pruned, or its callbacks deleted.                 *)
(*                                                                         *)
(* Every block has one transaction of one module.  The other modules that  *)
(* are told of a new block, and what is saved of the chain, are left out.  *)
(***************************************************************************)
EXTENDS Integers, Sequences, FiniteSets, FiniteSetsExt

CONSTANTS
  Block,         \* the blocks that may be added
  NoBlock,       \* the parent of a first block
  Parent,        \* Parent[b]: Block::previous_block_hash
  Height,        \* Height[b]: Block::id
  Limit,         \* Blockchain::block_confirmation_limit
  PruneAfter,    \* ConsensusConfig::prune_after_blocks
  Recursions,    \* ConsensusConfig::max_staker_recursions
  DeleteAfter,   \* Blockchain.prune_after_blocks of saito-js, 6 in the code
  Spv,           \* Configuration::is_spv_mode
  MaxHandlers    \* bound: a block is added when fewer handlers than this are running

\* The core asserts that it does not prune what it has still to confirm.
ASSUME ConfirmationsAssumption ==
  /\ NoBlock \notin Block /\ IsFiniteSet(Block)
  /\ Parent \in [Block -> Block \cup {NoBlock}] /\ Height \in [Block -> Nat \ {0}]
  /\ \A b \in Block : Parent[b] # NoBlock => Height[b] = Height[Parent[b]] + 1
  /\ Limit \in Nat \ {0} /\ PruneAfter \in Nat /\ PruneAfter >= Limit
  /\ Recursions \in 1..PruneAfter + 1
  /\ DeleteAfter \in Nat \ {0} /\ Spv \in BOOLEAN /\ MaxHandlers \in Nat \ {0}

VARIABLES
  (* the core *)
  added,          \* Blockchain::blocks
  tip,            \* the block the longest chain ends in
  safe,           \* the blocks with safe_to_prune_transactions
  pruned,         \* the blocks of BlockType::Pruned
  confirmations,  \* Block::confirmations
  stored,         \* BlockchainConfig::confirmations, a count for some of the blocks
  busy,           \* the core is adding blocks and has the lock
  (* saito-js *)
  handlers,       \* the calls of onConfirmation and onAddBlockSuccess that are running
  callbacks,      \* Blockchain.callbacks: the blocks with an entry
  (* the module *)
  seen            \* seen[b]: the confirmations its onConfirmation was called with

coreVars == <<added, tip, safe, pruned, confirmations, stored, busy>>
vars == <<coreVars, handlers, callbacks, seen>>

Init ==
  /\ added = {} /\ tip = NoBlock /\ safe = {} /\ pruned = {}
  /\ confirmations = [b \in Block |-> 0]
  /\ stored = [b \in {} |-> 0]
  /\ busy = FALSE
  /\ handlers = {} /\ callbacks = {}
  /\ seen = [b \in Block |-> {}]

-----------------------------------------------------------------------------
(* The chain *)

\* The chain that ends in b.
Chain[b \in Block \cup {NoBlock}] == IF b = NoBlock THEN {} ELSE {b} \cup Chain[Parent[b]]

\* downgrade_blockchain_data, at each of the tips: what is PruneAfter below it.
Below(tips) == {c \in safe : Height[c] + PruneAfter \in tips}

\* upgrade_block_to_block_type, of blocks that are on disk; a light client has none.
Upgraded(prunedBlocks, blocks) == IF Spv THEN prunedBlocks ELSE prunedBlocks \ blocks

\* What is pruned when the chain has been unwound and wound, to end in b.
PrunedOnTheWay(b) ==
  LET old == Chain[tip] \ Chain[b]
      new == Chain[b] \ Chain[tip]
      unwound == Upgraded(pruned, old) \cup Below({Height[c] - 1 : c \in old})
      validated == {c \in Chain[b] : \E d \in new : Height[d] - Height[c] \in 0..Recursions - 1}
  IN Upgraded(unwound, validated) \cup Below({Height[c] : c \in new})

-----------------------------------------------------------------------------
(* on_confirmation: from the new tip b back as long as a block has fewer   *)
(* confirmations than its depth asks for, but not below the blocks that    *)
(* are stored, and not further than 100 blocks, which no instance has.     *)

Depth(b, c) == Height[b] - Height[c]

\* A mutant: there is no limit.
AskedByDepth(b, c) == Depth(b, c) + 1

Asked(b, c) == Min({Depth(b, c) + 1, Limit})

IsStored(c) == c \in DOMAIN stored
LowestStored == IF DOMAIN stored = {} THEN 0 ELSE Min({Height[c] : c \in DOMAIN stored})

\* The count a block has from before.
Counted(c) == IF IsStored(c) THEN Max({confirmations[c], stored[c]}) ELSE confirmations[c]

\* A mutant: the lowest of the stored blocks is left out.
IsWantingAbove(b, c) == Height[c] > LowestStored /\ Counted(c) < Asked(b, c)

IsWanting(b, c) == Height[c] >= LowestStored /\ Counted(c) < Asked(b, c)

\* The blocks that get confirmations, and with them the block at which the walk ends.
Walked(b)  == {c \in Chain[b] : \A d \in Chain[b] : Height[d] >= Height[c] => IsWanting(b, d)}
Visited(b) == {c \in Chain[b] : /\ Height[c] >= LowestStored
                                /\ \A d \in Chain[b] : Height[d] > Height[c] => IsWanting(b, d)}

NewCount(b, c) == IF c \in Walked(b) THEN Asked(b, c)
                  ELSE IF c \in Visited(b) THEN Counted(c) ELSE confirmations[c]

\* The list keeps every block that was walked, and as many of the highest others as fit.
Kept(b) ==
  LET others == DOMAIN stored \ Walked(b)
      room == Max({0, Limit - Cardinality(Walked(b))})
  IN {kept \in SUBSET others :
        /\ Cardinality(kept) = Min({room, Cardinality(others)})
        /\ \A c \in kept, d \in others \ kept : Height[c] >= Height[d]}

\* A mutant: the numbers start from zero every time.
ConfirmFromZero(b, c) == [kind |-> "confirm", block |-> c, at |-> "lookup",
                          left |-> 0..Asked(b, c) - Counted(c) - 1]

Confirm(b, c) == [kind |-> "confirm", block |-> c, at |-> "lookup",
                  left |-> Counted(c)..Asked(b, c) - 1]
Added(b) == [kind |-> "added", block |-> b, at |-> "lookup", left |-> {}]

OnConfirmation(b) ==
  /\ confirmations' = [c \in Block |-> NewCount(b, c)]
  /\ \E kept \in Kept(b) :
       stored' = [c \in Walked(b) \cup kept |-> IF c \in Walked(b) THEN Asked(b, c) ELSE stored[c]]
  /\ pruned' = Upgraded(PrunedOnTheWay(b), Visited(b))
  /\ handlers' = handlers \cup {Confirm(b, c) : c \in Walked(b)} \cup {Added(b)}

\* add_block of a block that is accepted.  A chain that is longer becomes the longest if
\* it has the work; of the blocks at one height the first alone is marked safe to prune.
MayJoin(b) == Cardinality(Chain[tip] \ Chain[b]) < Cardinality(Chain[b] \ Chain[tip])
MustJoin(b) == Parent[b] = tip

AddBlock(b) ==
  /\ b \notin added /\ IF Parent[b] = NoBlock THEN added = {} ELSE Parent[b] \in added
  /\ Cardinality(handlers) < MaxHandlers
  /\ busy' = TRUE
  /\ added' = added \cup {b}
  /\ safe' = IF \E c \in added : Height[c] = Height[b] THEN safe ELSE safe \cup {b}
  /\ \/ MayJoin(b) /\ tip' = b /\ OnConfirmation(b)
     \/ /\ ~MustJoin(b) /\ handlers' = handlers \cup {Added(b)}
        /\ UNCHANGED <<tip, pruned, confirmations, stored>>
  /\ UNCHANGED <<callbacks, seen>>

\* The core has added what was in the mempool, and gives the lock back.
Release ==
  /\ busy /\ busy' = FALSE
  /\ UNCHANGED <<added, tip, safe, pruned, confirmations, stored, handlers, callbacks, seen>>

-----------------------------------------------------------------------------
(* The handlers: whatever they ask the core for waits for its lock.        *)

Step(h, g) == handlers' = (handlers \ {h}) \cup {g}
Done(h)    == handlers' = handlers \ {h}

\* onConfirmation: getBlock, then affixCallbacks, unless the block has an entry.
LookUp(h) ==
  /\ h.kind = "confirm" /\ h.at = "lookup" /\ ~busy
  /\ IF h.block \in pruned THEN Done(h)
     ELSE Step(h, [h EXCEPT !.at = IF h.block \in callbacks THEN "again" ELSE "affix"])
  /\ UNCHANGED <<coreVars, callbacks, seen>>

\* The rest of affixCallbacks, after the messages of the block were decrypted.
AffixCallbacks(h) ==
  /\ h.kind = "confirm" /\ h.at = "affix"
  /\ callbacks' = callbacks \cup {h.block}
  /\ Step(h, [h EXCEPT !.at = "again"])
  /\ UNCHANGED <<coreVars, seen>>

\* runCallbacks: the block is looked up again, and the callbacks as they are now.
RunCallbacks(h) ==
  /\ h.kind = "confirm" /\ h.at = "again" /\ ~busy
  /\ IF h.block \in pruned \/ h.block \notin callbacks THEN Done(h)
     ELSE Step(h, [h EXCEPT !.at = "run"])
  /\ UNCHANGED <<coreVars, callbacks, seen>>

\* A mutant: the first of the confirmations alone is run.
CallBackOnce(h) ==
  /\ h.kind = "confirm" /\ h.at = "run"
  /\ seen' = [seen EXCEPT ![h.block] = @ \cup {Min(h.left)}]
  /\ Done(h)
  /\ UNCHANGED <<coreVars, callbacks>>

\* The callback is run for the next of the confirmations, and what it returns awaited.
CallBack(h) ==
  /\ h.kind = "confirm" /\ h.at = "run"
  /\ LET next == Min(h.left)
         rest == h.left \ {next}
     IN /\ seen' = [seen EXCEPT ![h.block] = @ \cup {next}]
        /\ IF rest = {} THEN Done(h) ELSE Step(h, [h EXCEPT !.left = rest])
  /\ UNCHANGED <<coreVars, callbacks>>

\* onAddBlockSuccess: a block of the longest chain is followed by a deletion.
SeeAdded(h) ==
  /\ h.kind = "added" /\ h.at = "lookup" /\ ~busy
  /\ IF h.block \in Chain[tip] /\ Height[h.block] >= DeleteAfter
     THEN Step(h, [h EXCEPT !.at = "delete"]) ELSE Done(h)
  /\ UNCHANGED <<coreVars, callbacks, seen>>

\* A mutant: the block above it.
DeleteCallbacksAbove(h) ==
  /\ h.kind = "added" /\ h.at = "delete" /\ ~busy
  /\ callbacks' = callbacks \ {c \in Chain[tip] : Height[c] = Height[h.block] - DeleteAfter + 2}
  /\ Done(h)
  /\ UNCHANGED <<coreVars, seen>>

\* The callbacks of the block that is on the longest chain by then go.
DeleteCallbacks(h) ==
  /\ h.kind = "added" /\ h.at = "delete" /\ ~busy
  /\ callbacks' = callbacks \ {c \in Chain[tip] : Height[c] = Height[h.block] - DeleteAfter + 1}
  /\ Done(h)
  /\ UNCHANGED <<coreVars, seen>>

-----------------------------------------------------------------------------
Handle(h) == LookUp(h) \/ AffixCallbacks(h) \/ RunCallbacks(h) \/ CallBack(h)
               \/ SeeAdded(h) \/ DeleteCallbacks(h)

Next == (\E b \in Block : AddBlock(b)) \/ Release \/ (\E h \in handlers : Handle(h))

\* The core gives its lock back, and so does everyone who waits for it; the callbacks of
\* the modules return.
Fairness == WF_vars(Release) /\ WF_vars(\E h \in handlers : Handle(h))

Spec == Init /\ [][Next]_vars /\ Fairness

-----------------------------------------------------------------------------
Handler == [kind: {"confirm"}, block: Block, at: {"lookup", "affix", "again", "run"},
            left: SUBSET (0..Limit - 1)]
             \cup [kind: {"added"}, block: Block, at: {"lookup", "delete"}, left: {{}}]

\* Every variable holds a value of its kind, and a handler has something to run.
TypeOK ==
  /\ added \subseteq Block /\ tip \in added \cup {NoBlock}
  /\ safe \subseteq added /\ pruned \subseteq safe
  /\ confirmations \in [Block -> 0..Limit]
  /\ DOMAIN stored \subseteq added /\ \A b \in DOMAIN stored : stored[b] \in 1..Limit
  /\ busy \in BOOLEAN
  /\ handlers \subseteq Handler
  /\ \A h \in handlers : h.kind = "confirm" => h.left # {}
  /\ callbacks \subseteq added
  /\ seen \in [Block -> SUBSET (0..Limit - 1)]

\* Every block of the longest chain has had a confirmation for each block on top of it
\* and one for itself, up to the limit: "this won't break when reorgs happen".
ChainIsConfirmed ==
  \A c \in Chain[tip] : confirmations[c] >= Asked(tip, c)

Running(b) == {h \in handlers : h.kind = "confirm" /\ h.block = b}
UnderWay(b) == UNION {h.left : h \in Running(b)}

\* A module is told of every confirmation once: of those that are being run for a block
\* no other handler has the same, and the module has not had it.
ConfirmedOnce ==
  \A b \in Block :
    /\ seen[b] \cap UnderWay(b) = {}
    /\ \A g, h \in Running(b) : g # h => g.left \cap h.left = {}

Lost(b) == (0..confirmations[b] - 1) \ (seen[b] \cup UnderWay(b))

HeightOf(b) == IF b = NoBlock THEN 0 ELSE Height[b]

\* The chain is so far past the block that it was pruned or lost its callbacks.
IsPast(b) == HeightOf(tip) - Height[b] >= Min({PruneAfter, DeleteAfter - 1})

\* No confirmation is lost on its way to the module as long as the chain does not run away
\* from the handlers: by the time it is lost the block has grown old.
LostWhenPast == \A b \in Block : Lost(b) # {} => IsPast(b)

\* In the end, when no more blocks come, every confirmation that the core has counted has
\* reached the module, or the block has grown old.
ConfirmationsArrive ==
  <>[](\A b \in Block : 0..confirmations[b] - 1 \subseteq seen[b] \/ IsPast(b))

=============================================================================
