-------------------------- MODULE ConfirmationsProofs --------------------------
(***************************************************************************)
(* What the modules of the application are told, for every tree of blocks, *)
(* every limit and every number of handlers that run side by side.         *)
(*                                                                         *)
(* Once: the count of a block is the frontier.  What handlers have still   *)
(* to run, or the module has had, lies below it (IsBelowCount), and what   *)
(* on_confirmation adds begins at it or above.  What one handler has to    *)
(* run is an interval, so that there is a next one.                        *)
(*                                                                         *)
(* Not lost: the tip only rises, because the blocks form one tree, where   *)
(* the longer chain is the higher (TreeInv).  So what makes a handler give *)
(* up stays true once it is (LossInv).                                     *)
(*                                                                         *)
(* All of them: as long as forks are shallow, the walk of on_confirmation  *)
(* meets every block of the new chain that is wanting (CountInv).          *)
(***************************************************************************)
EXTENDS Confirmations, FiniteSetTheorems, TLAPS

IsInterval(S) == \E low, high \in Nat : low <= high /\ S = low..high

\* A handler is a record of four fields.
IsRecord(h) == h = [kind |-> h.kind, block |-> h.block, at |-> h.at, left |-> h.left]

Counts ==
  /\ confirmations \in [Block -> Nat]
  /\ \A b \in Block \cap DOMAIN stored : stored[b] \in Nat

HandlersAreSound ==
  \A h \in handlers :
    /\ IsRecord(h)
    /\ h.kind = "confirm" /\ h.block \in Block => IsInterval(h.left)

\* Nothing is run, or was run, that the core has not counted.
IsBelowCount ==
  /\ seen \in [Block -> SUBSET Nat]
  /\ \A b \in Block : seen[b] \cup UnderWay(b) \subseteq 0..confirmations[b] - 1

OnceInv == Counts /\ HandlersAreSound /\ IsBelowCount /\ ConfirmedOnce

-----------------------------------------------------------------------------
(* Minimum and maximum *)

LEMMA MinOfTwo ==
  ASSUME NEW x \in Int, NEW y \in Int
  PROVE  Min({x, y}) \in {x, y} /\ Min({x, y}) <= x /\ Min({x, y}) <= y
<1>1. \E z \in {x, y} : \A w \in {x, y} : z =< w
  OBVIOUS
<1>2. Min({x, y}) \in {x, y} /\ \A w \in {x, y} : Min({x, y}) =< w
  BY <1>1 DEF Min
<1>3. QED BY <1>2

LEMMA MaxOfTwo ==
  ASSUME NEW x \in Int, NEW y \in Int
  PROVE  Max({x, y}) \in {x, y} /\ Max({x, y}) >= x /\ Max({x, y}) >= y
<1>1. \E z \in {x, y} : \A w \in {x, y} : z >= w
  OBVIOUS
<1>2. Max({x, y}) \in {x, y} /\ \A w \in {x, y} : Max({x, y}) >= w
  BY <1>1 DEF Max
<1>3. QED BY <1>2

\* What is left of an interval without its least member is an interval, or empty.
LEMMA MinOfInterval ==
  ASSUME NEW S, IsInterval(S)
  PROVE  /\ Min(S) \in S /\ S \subseteq Nat
         /\ S \ {Min(S)} = {} \/ IsInterval(S \ {Min(S)})
<1>1. PICK low \in Nat, high \in Nat : low <= high /\ S = low..high
  BY DEF IsInterval
<1>2. \E z \in S : \A w \in S : z =< w
  <2>1. low \in S /\ \A w \in S : low =< w BY <1>1
  <2>2. QED BY <2>1
<1>3. Min(S) \in S /\ \A w \in S : Min(S) =< w
  BY <1>2 DEF Min
<1>4. Min(S) = low BY <1>1, <1>3
<1>5. S \ {low} = (low + 1)..high BY <1>1
<1>6. CASE low = high BY <1>1, <1>3, <1>4, <1>6
<1>7. CASE low < high
  <2>1. low + 1 \in Nat /\ low + 1 <= high BY <1>7
  <2>2. IsInterval(S \ {low}) BY <1>5, <2>1 DEF IsInterval
  <2>3. S \subseteq Nat BY <1>1
  <2>4. QED BY <1>3, <1>4, <2>2, <2>3, Zenon
<1>8. QED BY <1>1, <1>6, <1>7

-----------------------------------------------------------------------------
(* on_confirmation *)

LEMMA CountedIsAbove ==
  ASSUME Counts, NEW c \in Block
  PROVE  Counted(c) \in Nat /\ Counted(c) >= confirmations[c]
<1>1. confirmations[c] \in Nat BY DEF Counts
<1>2. CASE IsStored(c)
  <2>1. stored[c] \in Nat BY <1>2 DEF Counts, IsStored
  <2>2. /\ Max({confirmations[c], stored[c]}) \in {confirmations[c], stored[c]}
        /\ Max({confirmations[c], stored[c]}) >= confirmations[c]
    <3>1. confirmations[c] \in Int /\ stored[c] \in Int BY <1>1, <2>1
    <3>2. QED BY <3>1, MaxOfTwo, Zenon
  <2>3. Counted(c) = Max({confirmations[c], stored[c]}) BY <1>2 DEF Counted
  <2>4. QED BY <1>1, <2>1, <2>2, <2>3
<1>3. CASE ~IsStored(c) BY <1>1, <1>3 DEF Counted
<1>4. QED BY <1>2, <1>3

\* A block that is walked gets confirmations, from its count or above.
LEMMA WalkedIsAbove ==
  ASSUME Counts, NEW b \in Block, NEW c \in Block, c \in Walked(b)
  PROVE  Asked(b, c) \in Nat /\ Counted(c) < Asked(b, c)
<1>1. Depth(b, c) + 1 \in Int BY ConfirmationsAssumption DEF Depth
<1>2. Asked(b, c) \in Int
  <2>1. Limit \in Int BY ConfirmationsAssumption
  <2>2. Min({Depth(b, c) + 1, Limit}) \in {Depth(b, c) + 1, Limit} BY <1>1, <2>1, MinOfTwo
  <2>3. QED BY <1>1, <2>1, <2>2 DEF Asked
<1>3. Height[c] >= Height[c] BY ConfirmationsAssumption
<1>4. IsWanting(b, c) BY <1>3 DEF Walked
<1>5. QED BY <1>2, <1>4, CountedIsAbove DEF IsWanting

\* No count goes down.
LEMMA NewCountIsAbove ==
  ASSUME Counts, NEW b \in Block, NEW c \in Block
  PROVE  /\ NewCount(b, c) \in Nat /\ NewCount(b, c) >= confirmations[c]
         /\ c \in Walked(b) => NewCount(b, c) = Asked(b, c)
<1>1. confirmations[c] \in Nat BY DEF Counts
<1>2. CASE c \in Walked(b) BY <1>1, <1>2, WalkedIsAbove, CountedIsAbove DEF NewCount
<1>3. CASE c \notin Walked(b) BY <1>1, <1>3, CountedIsAbove DEF NewCount
<1>4. QED BY <1>2, <1>3

LEMMA OnConfirmationCounts ==
  ASSUME Counts, NEW b \in Block, OnConfirmation(b)
  PROVE  /\ Counts'
         /\ \A c \in Block : confirmations'[c] = NewCount(b, c)
<1>1. confirmations' = [c \in Block |-> NewCount(b, c)] BY DEF OnConfirmation
<1>2. confirmations' \in [Block -> Nat] BY <1>1, NewCountIsAbove
<1>3. PICK kept \in Kept(b) :
        stored' = [c \in Walked(b) \cup kept |-> IF c \in Walked(b) THEN Asked(b, c) ELSE stored[c]]
  BY DEF OnConfirmation
<1>4. kept \subseteq DOMAIN stored BY DEF Kept
<1>5. ASSUME NEW c \in Block \cap DOMAIN stored' PROVE stored'[c] \in Nat
  <2>1. CASE c \in Walked(b) BY <1>3, <2>1, WalkedIsAbove
  <2>2. CASE c \notin Walked(b)
    <3>1. c \in kept /\ stored'[c] = stored[c] BY <1>3, <2>2
    <3>2. QED BY <3>1, <1>4 DEF Counts
  <2>3. QED BY <2>1, <2>2
<1>6. QED BY <1>1, <1>2, <1>5 DEF Counts

\* The handlers of a new tip, and what they have to run.
LEMMA ConfirmIsSound ==
  ASSUME Counts, NEW b \in Block, NEW c \in Walked(b)
  PROVE  /\ IsRecord(Confirm(b, c)) /\ Confirm(b, c).block = c /\ Confirm(b, c).kind = "confirm"
         /\ c \in Block => /\ IsInterval(Confirm(b, c).left)
                           /\ Confirm(b, c).left \subseteq 0..NewCount(b, c) - 1
                           /\ Confirm(b, c).left \cap 0..confirmations[c] - 1 = {}
<1>1. Confirm(b, c) = [kind |-> "confirm", block |-> c, at |-> "lookup",
                       left |-> Counted(c)..Asked(b, c) - 1]
  BY DEF Confirm
<1>2. ASSUME c \in Block
      PROVE  /\ IsInterval(Confirm(b, c).left)
             /\ Confirm(b, c).left \subseteq 0..NewCount(b, c) - 1
             /\ Confirm(b, c).left \cap 0..confirmations[c] - 1 = {}
  <2>1. Counted(c) \in Nat /\ Counted(c) >= confirmations[c] BY <1>2, CountedIsAbove
  <2>2. Asked(b, c) \in Nat /\ Counted(c) < Asked(b, c) BY <1>2, WalkedIsAbove
  <2>3. NewCount(b, c) = Asked(b, c) BY <1>2, NewCountIsAbove
  <2>4. confirmations[c] \in Nat BY <1>2 DEF Counts
  <2>5. Asked(b, c) - 1 \in Nat /\ Counted(c) <= Asked(b, c) - 1 BY <2>1, <2>2
  <2>6. IsInterval(Counted(c)..Asked(b, c) - 1) BY <2>1, <2>5 DEF IsInterval
  <2>7. QED BY <1>1, <2>1, <2>2, <2>3, <2>4, <2>6
<1>3. QED BY <1>1, <1>2 DEF IsRecord

-----------------------------------------------------------------------------
(* The steps *)

\* A block that does not become the tip adds a handler that runs no callback.
LEMMA AddedIsNoConfirm ==
  ASSUME NEW b PROVE IsRecord(Added(b)) /\ Added(b).kind = "added"
BY DEF IsRecord, Added

LEMMA OnConfirmationStep ==
  ASSUME OnceInv, NEW b \in Block, OnConfirmation(b), UNCHANGED seen
  PROVE  OnceInv'
<1> DEFINE new == {Confirm(b, c) : c \in Walked(b)}
<1>1. Counts' /\ \A c \in Block : confirmations'[c] = NewCount(b, c)
  BY OnConfirmationCounts DEF OnceInv
<1>2. handlers' = handlers \cup new \cup {Added(b)} BY DEF OnConfirmation
<1>3. HandlersAreSound'
  <2>1. ASSUME NEW h \in handlers'
        PROVE  IsRecord(h) /\ (h.kind = "confirm" /\ h.block \in Block => IsInterval(h.left))
    <3>1. CASE h \in handlers BY <3>1 DEF OnceInv, HandlersAreSound
    <3>2. CASE h \in new BY <3>2, ConfirmIsSound DEF OnceInv
    <3>3. CASE h = Added(b) BY <3>3, AddedIsNoConfirm
    <3>4. QED BY <1>2, <3>1, <3>2, <3>3
  <2>2. QED BY <2>1 DEF HandlersAreSound
<1>4. ASSUME NEW c \in Block
      PROVE  \A h \in Running(c)' : h \in Running(c) \/ (c \in Walked(b) /\ h = Confirm(b, c))
  <2>1. ASSUME NEW h \in Running(c)' PROVE h \in Running(c) \/ (c \in Walked(b) /\ h = Confirm(b, c))
    <3>1. h \in handlers' /\ h.kind = "confirm" /\ h.block = c BY DEF Running
    <3>2. CASE h \in handlers BY <3>1, <3>2 DEF Running
    <3>3. CASE h \in new
      <4>1. PICK d \in Walked(b) : h = Confirm(b, d) BY <3>3
      <4>2. d = c BY <3>1, <4>1, ConfirmIsSound DEF OnceInv
      <4>3. QED BY <4>1, <4>2
    <3>4. CASE h = Added(b) BY <3>1, <3>4, AddedIsNoConfirm
    <3>5. QED BY <1>2, <3>1, <3>2, <3>3, <3>4
  <2>2. QED BY <2>1
<1>5. ASSUME NEW c \in Block
      PROVE  /\ confirmations[c] \in Nat /\ NewCount(b, c) \in Nat
             /\ NewCount(b, c) >= confirmations[c] /\ confirmations'[c] = NewCount(b, c)
             /\ \A h \in Running(c) : h.left \subseteq 0..confirmations[c] - 1
             /\ seen[c] \subseteq 0..confirmations[c] - 1 /\ seen'[c] = seen[c]
  BY <1>1, NewCountIsAbove DEF OnceInv, Counts, IsBelowCount, UnderWay
<1>6. IsBelowCount'
  <2>1. ASSUME NEW c \in Block PROVE seen'[c] \cup UnderWay(c)' \subseteq 0..confirmations'[c] - 1
    <3>1. \A h \in Running(c)' : h.left \subseteq 0..confirmations'[c] - 1
      <4>1. 0..confirmations[c] - 1 \subseteq 0..confirmations'[c] - 1 BY <1>5
      <4>2. c \in Walked(b) => Confirm(b, c).left \subseteq 0..confirmations'[c] - 1
        BY <1>5, ConfirmIsSound DEF OnceInv
      <4>3. QED BY <1>4, <1>5, <4>1, <4>2
    <3>2. seen'[c] \subseteq 0..confirmations'[c] - 1 BY <1>5
    <3>3. QED BY <3>1, <3>2 DEF UnderWay
  <2>2. QED BY <2>1 DEF OnceInv, IsBelowCount
<1>7. ConfirmedOnce'
  <2>1. ASSUME NEW c \in Block
        PROVE  /\ seen'[c] \cap UnderWay(c)' = {}
               /\ \A g, h \in Running(c)' : g # h => g.left \cap h.left = {}
    <3>1. seen[c] \cap UnderWay(c) = {} /\ \A g, h \in Running(c) : g # h => g.left \cap h.left = {}
      BY DEF OnceInv, ConfirmedOnce
    <3>2. \A h \in Running(c) : seen[c] \cap h.left = {} BY <3>1 DEF UnderWay
    <3>3. c \in Walked(b) => Confirm(b, c).left \cap 0..confirmations[c] - 1 = {}
      BY ConfirmIsSound DEF OnceInv
    <3>4. \A h \in Running(c)' : seen'[c] \cap h.left = {} BY <1>4, <1>5, <3>2, <3>3
    <3>5. ASSUME NEW g \in Running(c)', NEW h \in Running(c)', g # h PROVE g.left \cap h.left = {}
      BY <1>4, <1>5, <3>1, <3>3, <3>5
    <3>6. QED BY <3>4, <3>5 DEF UnderWay
  <2>2. QED BY <2>1 DEF ConfirmedOnce
<1>8. QED BY <1>1, <1>3, <1>6, <1>7 DEF OnceInv

\* Handlers are replaced by others that run part of what they had to run, and of that part the
\* module has had nothing.
IsRemainder(h, g) ==
  /\ IsRecord(g) /\ g.kind = h.kind /\ g.block = h.block
  /\ g.left \subseteq h.left /\ (g.left = h.left \/ IsInterval(g.left))

LEMMA HandlerStep ==
  ASSUME OnceInv, NEW h \in handlers, NEW ran,
         UNCHANGED <<confirmations, stored>>,
         \/ handlers' = handlers \ {h}
         \/ \E g : /\ handlers' = (handlers \ {h}) \cup {g}
                   /\ IsRemainder(h, g) /\ (h.kind = "confirm" => g.left \cap ran = {}),
         \/ ran = {} /\ seen' = seen
         \/ /\ h.kind = "confirm" /\ ran \subseteq h.left
            /\ seen' = [seen EXCEPT ![h.block] = @ \cup ran]
  PROVE  OnceInv'
<1>1. Counts' BY DEF OnceInv, Counts
<1>2. ASSUME NEW k \in handlers'
      PROVE  \/ k \in handlers /\ k # h
             \/ IsRemainder(h, k) /\ (h.kind = "confirm" => k.left \cap ran = {})
  OBVIOUS
<1>3. HandlersAreSound'
  <2>1. ASSUME NEW k \in handlers'
        PROVE  IsRecord(k) /\ (k.kind = "confirm" /\ k.block \in Block => IsInterval(k.left))
    BY <1>2 DEF OnceInv, HandlersAreSound, IsRemainder
  <2>2. QED BY <2>1 DEF HandlersAreSound
<1>4. ASSUME NEW c \in Block
      PROVE  /\ confirmations'[c] = confirmations[c]
             /\ \A k \in Running(c) : k.left \subseteq 0..confirmations[c] - 1
             /\ \A k \in Running(c) : seen[c] \cap k.left = {}
             /\ \A k, l \in Running(c) : k # l => k.left \cap l.left = {}
             /\ seen[c] \subseteq 0..confirmations[c] - 1
  BY DEF OnceInv, IsBelowCount, ConfirmedOnce, UnderWay
<1>5. ASSUME NEW c \in Block
      PROVE  \A k \in Running(c)' :
               \/ k \in Running(c) /\ k # h
               \/ h \in Running(c) /\ k.left \subseteq h.left /\ k.left \cap ran = {}
  BY <1>2 DEF Running, IsRemainder
<1>6. seen \in [Block -> SUBSET Nat] BY DEF OnceInv, IsBelowCount
<1>7. ASSUME NEW c \in Block
      PROVE  \/ seen'[c] = seen[c]
             \/ h \in Running(c) /\ ran \subseteq h.left /\ seen'[c] = seen[c] \cup ran
  BY <1>6 DEF Running
<1>8. ASSUME NEW c \in Block, NEW k \in Running(c)', NEW l \in Running(c)', k # l
      PROVE  k.left \cap l.left = {}
  <2>1. CASE k \in Running(c) /\ k # h /\ l \in Running(c) /\ l # h BY <1>4, <1>8, <2>1
  <2>2. CASE k \in Running(c) /\ k # h /\ ~(l \in Running(c) /\ l # h) BY <1>4, <1>5, <2>2
  <2>3. CASE ~(k \in Running(c) /\ k # h) /\ l \in Running(c) /\ l # h BY <1>4, <1>5, <2>3
  <2>4. CASE ~(k \in Running(c) /\ k # h) /\ ~(l \in Running(c) /\ l # h)
    <3>1. k \in handlers' /\ l \in handlers' BY DEF Running
    <3>2. k \notin handlers \ {h} /\ l \notin handlers \ {h} BY <2>4 DEF Running
    <3>3. QED BY <1>8, <3>1, <3>2
  <2>5. QED BY <2>1, <2>2, <2>3, <2>4
<1>9. ASSUME NEW c \in Block
      PROVE  \A k \in Running(c)' : seen'[c] \cap k.left = {}
  <2>1. ASSUME NEW k \in Running(c)' PROVE seen'[c] \cap k.left = {}
    BY <1>4, <1>5, <1>7
  <2>2. QED BY <2>1
<1>10. ASSUME NEW c \in Block
       PROVE  /\ \A k \in Running(c)' : k.left \subseteq 0..confirmations'[c] - 1
              /\ seen'[c] \subseteq 0..confirmations'[c] - 1
  BY <1>4, <1>5, <1>7
<1>11. ConfirmedOnce' BY <1>8, <1>9 DEF ConfirmedOnce, UnderWay
<1>12. seen' \in [Block -> SUBSET Nat]
  <2>1. seen' = seen \/ seen' = [seen EXCEPT ![h.block] = @ \cup ran] OBVIOUS
  <2>2. \A c \in Block : seen'[c] \subseteq Nat
    BY <1>4, <1>10 DEF OnceInv, Counts
  <2>3. QED BY <1>6, <2>1, <2>2
<1>13. IsBelowCount' BY <1>10, <1>12 DEF IsBelowCount, UnderWay
<1>14. QED BY <1>1, <1>3, <1>11, <1>13 DEF OnceInv

\* A handler that goes on, and one that ends, without a call of the module.
LEMMA HandlerGoesOn ==
  ASSUME OnceInv, NEW h \in handlers, UNCHANGED <<confirmations, stored, seen>>,
         Done(h) \/ \E at : Step(h, [h EXCEPT !.at = at])
  PROVE  OnceInv'
<1>1. IsRecord(h) BY DEF OnceInv, HandlersAreSound
<1>2. \A at : IsRemainder(h, [h EXCEPT !.at = at]) BY <1>1 DEF IsRemainder, IsRecord
<1>3. \/ handlers' = handlers \ {h}
      \/ \E g : /\ handlers' = (handlers \ {h}) \cup {g}
                /\ IsRemainder(h, g) /\ (h.kind = "confirm" => g.left \cap {} = {})
  BY <1>2 DEF Done, Step
<1>4. QED BY <1>3, HandlerStep

LEMMA CallBackStep ==
  ASSUME OnceInv, NEW h \in handlers, CallBack(h)
  PROVE  OnceInv'
<1> DEFINE next == Min(h.left)
           rest == h.left \ {next}
<1>1. h.kind = "confirm" /\ seen' = [seen EXCEPT ![h.block] = @ \cup {next}]
  BY DEF CallBack
<1>2. UNCHANGED <<confirmations, stored>> BY DEF CallBack, coreVars
<1>3. handlers' = handlers \ {h} \/ handlers' = (handlers \ {h}) \cup {[h EXCEPT !.left = rest]}
  BY DEF CallBack, Done, Step
<1>4. rest = {} => handlers' = handlers \ {h} BY DEF CallBack, Done
<1>5. IsRecord(h) BY DEF OnceInv, HandlersAreSound
<1>6. CASE h.block \in Block
  <2>1. next \in h.left /\ (rest = {} \/ IsInterval(rest))
    BY <1>1, <1>6, MinOfInterval DEF OnceInv, HandlersAreSound
  <2>2. rest # {} => IsRemainder(h, [h EXCEPT !.left = rest])
    BY <2>1, <1>5 DEF IsRemainder, IsRecord
  <2>3. [h EXCEPT !.left = rest].left = rest BY <1>5 DEF IsRecord
  <2>4. \/ handlers' = handlers \ {h}
        \/ \E g : /\ handlers' = (handlers \ {h}) \cup {g}
                  /\ IsRemainder(h, g) /\ (h.kind = "confirm" => g.left \cap {next} = {})
    BY <1>3, <1>4, <2>2, <2>3
  <2>5. QED BY <1>1, <1>2, <2>1, <2>4, HandlerStep
<1>7. CASE h.block \notin Block
  <2>1. seen' = seen
    BY <1>1, <1>7 DEF OnceInv, IsBelowCount
  <2>2. \A c \in Block : Running(c)' = Running(c)
    <3>1. \A k : k \in handlers' /\ k \notin handlers => k.block = h.block
      BY <1>3, <1>5 DEF IsRecord
    <3>2. QED BY <1>3, <1>7, <3>1 DEF Running
  <2>3. Counts' BY <1>2 DEF OnceInv, Counts
  <2>4. HandlersAreSound'
    <3>1. IsRecord([h EXCEPT !.left = rest]) /\ [h EXCEPT !.left = rest].block = h.block
      BY <1>5 DEF IsRecord
    <3>2. QED BY <1>3, <1>7, <3>1 DEF OnceInv, HandlersAreSound
  <2>5. IsBelowCount' /\ ConfirmedOnce'
    BY <1>2, <2>1, <2>2 DEF OnceInv, IsBelowCount, ConfirmedOnce, UnderWay
  <2>6. QED BY <2>3, <2>4, <2>5 DEF OnceInv
<1>8. QED BY <1>6, <1>7

\* What changes none of it.
LEMMA OnceFrame ==
  ASSUME OnceInv, UNCHANGED <<confirmations, stored, handlers, seen>>
  PROVE  OnceInv'
BY DEF OnceInv, Counts, HandlersAreSound, IsBelowCount, ConfirmedOnce, UnderWay, Running

LEMMA AddBlockStep ==
  ASSUME OnceInv, NEW b \in Block, AddBlock(b)
  PROVE  OnceInv'
<1>1. CASE OnConfirmation(b) BY <1>1, OnConfirmationStep DEF AddBlock
<1>2. CASE handlers' = handlers \cup {Added(b)} /\ UNCHANGED <<confirmations, stored>>
  <2>1. seen' = seen BY DEF AddBlock
  <2>2. \A c : Running(c)' = Running(c) BY <1>2, AddedIsNoConfirm DEF Running
  <2>3. Counts' BY <1>2 DEF OnceInv, Counts
  <2>4. HandlersAreSound' BY <1>2, AddedIsNoConfirm DEF OnceInv, HandlersAreSound
  <2>5. IsBelowCount' /\ ConfirmedOnce'
    BY <1>2, <2>1, <2>2 DEF OnceInv, IsBelowCount, ConfirmedOnce, UnderWay
  <2>6. QED BY <2>3, <2>4, <2>5 DEF OnceInv
<1>3. QED BY <1>1, <1>2 DEF AddBlock

LEMMA HandleStep ==
  ASSUME OnceInv, NEW h \in handlers, Handle(h)
  PROVE  OnceInv'
<1>1. CASE LookUp(h) BY <1>1, HandlerGoesOn DEF LookUp, coreVars
<1>2. CASE AffixCallbacks(h) BY <1>2, HandlerGoesOn DEF AffixCallbacks, coreVars
<1>3. CASE RunCallbacks(h) BY <1>3, HandlerGoesOn DEF RunCallbacks, coreVars
<1>4. CASE CallBack(h) BY <1>4, CallBackStep
<1>5. CASE SeeAdded(h) BY <1>5, HandlerGoesOn DEF SeeAdded, coreVars
<1>6. CASE DeleteCallbacks(h) BY <1>6, HandlerGoesOn DEF DeleteCallbacks, coreVars
<1>7. QED BY <1>1, <1>2, <1>3, <1>4, <1>5, <1>6 DEF Handle

LEMMA OnceInit == Init => OnceInv
BY DEF Init, OnceInv, Counts, HandlersAreSound, IsBelowCount, ConfirmedOnce, UnderWay, Running

LEMMA OnceNext == OnceInv /\ [Next]_vars => OnceInv'
<1> SUFFICES ASSUME OnceInv, [Next]_vars PROVE OnceInv'
  OBVIOUS
<1>1. ASSUME NEW b \in Block, AddBlock(b) PROVE OnceInv' BY <1>1, AddBlockStep
<1>2. CASE Release BY <1>2, OnceFrame DEF Release
<1>3. ASSUME NEW h \in handlers, Handle(h) PROVE OnceInv' BY <1>3, HandleStep
<1>4. CASE UNCHANGED vars BY <1>4, OnceFrame DEF vars, coreVars
<1>5. QED BY <1>1, <1>2, <1>3, <1>4 DEF Next

-----------------------------------------------------------------------------

\* A module is told of every confirmation of its transaction once, whatever the forks and
\* however the handlers of saito-js overtake each other.
THEOREM ConfirmedOnceAlways == Spec => []ConfirmedOnce
<1>1. OnceInv => ConfirmedOnce BY DEF OnceInv
<1>2. QED BY <1>1, OnceInit, OnceNext, PTL DEF Spec

-----------------------------------------------------------------------------
(* The chain *)

\* A set that has the parent of each of its blocks.
IsClosed(S) == \A c \in S : Parent[c] # NoBlock => Parent[c] \in S

\* What every closed set around b has: the chain of b without recursion.
Line == [b \in Block \cup {NoBlock} |->
           {c \in Block : b # NoBlock /\ \A S \in SUBSET Block : b \in S /\ IsClosed(S) => c \in S}]

\* The recursive definition of Chain has a solution, so that Chain is one.
LEMMA ChainOf ==
  /\ Chain[NoBlock] = {}
  /\ \A b \in Block : Chain[b] = {b} \cup Chain[Parent[b]]
<1> DEFINE D == Block \cup {NoBlock}
           IsChain(f) == f = [b \in D |-> IF b = NoBlock THEN {} ELSE {b} \cup f[Parent[b]]]
<1>1. ASSUME NEW b \in Block PROVE Line[b] = {b} \cup Line[Parent[b]]
  <2> DEFINE p == Parent[b]
  <2>1. p \in D /\ b # NoBlock /\ b \in D BY ConfirmationsAssumption
  <2>2. ASSUME NEW c \in Line[b] PROVE c \in {b} \cup Line[p]
    <3> DEFINE S == {b} \cup Line[p]
    <3>1. S \in SUBSET Block BY <2>1 DEF Line
    <3>2. p # NoBlock => p \in Line[p] BY <2>1 DEF Line
    <3>3. ASSUME NEW x \in Line[p], Parent[x] # NoBlock PROVE Parent[x] \in Line[p]
      <4>1. x \in Block /\ p # NoBlock /\ \A T \in SUBSET Block : p \in T /\ IsClosed(T) => x \in T
        BY <2>1 DEF Line
      <4>2. \A T \in SUBSET Block : p \in T /\ IsClosed(T) => Parent[x] \in T
        BY <4>1, <3>3 DEF IsClosed
      <4>3. Parent[x] \in Block BY <4>1, <3>3, ConfirmationsAssumption
      <4>4. QED BY <2>1, <4>1, <4>2, <4>3 DEF Line
    <3>4. IsClosed(S) BY <3>2, <3>3 DEF IsClosed
    <3>5. QED BY <2>1, <2>2, <3>1, <3>4 DEF Line
  <2>3. b \in Line[b] BY <2>1 DEF Line
  <2>4. ASSUME NEW c \in Line[p] PROVE c \in Line[b]
    <3>1. c \in Block /\ p # NoBlock /\ \A S \in SUBSET Block : p \in S /\ IsClosed(S) => c \in S
      BY <2>1 DEF Line
    <3>2. \A S \in SUBSET Block : b \in S /\ IsClosed(S) => c \in S
      BY <3>1 DEF IsClosed
    <3>3. QED BY <2>1, <3>1, <3>2 DEF Line
  <2>5. QED BY <2>2, <2>3, <2>4
<1>2. Line[NoBlock] = {} BY DEF Line
<1>3. \A b \in D : Line[b] = IF b = NoBlock THEN {} ELSE {b} \cup Line[Parent[b]]
  BY <1>1, <1>2
<1>4. IsChain(Line) BY <1>3 DEF Line
<1>5. Chain = CHOOSE f : IsChain(f) BY DEF Chain
<1> HIDE DEF IsChain
<1>6. IsChain(Chain) BY <1>4, <1>5
<1> USE DEF IsChain
<1>7. \A b \in D : Chain[b] = IF b = NoBlock THEN {} ELSE {b} \cup Chain[Parent[b]]
  BY <1>6
<1>8. QED BY <1>7, ConfirmationsAssumption

\* The chains of the blocks of S part from one another downwards only, and end above one height.
IsTree(S, base) ==
  \A b \in S :
    /\ Chain[b] \subseteq S /\ IsFiniteSet(Chain[b])
    /\ Cardinality(Chain[b]) = Height[b] - base
    /\ \A c \in Chain[b] : /\ c = b \/ Height[c] < Height[b]
                           /\ base < Height[c] /\ Chain[c] \subseteq Chain[b]
    /\ \A c, d \in Chain[b] : Height[c] <= Height[d] => c \in Chain[d]
    /\ \A n \in base + 1..Height[b] : \E c \in Chain[b] : Height[c] = n

LEMMA TreeStarts ==
  ASSUME NEW b \in Block, Parent[b] = NoBlock
  PROVE  Height[b] - 1 \in Nat /\ IsTree({b}, Height[b] - 1)
<1>1. Chain[b] = {b} BY ChainOf
<1>2. IsFiniteSet({b}) /\ Cardinality({b}) = 1 BY FS_Singleton
<1>3. Height[b] \in Nat \ {0} BY ConfirmationsAssumption
<1>4. Height[b] - 1 \in Nat /\ Height[b] - 1 < Height[b] /\ Height[b] - (Height[b] - 1) = 1
  BY <1>3
<1>5. \A n \in Height[b] - 1 + 1..Height[b] : n = Height[b] BY <1>3
<1> DEFINE base == Height[b] - 1
<1>6. IsTree({b}, base)
  <2> HIDE DEF base
  <2>1. /\ base < Height[b] /\ Height[b] - base = 1
        /\ \A n \in base + 1..Height[b] : n = Height[b]
    BY <1>4, <1>5 DEF base
  <2>2. QED BY <1>1, <1>2, <2>1 DEF IsTree
<1>7. QED BY <1>4, <1>6

LEMMA TreeGrows ==
  ASSUME NEW S \in SUBSET Block, NEW base \in Nat, IsTree(S, base),
         NEW b \in Block \ S, Parent[b] \in S
  PROVE  IsTree(S \cup {b}, base)
<1> DEFINE p == Parent[b]
<1>1. /\ p \in Block /\ p # b /\ Height[b] \in Nat /\ Height[p] \in Nat /\ Height[b] = Height[p] + 1
      /\ \A c \in Block : Height[c] \in Nat
  BY ConfirmationsAssumption
<1>2. Chain[b] = {b} \cup Chain[p] BY ChainOf
<1>3. /\ Chain[p] \subseteq S /\ IsFiniteSet(Chain[p]) /\ Cardinality(Chain[p]) = Height[p] - base
      /\ \A c \in Chain[p] : /\ c = p \/ Height[c] < Height[p]
                             /\ base < Height[c] /\ Chain[c] \subseteq Chain[p]
      /\ \A c, d \in Chain[p] : Height[c] <= Height[d] => c \in Chain[d]
      /\ \A n \in base + 1..Height[p] : \E c \in Chain[p] : Height[c] = n
  BY DEF IsTree
<1>4. p \in Chain[p] BY <1>1, ChainOf
<1>5. \A c \in Chain[p] : Height[c] < Height[b] /\ c # b BY <1>1, <1>3
<1>6. Chain[b] \subseteq S \cup {b} /\ b \notin Chain[p] BY <1>2, <1>3
<1>7. IsFiniteSet(Chain[b]) /\ Cardinality(Chain[b]) = Height[b] - base
  <2> DEFINE C == Chain[p]
  <2>1. IsFiniteSet(C) /\ Cardinality(C) = Height[p] - base /\ b \notin C BY <1>3, <1>6
  <2>2. Chain[b] = C \cup {b} BY <1>2
  <2> HIDE DEF C
  <2>3. IsFiniteSet(C \cup {b}) /\ Cardinality(C \cup {b}) = Cardinality(C) + 1
    BY <2>1, FS_AddElement
  <2>4. QED BY <1>1, <2>1, <2>2, <2>3
<1>8. ASSUME NEW c \in Chain[b]
      PROVE  (c = b \/ Height[c] < Height[b]) /\ base < Height[c] /\ Chain[c] \subseteq Chain[b]
  BY <1>1, <1>2, <1>3, <1>4, <1>5
<1>9. ASSUME NEW c \in Chain[b], NEW d \in Chain[b], Height[c] <= Height[d] PROVE c \in Chain[d]
  <2>1. CASE d = b BY <2>1
  <2>2. CASE d # b
    <3>1. d \in Chain[p] /\ Height[d] < Height[b] BY <1>2, <1>5, <2>2
    <3>2. Height[d] \in Nat BY <1>1, <1>3, <3>1
    <3>3. c # b BY <1>1, <1>9, <3>1, <3>2
    <3>4. QED BY <1>2, <1>3, <1>9, <3>1, <3>3
  <2>3. QED BY <2>1, <2>2
<1>10. ASSUME NEW n \in base + 1..Height[b] PROVE \E c \in Chain[b] : Height[c] = n
  <2>1. CASE n = Height[b] BY <1>2, <2>1
  <2>2. CASE n # Height[b]
    <3>1. n \in base + 1..Height[p] BY <1>1, <2>2
    <3>2. QED BY <1>2, <1>3, <3>1
  <2>3. QED BY <2>1, <2>2
<1>11. QED BY <1>6, <1>7, <1>8, <1>9, <1>10 DEF IsTree

\* What a chain needs to become the longest: more blocks of its own make it higher.
LEMMA LongerIsHigher ==
  ASSUME NEW S \in SUBSET Block, NEW base \in Nat, IsTree(S, base), NEW a \in S, NEW b \in S,
         Cardinality(Chain[a] \ Chain[b]) < Cardinality(Chain[b] \ Chain[a])
  PROVE  Height[a] < Height[b]
<1> DEFINE A == Chain[a]
           B == Chain[b]
<1>1. /\ IsFiniteSet(A) /\ IsFiniteSet(B)
      /\ Cardinality(A) = Height[a] - base /\ Cardinality(B) = Height[b] - base
  BY DEF IsTree
<1>2. Height[a] \in Nat /\ Height[b] \in Nat BY ConfirmationsAssumption
<1> HIDE DEF A, B
<1>3. /\ Cardinality(A \ B) = Cardinality(A) - Cardinality(A \cap B)
      /\ Cardinality(B \ A) = Cardinality(B) - Cardinality(B \cap A)
  BY <1>1, FS_Difference
<1>4. A \cap B = B \cap A OBVIOUS
<1>5. Cardinality(A \cap B) \in Nat BY <1>1, FS_Intersection, FS_CardinalityType
<1>6. Cardinality(A \ B) < Cardinality(B \ A) BY DEF A, B
<1>7. QED BY <1>1, <1>2, <1>3, <1>4, <1>5, <1>6

-----------------------------------------------------------------------------
(* The tree of the blocks that were added *)

TreeInv ==
  /\ added \subseteq Block
  /\ tip \in added \cup {NoBlock} /\ (tip = NoBlock => added = {})
  /\ \E base \in Nat : IsTree(added, base)

\* Of every step that adds a block.
LEMMA AddBlockKeepsTree ==
  ASSUME TreeInv, NEW b \in Block, AddBlock(b)
  PROVE  /\ TreeInv'
         /\ tip' = tip \/ (tip' = b /\ HeightOf(tip) < Height[b])
<1>1. /\ b \notin added /\ added' = added \cup {b}
      /\ IF Parent[b] = NoBlock THEN added = {} ELSE Parent[b] \in added
  BY DEF AddBlock
<1>2. PICK base \in Nat : IsTree(added, base) BY DEF TreeInv
<1>3. \E low \in Nat : IsTree(added', low)
  <2>1. CASE Parent[b] = NoBlock
    <3>1. added' = {b} BY <1>1, <2>1
    <3>2. QED BY <2>1, <3>1, TreeStarts
  <2>2. CASE Parent[b] # NoBlock
    <3>1. IsTree(added \cup {b}, base) BY <1>1, <1>2, <2>2, TreeGrows DEF TreeInv
    <3>2. QED BY <1>1, <3>1
  <2>3. QED BY <2>1, <2>2
<1>4. tip' = b \/ (tip' = tip /\ tip # Parent[b]) BY DEF AddBlock, MustJoin
<1>5. tip' \in added' \cup {NoBlock} /\ (tip' = NoBlock => added' = {})
  <2>1. CASE tip' = b BY <1>1, <2>1, ConfirmationsAssumption
  <2>2. CASE tip' = tip /\ tip # Parent[b]
    BY <1>1, <2>2 DEF TreeInv
  <2>3. QED BY <1>4, <2>1, <2>2
<1>6. ASSUME tip' # tip PROVE tip' = b /\ HeightOf(tip) < Height[b]
  <2>1. tip' = b /\ MayJoin(b) BY <1>6 DEF AddBlock
  <2>2. CASE tip = NoBlock BY <2>1, <2>2, ConfirmationsAssumption DEF HeightOf
  <2>3. CASE tip # NoBlock
    <3>1. tip \in added' /\ b \in added' /\ added' \in SUBSET Block BY <1>1, <2>3 DEF TreeInv
    <3>2. Height[tip] < Height[b] BY <1>3, <2>1, <3>1, LongerIsHigher DEF MayJoin
    <3>3. QED BY <2>1, <2>3, <3>2 DEF HeightOf
  <2>4. QED BY <2>2, <2>3
<1>7. added' \subseteq Block BY <1>1 DEF TreeInv
<1>8. QED BY <1>3, <1>5, <1>6, <1>7 DEF TreeInv

-----------------------------------------------------------------------------
(* The kinds of the values *)

\* What TypeOK needs to go on: callbacks are kept for blocks that were added.
KindInv == TypeOK /\ \A h \in handlers : h.block \in added

\* The parts of TypeOK that on_confirmation and the handlers rely on.
LEMMA KindsOf ==
  ASSUME KindInv
  PROVE  /\ added \subseteq Block
         /\ Limit \in Nat \ {0} /\ \A c \in Block : confirmations[c] \in 0..Limit
         /\ DOMAIN stored \subseteq Block /\ \A c \in DOMAIN stored : stored[c] \in 1..Limit
         /\ \A h \in handlers : h \in Handler /\ h.block \in added /\ h.block \in Block
         /\ Counts
<1>1. TypeOK /\ \A h \in handlers : h.block \in added BY DEF KindInv
<1>2. added \subseteq Block /\ DOMAIN stored \subseteq added BY <1>1 DEF TypeOK
<1>3. confirmations \in [Block -> 0..Limit] /\ \A c \in DOMAIN stored : stored[c] \in 1..Limit
  BY <1>1 DEF TypeOK
<1>4. handlers \subseteq Handler BY <1>1 DEF TypeOK
<1>5. Limit \in Nat \ {0} BY ConfirmationsAssumption
<1>6. Counts BY <1>2, <1>3, <1>5 DEF Counts
<1>7. QED BY <1>1, <1>2, <1>3, <1>4, <1>5, <1>6

LEMMA AskedBounds ==
  ASSUME NEW b \in Block, NEW c \in Block
  PROVE  /\ Depth(b, c) \in Int /\ Asked(b, c) \in Int
         /\ Asked(b, c) <= Depth(b, c) + 1 /\ Asked(b, c) <= Limit
         /\ Asked(b, c) = Depth(b, c) + 1 \/ Asked(b, c) = Limit
<1>1. Depth(b, c) \in Int /\ Limit \in Int BY ConfirmationsAssumption DEF Depth
<1>2. Depth(b, c) + 1 \in Int BY <1>1
<1> DEFINE x == Depth(b, c) + 1
<1> HIDE DEF x
<1>3. Min({x, Limit}) \in {x, Limit} /\ Min({x, Limit}) <= x /\ Min({x, Limit}) <= Limit
  BY <1>1, <1>2, MinOfTwo DEF x
<1>4. Asked(b, c) = Min({x, Limit}) BY DEF Asked, x
<1>5. QED BY <1>1, <1>2, <1>3, <1>4 DEF x

LEMMA NewCountBounds ==
  ASSUME KindInv, NEW b \in Block, NEW c \in Block
  PROVE  /\ NewCount(b, c) \in 0..Limit
         /\ c \in Walked(b) => Asked(b, c) \in 1..Limit /\ Counted(c) \in 0..Asked(b, c) - 1
<1>1. /\ Counts /\ Limit \in Nat \ {0} /\ confirmations[c] \in 0..Limit
      /\ c \in DOMAIN stored => stored[c] \in 1..Limit
  BY KindsOf
<1>2. Counted(c) \in 0..Limit
  <2>1. CASE IsStored(c)
    <3>1. stored[c] \in 1..Limit BY <1>1, <2>1 DEF IsStored
    <3>2. Max({confirmations[c], stored[c]}) \in {confirmations[c], stored[c]}
      <4>1. confirmations[c] \in Int /\ stored[c] \in Int BY <1>1, <3>1
      <4>2. QED BY <4>1, MaxOfTwo, Zenon
    <3>3. Counted(c) = Max({confirmations[c], stored[c]}) BY <2>1 DEF Counted
    <3>4. QED BY <1>1, <3>1, <3>2, <3>3
  <2>2. CASE ~IsStored(c) BY <1>1, <2>2 DEF Counted
  <2>3. QED BY <2>1, <2>2
<1>3. ASSUME c \in Walked(b) PROVE Asked(b, c) \in 1..Limit /\ Counted(c) \in 0..Asked(b, c) - 1
  <2>1. Asked(b, c) \in Nat /\ Counted(c) < Asked(b, c) BY <1>1, <1>3, WalkedIsAbove
  <2>2. Asked(b, c) <= Limit BY AskedBounds
  <2>3. QED BY <1>1, <1>2, <2>1, <2>2
<1>4. NewCount(b, c) \in 0..Limit
  <2>1. CASE c \in Walked(b) BY <1>1, <1>3, <2>1 DEF NewCount
  <2>2. CASE c \notin Walked(b) BY <1>1, <1>2, <2>2 DEF NewCount
  <2>3. QED BY <2>1, <2>2
<1>5. QED BY <1>3, <1>4

LEMMA ConfirmIsHandler ==
  ASSUME KindInv, NEW b \in Block, NEW c \in Block, c \in Walked(b)
  PROVE  /\ Confirm(b, c) \in Handler /\ Confirm(b, c).left # {}
         /\ Confirm(b, c).kind = "confirm" /\ Confirm(b, c).block = c /\ Confirm(b, c).at = "lookup"
         /\ Confirm(b, c).left = Counted(c)..Asked(b, c) - 1
<1>1. Asked(b, c) \in 1..Limit /\ Counted(c) \in 0..Asked(b, c) - 1 BY NewCountBounds
<1>2. Limit \in Nat BY ConfirmationsAssumption
<1> DEFINE left == Counted(c)..Asked(b, c) - 1
<1>3. left \in SUBSET (0..Limit - 1) /\ left # {} BY <1>1, <1>2
<1>4. Confirm(b, c) = [kind |-> "confirm", block |-> c, at |-> "lookup", left |-> left]
  BY DEF Confirm
<1> HIDE DEF left
<1>5. Confirm(b, c) \in Handler BY <1>3, <1>4 DEF Handler
<1>6. QED BY <1>3, <1>4, <1>5 DEF left

LEMMA AddedIsHandler ==
  ASSUME NEW b \in Block
  PROVE  /\ Added(b) \in Handler
         /\ Added(b).kind = "added" /\ Added(b).block = b /\ Added(b).at = "lookup"
BY DEF Added, Handler

\* A handler that goes on is one for the same block, with the same to run.
LEMMA HandlerAt ==
  ASSUME NEW h \in Handler, NEW at,
         \/ h.kind = "confirm" /\ at \in {"lookup", "affix", "again", "run"}
         \/ h.kind = "added" /\ at \in {"lookup", "delete"}
  PROVE  /\ [h EXCEPT !.at = at] \in Handler
         /\ [h EXCEPT !.at = at].kind = h.kind /\ [h EXCEPT !.at = at].block = h.block
         /\ [h EXCEPT !.at = at].left = h.left /\ [h EXCEPT !.at = at].at = at
BY DEF Handler

LEMMA HandlerLeft ==
  ASSUME NEW h \in Handler, h.kind = "confirm", NEW left \in SUBSET h.left
  PROVE  /\ [h EXCEPT !.left = left] \in Handler
         /\ [h EXCEPT !.left = left].kind = h.kind /\ [h EXCEPT !.left = left].block = h.block
         /\ [h EXCEPT !.left = left].left = left /\ [h EXCEPT !.left = left].at = h.at
BY DEF Handler

LEMMA OnConfirmationKinds ==
  ASSUME KindInv, TreeInv', NEW b \in Block, b \in added', added \subseteq added',
         safe \subseteq safe', safe' \subseteq added',
         OnConfirmation(b), UNCHANGED <<callbacks, seen>>,
         tip' \in added', busy' \in BOOLEAN
  PROVE  KindInv'
<1>1. added' \subseteq Block /\ Chain[b] \subseteq added' BY DEF TreeInv, IsTree
<1>2. Walked(b) \subseteq added' /\ Walked(b) \subseteq Block BY <1>1 DEF Walked
<1>3. TypeOK /\ handlers \subseteq Handler /\ \A h \in handlers : h.block \in added
  BY DEF KindInv, TypeOK
<1>4. confirmations' \in [Block -> 0..Limit] BY NewCountBounds DEF OnConfirmation
<1>5. DOMAIN stored' \subseteq added' /\ \A c \in DOMAIN stored' : stored'[c] \in 1..Limit
  <2>1. PICK kept \in Kept(b) :
          stored' = [c \in Walked(b) \cup kept |-> IF c \in Walked(b) THEN Asked(b, c) ELSE stored[c]]
    BY DEF OnConfirmation
  <2>2. kept \subseteq DOMAIN stored BY DEF Kept
  <2>3. DOMAIN stored \subseteq added /\ \A c \in DOMAIN stored : stored[c] \in 1..Limit
    BY <1>3 DEF TypeOK
  <2>4. \A c \in Walked(b) : Asked(b, c) \in 1..Limit BY <1>2, NewCountBounds
  <2>5. QED BY <1>2, <2>1, <2>2, <2>3, <2>4
<1>6. pruned' \subseteq safe'
  <2>1. pruned' \subseteq pruned \cup safe
    BY DEF OnConfirmation, Upgraded, PrunedOnTheWay, Below
  <2>2. pruned \subseteq safe BY <1>3 DEF TypeOK
  <2>3. QED BY <2>1, <2>2
<1>7. ASSUME NEW h \in handlers'
      PROVE  h \in Handler /\ h.block \in added' /\ (h.kind = "confirm" => h.left # {})
  <2>1. h \in handlers \/ (\E c \in Walked(b) : h = Confirm(b, c)) \/ h = Added(b)
    BY DEF OnConfirmation
  <2>2. CASE h \in handlers BY <1>3, <2>2 DEF TypeOK
  <2>3. ASSUME NEW c \in Walked(b), h = Confirm(b, c)
        PROVE  h \in Handler /\ h.block \in added' /\ (h.kind = "confirm" => h.left # {})
    BY <1>2, <2>3, ConfirmIsHandler
  <2>4. CASE h = Added(b) BY <2>4, AddedIsHandler
  <2>5. QED BY <2>1, <2>2, <2>3, <2>4
<1>8. callbacks' \subseteq added' /\ seen' \in [Block -> SUBSET (0..Limit - 1)]
  BY <1>3 DEF TypeOK
<1>9. handlers' \subseteq Handler /\ \A h \in handlers' : h.kind = "confirm" => h.left # {}
  BY <1>7
<1>10. tip' \in added' \cup {NoBlock} OBVIOUS
<1>11. TypeOK' BY <1>1, <1>4, <1>5, <1>6, <1>8, <1>9, <1>10 DEF TypeOK
<1>12. QED BY <1>7, <1>11 DEF KindInv

LEMMA AddBlockKinds ==
  ASSUME KindInv, TreeInv, NEW b \in Block, AddBlock(b)
  PROVE  KindInv'
<1>1. TreeInv' BY AddBlockKeepsTree
<1>2. TypeOK /\ \A h \in handlers : h.block \in added BY DEF KindInv
<1>3. /\ added' = added \cup {b} /\ busy' = TRUE /\ UNCHANGED <<callbacks, seen>>
      /\ safe' = IF \E c \in added : Height[c] = Height[b] THEN safe ELSE safe \cup {b}
  BY DEF AddBlock
<1>4. safe \subseteq safe' /\ safe' \subseteq added' BY <1>2, <1>3 DEF TypeOK
<1>5. CASE tip' = b /\ OnConfirmation(b)
  <2>1. b \in added' /\ added \subseteq added' /\ busy' \in BOOLEAN BY <1>3
  <2>2. QED BY <1>1, <1>3, <1>4, <1>5, <2>1, OnConfirmationKinds
<1>6. CASE handlers' = handlers \cup {Added(b)} /\ UNCHANGED <<tip, pruned, confirmations, stored>>
  <2>1. /\ added' \subseteq Block /\ tip' \in added' \cup {NoBlock} /\ pruned' \subseteq safe'
        /\ confirmations' \in [Block -> 0..Limit] /\ busy' \in BOOLEAN
        /\ DOMAIN stored' \subseteq added' /\ callbacks' \subseteq added'
        /\ \A c \in DOMAIN stored' : stored'[c] \in 1..Limit
        /\ seen' \in [Block -> SUBSET (0..Limit - 1)]
    BY <1>2, <1>3, <1>4, <1>6 DEF TypeOK
  <2>2. /\ handlers' \subseteq Handler /\ \A h \in handlers' : h.block \in added'
        /\ \A h \in handlers' : h.kind = "confirm" => h.left # {}
    BY <1>2, <1>3, <1>6, AddedIsHandler DEF TypeOK
  <2>3. TypeOK' BY <1>4, <2>1, <2>2 DEF TypeOK
  <2>4. QED BY <2>2, <2>3 DEF KindInv
<1>7. QED BY <1>5, <1>6 DEF AddBlock

\* A handler ends, or another for its block takes its place.
LEMMA HandlerKinds ==
  ASSUME KindInv, NEW h \in handlers, UNCHANGED coreVars,
         \/ Done(h)
         \/ \E g \in Handler : /\ Step(h, g) /\ g.block = h.block
                               /\ g.kind = "confirm" => g.left # {},
         callbacks' \subseteq added, seen' \in [Block -> SUBSET (0..Limit - 1)]
  PROVE  KindInv'
<1>1. TypeOK /\ \A k \in handlers : k.block \in added BY DEF KindInv
<1>2. UNCHANGED <<added, tip, safe, pruned, confirmations, stored, busy>> BY DEF coreVars
<1>3. ASSUME NEW k \in handlers'
      PROVE  k \in Handler /\ k.block \in added' /\ (k.kind = "confirm" => k.left # {})
  <2>1. k \in handlers \/ (k \in Handler /\ k.block = h.block /\ (k.kind = "confirm" => k.left # {}))
    BY DEF Done, Step
  <2>2. QED BY <1>1, <1>2, <2>1 DEF TypeOK
<1>4. handlers' \subseteq Handler /\ \A k \in handlers' : k.kind = "confirm" => k.left # {}
  BY <1>3
<1>5. TypeOK' BY <1>1, <1>2, <1>4 DEF TypeOK
<1>6. QED BY <1>3, <1>5 DEF KindInv

LEMMA CallBackKinds ==
  ASSUME KindInv, OnceInv, NEW h \in handlers, CallBack(h)
  PROVE  KindInv'
<1> DEFINE next == Min(h.left)
           rest == h.left \ {next}
<1>1. h \in Handler /\ h.block \in Block /\ h.kind = "confirm" BY KindsOf DEF CallBack
<1>2. UNCHANGED coreVars /\ UNCHANGED callbacks BY DEF CallBack
<1>3. seen' = [seen EXCEPT ![h.block] = @ \cup {next}] BY DEF CallBack
<1>4. IF rest = {} THEN Done(h) ELSE Step(h, [h EXCEPT !.left = rest]) BY DEF CallBack
<1>5. next \in h.left BY <1>1, MinOfInterval DEF OnceInv, HandlersAreSound
<1>6. h.left \subseteq 0..Limit - 1 BY <1>1 DEF Handler
<1> HIDE DEF next
<1>7. seen' \in [Block -> SUBSET (0..Limit - 1)]
  <2>1. seen \in [Block -> SUBSET (0..Limit - 1)] BY DEF KindInv, TypeOK
  <2>2. QED BY <1>1, <1>3, <1>5, <1>6, <2>1
<1>8. callbacks' \subseteq added BY <1>2 DEF KindInv, TypeOK
<1>9. rest \in SUBSET h.left OBVIOUS
<1> HIDE DEF rest
<1>10. \/ Done(h)
       \/ \E g \in Handler : Step(h, g) /\ g.block = h.block /\ (g.kind = "confirm" => g.left # {})
  BY <1>1, <1>4, <1>9, HandlerLeft
<1>11. QED BY <1>2, <1>7, <1>8, <1>10, HandlerKinds

LEMMA HandleKinds ==
  ASSUME KindInv, OnceInv, NEW h \in handlers, Handle(h)
  PROVE  KindInv'
<1>1. /\ h \in Handler /\ h.block \in added
      /\ h.kind = "confirm" => h.left # {}
      /\ callbacks \subseteq added /\ seen \in [Block -> SUBSET (0..Limit - 1)]
  BY KindsOf DEF KindInv, TypeOK
<1>2. ASSUME NEW at, Step(h, [h EXCEPT !.at = at]),
             \/ h.kind = "confirm" /\ at \in {"lookup", "affix", "again", "run"}
             \/ h.kind = "added" /\ at \in {"lookup", "delete"}
      PROVE  \E g \in Handler : Step(h, g) /\ g.block = h.block /\ (g.kind = "confirm" => g.left # {})
  BY <1>1, <1>2, HandlerAt
<1>3. CASE LookUp(h)
  <2>1. Done(h) \/ \E at \in {"again", "affix"} : Step(h, [h EXCEPT !.at = at])
    BY <1>3 DEF LookUp
  <2>2. h.kind = "confirm" /\ UNCHANGED coreVars /\ UNCHANGED <<callbacks, seen>> BY <1>3 DEF LookUp
  <2>3. QED BY <1>1, <1>2, <2>1, <2>2, HandlerKinds
<1>4. CASE AffixCallbacks(h)
  <2>1. /\ h.kind = "confirm" /\ Step(h, [h EXCEPT !.at = "again"])
        /\ UNCHANGED coreVars /\ callbacks' = callbacks \cup {h.block} /\ UNCHANGED seen
    BY <1>4 DEF AffixCallbacks
  <2>2. QED BY <1>1, <1>2, <2>1, HandlerKinds
<1>5. CASE RunCallbacks(h)
  <2>1. /\ h.kind = "confirm" /\ (Done(h) \/ Step(h, [h EXCEPT !.at = "run"]))
        /\ UNCHANGED coreVars /\ UNCHANGED <<callbacks, seen>>
    BY <1>5 DEF RunCallbacks
  <2>2. QED BY <1>1, <1>2, <2>1, HandlerKinds
<1>6. CASE CallBack(h) BY <1>6, CallBackKinds
<1>7. CASE SeeAdded(h)
  <2>1. /\ h.kind = "added" /\ (Done(h) \/ Step(h, [h EXCEPT !.at = "delete"]))
        /\ UNCHANGED coreVars /\ UNCHANGED <<callbacks, seen>>
    BY <1>7 DEF SeeAdded
  <2>2. QED BY <1>1, <1>2, <2>1, HandlerKinds
<1>8. CASE DeleteCallbacks(h)
  <2>1. Done(h) /\ UNCHANGED coreVars /\ callbacks' \subseteq callbacks /\ UNCHANGED seen
    BY <1>8 DEF DeleteCallbacks
  <2>2. QED BY <1>1, <2>1, HandlerKinds
<1>9. QED BY <1>3, <1>4, <1>5, <1>6, <1>7, <1>8 DEF Handle

-----------------------------------------------------------------------------
(* What is lost on the way *)

\* All that makes a handler give up comes with a chain that is past the block.
PrunedIsPast == \A c \in pruned : Height[c] + PruneAfter <= HeightOf(tip)

DeletesBelowTip ==
  \A h \in handlers : h.kind = "added" /\ h.at = "delete" => Height[h.block] <= HeightOf(tip)

MissingIsPast ==
  \A h \in handlers :
    h.kind = "confirm" /\ h.at = "again" /\ h.block \notin callbacks => IsPast(h.block)

\* No count of the list is above that of its block, so that no number is passed over.
StoredIsCounted == \A c \in DOMAIN stored : stored[c] <= confirmations[c]

LossInv == PrunedIsPast /\ DeletesBelowTip /\ MissingIsPast /\ StoredIsCounted /\ LostWhenPast

LEMMA PastBounds ==
  /\ Min({PruneAfter, DeleteAfter - 1}) \in Int
  /\ Min({PruneAfter, DeleteAfter - 1}) <= PruneAfter
  /\ Min({PruneAfter, DeleteAfter - 1}) <= DeleteAfter - 1
<1>1. PruneAfter \in Int /\ DeleteAfter - 1 \in Int BY ConfirmationsAssumption
<1> DEFINE y == DeleteAfter - 1
<1> HIDE DEF y
<1>2. /\ Min({PruneAfter, y}) \in {PruneAfter, y}
      /\ Min({PruneAfter, y}) <= PruneAfter
      /\ Min({PruneAfter, y}) <= y
  BY <1>1, MinOfTwo DEF y
<1>3. QED BY <1>1, <1>2 DEF y

LEMMA HeightOfTip ==
  ASSUME TreeInv
  PROVE  HeightOf(tip) \in Nat /\ \A c \in Block : Height[c] \in Nat
BY ConfirmationsAssumption DEF TreeInv, HeightOf

\* A block stays past when the chain grows.
LEMMA PastStays ==
  ASSUME TreeInv, TreeInv', HeightOf(tip) <= HeightOf(tip'), NEW c \in Block, IsPast(c)
  PROVE  IsPast(c)'
<1>1. HeightOf(tip) \in Nat /\ HeightOf(tip') \in Nat /\ Height[c] \in Nat
  BY ConfirmationsAssumption DEF TreeInv, HeightOf
<1>2. QED BY <1>1, PastBounds DEF IsPast

\* A pruned block is past, and so is one at the height where callbacks are deleted.
LEMMA PrunedBlockIsPast ==
  ASSUME TreeInv, NEW c \in Block, Height[c] + PruneAfter <= HeightOf(tip)
  PROVE  IsPast(c)
<1>1. PruneAfter \in Nat BY ConfirmationsAssumption
<1>2. QED BY <1>1, PastBounds, HeightOfTip DEF IsPast

LEMMA DeletedBlockIsPast ==
  ASSUME TreeInv, NEW c \in Block, NEW d \in Block, Height[d] <= HeightOf(tip),
         Height[c] = Height[d] - DeleteAfter + 1
  PROVE  IsPast(c)
<1>1. DeleteAfter \in Nat BY ConfirmationsAssumption
<1>2. QED BY <1>1, PastBounds, HeightOfTip DEF IsPast

\* on_confirmation prunes below the tips of the chains that are unwound and wound.
LEMMA OnConfirmationPrunes ==
  ASSUME TreeInv, TreeInv', PrunedIsPast, pruned \subseteq Block, safe \subseteq Block,
         NEW b \in Block, b \in added', OnConfirmation(b), tip' = b, HeightOf(tip) < Height[b]
  PROVE  PrunedIsPast'
<1>1. HeightOf(tip') = Height[b] /\ HeightOf(tip) \in Nat /\ Height[b] \in Nat
  BY HeightOfTip, ConfirmationsAssumption DEF HeightOf
<1>2. \A d \in Chain[b] : d \in Block /\ Height[d] <= Height[b]
  <2>1. PICK base \in Nat : IsTree(added, base)' BY DEF TreeInv
  <2>2. \A d \in Chain[b] : d \in added' /\ (d = b \/ Height[d] < Height[b])
    BY <2>1 DEF IsTree
  <2>3. QED BY <1>1, <2>2, ConfirmationsAssumption DEF TreeInv
<1>3. \A d \in Chain[tip] : d \in Block /\ Height[d] <= HeightOf(tip)
  <2>1. CASE tip = NoBlock BY <2>1, ChainOf
  <2>2. CASE tip # NoBlock
    <3>1. PICK base \in Nat : IsTree(added, base) BY DEF TreeInv
    <3>2. tip \in added BY <2>2 DEF TreeInv
    <3>3. \A d \in Chain[tip] : d \in added /\ (d = tip \/ Height[d] < Height[tip])
      BY <3>1, <3>2 DEF IsTree
    <3>4. QED BY <1>1, <2>2, <3>3, ConfirmationsAssumption DEF TreeInv, HeightOf
  <2>3. QED BY <2>1, <2>2
<1>4. ASSUME NEW c \in pruned' PROVE Height[c] + PruneAfter <= Height[b]
  <2>1. \/ c \in pruned
        \/ c \in safe /\ \E d \in Chain[tip] : Height[c] + PruneAfter = Height[d] - 1
        \/ c \in safe /\ \E d \in Chain[b] : Height[c] + PruneAfter = Height[d]
    BY DEF OnConfirmation, Upgraded, PrunedOnTheWay, Below
  <2>2. c \in Block /\ Height[c] \in Nat /\ PruneAfter \in Nat
    BY <2>1, ConfirmationsAssumption
  <2>3. CASE c \in pruned BY <1>1, <2>2, <2>3 DEF PrunedIsPast
  <2>4. ASSUME NEW d \in Chain[tip], Height[c] + PruneAfter = Height[d] - 1
        PROVE  Height[c] + PruneAfter <= Height[b]
    <3>1. Height[d] \in Nat BY <1>3, ConfirmationsAssumption
    <3>2. QED BY <1>1, <1>3, <2>2, <2>4, <3>1
  <2>5. ASSUME NEW d \in Chain[b], Height[c] + PruneAfter = Height[d]
        PROVE  Height[c] + PruneAfter <= Height[b]
    BY <1>2, <2>5
  <2>6. QED BY <2>1, <2>3, <2>4, <2>5
<1>5. QED BY <1>1, <1>4 DEF PrunedIsPast

\* What the counts are where the list holds none above them.
LEMMA CountedIsCount ==
  ASSUME KindInv, StoredIsCounted, NEW c \in Block
  PROVE  Counted(c) = confirmations[c]
<1>1. confirmations[c] \in Nat BY KindsOf
<1>2. CASE IsStored(c)
  <2>1. stored[c] \in Nat /\ stored[c] <= confirmations[c] BY <1>2, KindsOf DEF IsStored, StoredIsCounted
  <2>2. Max({confirmations[c], stored[c]}) \in {confirmations[c], stored[c]}
        /\ Max({confirmations[c], stored[c]}) >= confirmations[c]
    <3>1. confirmations[c] \in Int /\ stored[c] \in Int BY <1>1, <2>1
    <3>2. QED BY <3>1, MaxOfTwo, Zenon
  <2>3. Counted(c) = Max({confirmations[c], stored[c]}) BY <1>2 DEF Counted
  <2>4. QED BY <1>1, <2>1, <2>2, <2>3
<1>3. CASE ~IsStored(c) BY <1>3 DEF Counted
<1>4. QED BY <1>2, <1>3

\* The handlers of a new tip have all to run that it counts.
LEMMA OnConfirmationLosesNothing ==
  ASSUME KindInv, StoredIsCounted, NEW b \in Block, OnConfirmation(b), UNCHANGED seen, NEW c \in Block
  PROVE  Lost(c)' \subseteq Lost(c)
<1>1. confirmations[c] \in Nat /\ NewCount(b, c) \in Nat /\ confirmations'[c] = NewCount(b, c)
  BY KindsOf, NewCountIsAbove DEF OnConfirmation
<1>2. Counted(c) = confirmations[c] BY CountedIsCount
<1>3. handlers \subseteq handlers' /\ \A d \in Walked(b) : Confirm(b, d) \in handlers'
  BY DEF OnConfirmation
<1>4. UnderWay(c) \subseteq UnderWay(c)' BY <1>3 DEF UnderWay, Running
<1>5. ASSUME c \in Walked(b) PROVE confirmations[c]..NewCount(b, c) - 1 \subseteq UnderWay(c)'
  <2>1. NewCount(b, c) = Asked(b, c) BY <1>5, KindsOf, NewCountIsAbove
  <2>2. /\ Confirm(b, c) \in Running(c)'
        /\ Confirm(b, c).left = confirmations[c]..NewCount(b, c) - 1
    BY <1>2, <1>3, <1>5, <2>1, ConfirmIsHandler DEF Running
  <2>3. QED BY <2>2 DEF UnderWay
<1>6. c \notin Walked(b) => NewCount(b, c) = confirmations[c] BY <1>2 DEF NewCount
<1>7. ASSUME NEW x \in Lost(c)' PROVE x \in Lost(c)
  <2>1. x \in 0..NewCount(b, c) - 1 /\ x \notin seen[c] /\ x \notin UnderWay(c)'
    BY <1>1 DEF Lost
  <2>2. x \in 0..confirmations[c] - 1
    <3>1. CASE c \in Walked(b) BY <1>1, <1>5, <2>1, <3>1
    <3>2. CASE c \notin Walked(b) BY <1>6, <2>1, <3>2
    <3>3. QED BY <3>1, <3>2
  <2>3. QED BY <1>4, <2>1, <2>2 DEF Lost
<1>8. QED BY <1>7

LEMMA StoredStaysCounted ==
  ASSUME KindInv, StoredIsCounted, NEW b \in Block, OnConfirmation(b), Walked(b) \subseteq Block
  PROVE  StoredIsCounted'
<1>1. PICK kept \in Kept(b) :
        stored' = [c \in Walked(b) \cup kept |-> IF c \in Walked(b) THEN Asked(b, c) ELSE stored[c]]
  BY DEF OnConfirmation
<1>2. kept \subseteq DOMAIN stored BY DEF Kept
<1>3. \A c \in Block : confirmations'[c] = NewCount(b, c) BY DEF OnConfirmation
<1>4. ASSUME NEW c \in DOMAIN stored' PROVE stored'[c] <= confirmations'[c]
  <2>1. CASE c \in Walked(b)
    <3>1. c \in Block /\ stored'[c] = Asked(b, c) BY <1>1, <2>1
    <3>2. NewCount(b, c) = Asked(b, c) /\ NewCount(b, c) \in Nat BY <2>1, <3>1, KindsOf, NewCountIsAbove
    <3>3. QED BY <1>3, <3>1, <3>2
  <2>2. CASE c \notin Walked(b)
    <3>1. c \in DOMAIN stored /\ stored'[c] = stored[c] BY <1>1, <1>2, <2>2
    <3>2. c \in Block /\ stored[c] \in Nat /\ confirmations[c] \in Nat /\ stored[c] <= confirmations[c]
      BY <3>1, KindsOf DEF StoredIsCounted
    <3>3. NewCount(b, c) \in Nat /\ NewCount(b, c) >= confirmations[c]
      BY <3>2, KindsOf, NewCountIsAbove
    <3>4. QED BY <1>3, <3>1, <3>2, <3>3
  <2>3. QED BY <2>1, <2>2
<1>5. QED BY <1>4 DEF StoredIsCounted

LEMMA AddBlockLoss ==
  ASSUME KindInv, TreeInv, LossInv, NEW b \in Block, AddBlock(b)
  PROVE  LossInv'
<1>1. TreeInv' /\ (tip' = tip \/ (tip' = b /\ HeightOf(tip) < Height[b])) BY AddBlockKeepsTree
<1>2. HeightOf(tip) <= HeightOf(tip') /\ HeightOf(tip) \in Nat /\ HeightOf(tip') \in Nat
  <2>1. HeightOf(tip) \in Nat /\ Height[b] \in Nat /\ b # NoBlock BY HeightOfTip, ConfirmationsAssumption
  <2>2. QED BY <1>1, <2>1 DEF HeightOf
<1>3. /\ added' = added \cup {b} /\ UNCHANGED <<callbacks, seen>>
      /\ safe \subseteq Block /\ pruned \subseteq Block
  BY DEF AddBlock, KindInv, TypeOK
<1>4. \A h \in handlers' : \/ h \in handlers
                           \/ h.kind = "confirm" /\ h.at = "lookup"
                           \/ h.kind = "added" /\ h.at = "lookup"
  <2>1. \A h \in handlers' : h \in handlers \/ h = Added(b) \/ \E c \in Walked(b) : h = Confirm(b, c)
    BY DEF AddBlock, OnConfirmation
  <2>2. \A c : Confirm(b, c).kind = "confirm" /\ Confirm(b, c).at = "lookup" BY DEF Confirm
  <2>3. QED BY <2>1, <2>2, AddedIsHandler
<1>5. \A h \in handlers : h.block \in Block BY KindsOf
<1>6. DeletesBelowTip'
  <2>1. ASSUME NEW h \in handlers', h.kind = "added", h.at = "delete"
        PROVE  Height[h.block] <= HeightOf(tip')
    <3>1. h \in handlers BY <1>4, <2>1
    <3>2. Height[h.block] <= HeightOf(tip) /\ Height[h.block] \in Nat
      BY <1>5, <2>1, <3>1, HeightOfTip DEF LossInv, DeletesBelowTip
    <3>3. QED BY <1>2, <3>2
  <2>2. QED BY <2>1 DEF DeletesBelowTip
<1>7. MissingIsPast'
  <2>1. ASSUME NEW h \in handlers', h.kind = "confirm", h.at = "again", h.block \notin callbacks'
        PROVE  IsPast(h.block)'
    <3>1. h \in handlers BY <1>4, <2>1
    <3>2. h.block \in Block /\ IsPast(h.block)
      BY <1>3, <1>5, <2>1, <3>1 DEF LossInv, MissingIsPast
    <3>3. QED BY <1>1, <1>2, <3>2, PastStays
  <2>2. QED BY <2>1 DEF MissingIsPast
<1>8. \/ UNCHANGED <<tip, pruned, confirmations, stored>> /\ handlers' = handlers \cup {Added(b)}
      \/ OnConfirmation(b) /\ tip' = b /\ HeightOf(tip) < Height[b]
  <2>1. CASE tip' = b /\ OnConfirmation(b)
    <3>1. tip' # tip
      <4>1. tip \in added \cup {NoBlock} /\ b \notin added BY DEF AddBlock, TreeInv
      <4>2. QED BY <2>1, <4>1, ConfirmationsAssumption
    <3>2. QED BY <1>1, <2>1, <3>1
  <2>2. QED BY <2>1 DEF AddBlock
<1>9. PrunedIsPast' /\ StoredIsCounted'
  <2>1. CASE UNCHANGED <<tip, pruned, confirmations, stored>>
    BY <2>1 DEF LossInv, PrunedIsPast, StoredIsCounted
  <2>2. CASE OnConfirmation(b) /\ tip' = b /\ HeightOf(tip) < Height[b]
    <3>1. b \in added' BY <1>3
    <3>2. Walked(b) \subseteq Block BY <1>1, <3>1 DEF Walked, TreeInv, IsTree
    <3>3. PrunedIsPast' BY <1>1, <1>3, <2>2, <3>1, OnConfirmationPrunes DEF LossInv
    <3>4. StoredIsCounted' BY <2>2, <3>2, StoredStaysCounted DEF LossInv
    <3>5. QED BY <3>3, <3>4
  <2>3. QED BY <1>8, <2>1, <2>2
<1>10. LostWhenPast'
  <2>1. ASSUME NEW c \in Block, Lost(c)' # {} PROVE IsPast(c)'
    <3>1. Lost(c)' \subseteq Lost(c)
      <4>1. CASE UNCHANGED <<confirmations>> /\ handlers' = handlers \cup {Added(b)}
        BY <1>3, <4>1 DEF Lost, UnderWay, Running
      <4>2. CASE OnConfirmation(b) BY <1>3, <4>2, OnConfirmationLosesNothing DEF LossInv
      <4>3. QED BY <1>8, <4>1, <4>2
    <3>2. IsPast(c) BY <2>1, <3>1 DEF LossInv, LostWhenPast
    <3>3. QED BY <1>1, <1>2, <3>2, PastStays
  <2>2. QED BY <2>1 DEF LostWhenPast
<1>11. QED BY <1>6, <1>7, <1>9, <1>10 DEF LossInv

\* A handler that gives up does so for a block that is past.
LEMMA HandlerLoss ==
  ASSUME KindInv, TreeInv, LossInv, NEW h \in handlers, UNCHANGED <<coreVars, callbacks, seen>>,
         \/ Done(h) /\ (h.kind = "confirm" => IsPast(h.block))
         \/ \E g \in Handler :
              /\ Step(h, g) /\ g.kind = h.kind /\ g.block = h.block /\ g.left = h.left
              /\ g.kind = "added" /\ g.at = "delete" => Height[g.block] <= HeightOf(tip)
              /\ g.kind = "confirm" /\ g.at = "again" => g.block \in callbacks \/ IsPast(g.block)
  PROVE  LossInv'
<1>1. UNCHANGED <<tip, pruned, confirmations, stored, seen, callbacks>> BY DEF coreVars
<1>2. PrunedIsPast' /\ StoredIsCounted'
  BY <1>1 DEF LossInv, PrunedIsPast, StoredIsCounted
<1>3. DeletesBelowTip' BY <1>1 DEF LossInv, DeletesBelowTip, Done, Step
<1>4. \A c : IsPast(c)' <=> IsPast(c) BY <1>1 DEF IsPast
<1>5. MissingIsPast' BY <1>1, <1>4 DEF LossInv, MissingIsPast, Done, Step
<1>6. ASSUME NEW c \in Block, ~IsPast(c) PROVE UnderWay(c) \subseteq UnderWay(c)'
  <2>1. ASSUME NEW k \in Running(c) PROVE \E l \in Running(c)' : l.left = k.left
    <3>1. k \in handlers /\ k.kind = "confirm" /\ k.block = c BY DEF Running
    <3>2. CASE k # h BY <3>1, <3>2 DEF Running, Done, Step
    <3>3. CASE k = h BY <1>6, <3>1, <3>3 DEF Running, Step
    <3>4. QED BY <3>2, <3>3
  <2>2. QED BY <2>1 DEF UnderWay
<1>7. LostWhenPast'
  <2>1. ASSUME NEW c \in Block, ~IsPast(c) PROVE Lost(c)' \subseteq Lost(c)
    BY <1>1, <1>6, <2>1 DEF Lost
  <2>2. QED BY <1>4, <2>1 DEF LossInv, LostWhenPast
<1>8. QED BY <1>2, <1>3, <1>5, <1>7 DEF LossInv

LEMMA AffixLoss ==
  ASSUME KindInv, LossInv, NEW h \in handlers, AffixCallbacks(h)
  PROVE  LossInv'
<1> DEFINE g == [h EXCEPT !.at = "again"]
<1>1. h \in Handler /\ h.kind = "confirm" BY KindsOf DEF AffixCallbacks
<1>2. g.kind = h.kind /\ g.block = h.block /\ g.left = h.left /\ g.at = "again"
  BY <1>1, HandlerAt
<1>3. handlers' = (handlers \ {h}) \cup {g} /\ callbacks' = callbacks \cup {h.block}
  BY DEF AffixCallbacks, Step
<1>4. UNCHANGED <<tip, pruned, confirmations, stored, seen>> BY DEF AffixCallbacks, coreVars
<1> HIDE DEF g
<1>5. PrunedIsPast' /\ StoredIsCounted'
  BY <1>4 DEF LossInv, PrunedIsPast, StoredIsCounted
<1>6. DeletesBelowTip' BY <1>1, <1>2, <1>3, <1>4 DEF LossInv, DeletesBelowTip
<1>7. \A c : IsPast(c)' <=> IsPast(c) BY <1>4 DEF IsPast
<1>8. MissingIsPast' BY <1>2, <1>3, <1>7 DEF LossInv, MissingIsPast
<1>9. \A c : UnderWay(c) \subseteq UnderWay(c)'
  BY <1>1, <1>2, <1>3 DEF UnderWay, Running
<1>10. LostWhenPast' BY <1>4, <1>7, <1>9 DEF LossInv, LostWhenPast, Lost
<1>11. QED BY <1>5, <1>6, <1>8, <1>10 DEF LossInv

LEMMA CallBackLoss ==
  ASSUME KindInv, OnceInv, LossInv, NEW h \in handlers, CallBack(h)
  PROVE  LossInv'
<1> DEFINE next == Min(h.left)
           rest == h.left \ {next}
           g == [h EXCEPT !.left = rest]
<1>1. h \in Handler /\ h.block \in Block /\ h.kind = "confirm" /\ h.at = "run"
  BY KindsOf DEF CallBack
<1>2. seen' = [seen EXCEPT ![h.block] = @ \cup {next}] /\ seen \in [Block -> SUBSET (0..Limit - 1)]
  BY DEF CallBack, KindInv, TypeOK
<1>3. UNCHANGED <<tip, pruned, confirmations, stored, callbacks>> BY DEF CallBack, coreVars
<1>4. IF rest = {} THEN handlers' = handlers \ {h} ELSE handlers' = (handlers \ {h}) \cup {g}
  BY DEF CallBack, Done, Step
<1>5. rest \in SUBSET h.left OBVIOUS
<1>6. h.left \subseteq rest \cup {next} OBVIOUS
<1> HIDE DEF next, rest
<1>7. g.kind = h.kind /\ g.block = h.block /\ g.left = rest /\ g.at = "run"
  BY <1>1, <1>5, HandlerLeft
<1> HIDE DEF g
<1>8. \A k \in handlers' : k \in handlers \/ k = g BY <1>4
<1>9. PrunedIsPast' /\ StoredIsCounted'
  BY <1>3 DEF LossInv, PrunedIsPast, StoredIsCounted
<1>10. DeletesBelowTip' BY <1>1, <1>3, <1>7, <1>8 DEF LossInv, DeletesBelowTip
<1>11. \A c : IsPast(c)' <=> IsPast(c) BY <1>3 DEF IsPast
<1>12. MissingIsPast' BY <1>3, <1>7, <1>8, <1>11 DEF LossInv, MissingIsPast
<1>13. ASSUME NEW c \in Block PROVE Lost(c)' \subseteq Lost(c)
  <2>1. seen[c] \subseteq seen'[c] /\ (c = h.block => next \in seen'[c]) BY <1>1, <1>2
  <2>2. ASSUME NEW k \in Running(c) PROVE k.left \subseteq seen'[c] \cup UnderWay(c)'
    <3>1. k \in handlers /\ k.kind = "confirm" /\ k.block = c BY DEF Running
    <3>2. CASE k # h
      <4>1. k \in Running(c)' BY <1>4, <3>1, <3>2 DEF Running
      <4>2. QED BY <4>1 DEF UnderWay
    <3>3. CASE k = h
      <4>1. rest \subseteq UnderWay(c)'
        <5>1. rest # {} => g \in Running(c)' BY <1>1, <1>4, <1>7, <3>1, <3>3 DEF Running
        <5>2. QED BY <1>7, <5>1 DEF UnderWay
      <4>2. QED BY <1>6, <2>1, <3>1, <3>3, <4>1
    <3>4. QED BY <3>2, <3>3
  <2>3. UnderWay(c) \subseteq seen'[c] \cup UnderWay(c)' BY <2>2 DEF UnderWay
  <2>4. QED BY <1>3, <2>1, <2>3 DEF Lost
<1>14. LostWhenPast' BY <1>11, <1>13 DEF LossInv, LostWhenPast
<1>15. QED BY <1>9, <1>10, <1>12, <1>14 DEF LossInv

LEMMA DeleteLoss ==
  ASSUME KindInv, TreeInv, LossInv, NEW h \in handlers, DeleteCallbacks(h)
  PROVE  LossInv'
<1>1. h.block \in Block /\ h.kind = "added" /\ h.at = "delete" BY KindsOf DEF DeleteCallbacks
<1>2. Height[h.block] <= HeightOf(tip) BY <1>1 DEF LossInv, DeletesBelowTip
<1>3. UNCHANGED <<tip, pruned, confirmations, stored, seen>> /\ handlers' = handlers \ {h}
  BY DEF DeleteCallbacks, coreVars, Done
<1>4. PrunedIsPast' /\ StoredIsCounted'
  BY <1>3 DEF LossInv, PrunedIsPast, StoredIsCounted
<1>5. DeletesBelowTip' BY <1>3 DEF LossInv, DeletesBelowTip
<1>6. \A c : IsPast(c)' <=> IsPast(c) BY <1>3 DEF IsPast
<1>7. MissingIsPast'
  <2>1. ASSUME NEW k \in handlers, k.kind = "confirm", k.at = "again", k.block \notin callbacks'
        PROVE  IsPast(k.block)
    <3>1. k.block \in Block BY KindsOf
    <3>2. CASE k.block \notin callbacks BY <2>1, <3>2 DEF LossInv, MissingIsPast
    <3>3. CASE k.block \in callbacks
      <4>1. Height[k.block] = Height[h.block] - DeleteAfter + 1
        BY <2>1, <3>3 DEF DeleteCallbacks
      <4>2. QED BY <1>1, <1>2, <3>1, <4>1, DeletedBlockIsPast
    <3>4. QED BY <3>2, <3>3
  <2>2. QED BY <1>3, <1>6, <2>1 DEF MissingIsPast
<1>8. \A c : UnderWay(c)' = UnderWay(c) BY <1>1, <1>3 DEF UnderWay, Running
<1>9. LostWhenPast' BY <1>3, <1>6, <1>8 DEF LossInv, LostWhenPast, Lost
<1>10. QED BY <1>4, <1>5, <1>7, <1>9 DEF LossInv

LEMMA HandleLoss ==
  ASSUME KindInv, OnceInv, TreeInv, LossInv, NEW h \in handlers, Handle(h)
  PROVE  LossInv'
<1>1. h \in Handler /\ h.block \in Block BY KindsOf
<1>2. \A c \in pruned : c \in Block => IsPast(c) BY PrunedBlockIsPast DEF LossInv, PrunedIsPast
<1>3. CASE LookUp(h)
  <2>1. h.kind = "confirm" /\ UNCHANGED <<coreVars, callbacks, seen>> BY <1>3 DEF LookUp
  <2>2. CASE h.block \in pruned
    <3>1. Done(h) /\ IsPast(h.block) BY <1>1, <1>2, <1>3, <2>2 DEF LookUp
    <3>2. QED BY <2>1, <3>1, HandlerLoss
  <2>3. CASE h.block \notin pruned
    <3>1. PICK at \in {"again", "affix"} :
            Step(h, [h EXCEPT !.at = at]) /\ (at = "again" => h.block \in callbacks)
      BY <1>3, <2>3 DEF LookUp
    <3>2. QED BY <1>1, <2>1, <3>1, HandlerAt, HandlerLoss
  <2>4. QED BY <2>2, <2>3
<1>4. CASE AffixCallbacks(h) BY <1>4, AffixLoss
<1>5. CASE RunCallbacks(h)
  <2>1. h.kind = "confirm" /\ h.at = "again" /\ UNCHANGED <<coreVars, callbacks, seen>>
    BY <1>5 DEF RunCallbacks
  <2>2. CASE h.block \in pruned \/ h.block \notin callbacks
    <3>1. Done(h) BY <1>5, <2>2 DEF RunCallbacks
    <3>2. IsPast(h.block) BY <1>1, <1>2, <2>1, <2>2 DEF LossInv, MissingIsPast
    <3>3. QED BY <2>1, <3>1, <3>2, HandlerLoss
  <2>3. CASE ~(h.block \in pruned \/ h.block \notin callbacks)
    <3> DEFINE g == [h EXCEPT !.at = "run"]
    <3>1. Step(h, g) BY <1>5, <2>3 DEF RunCallbacks
    <3>2. g \in Handler /\ g.kind = h.kind /\ g.block = h.block /\ g.left = h.left /\ g.at = "run"
      BY <1>1, <2>1, HandlerAt
    <3> HIDE DEF g
    <3>3. QED BY <2>1, <3>1, <3>2, HandlerLoss
  <2>4. QED BY <2>2, <2>3
<1>6. CASE CallBack(h) BY <1>6, CallBackLoss
<1>7. CASE SeeAdded(h)
  <2>1. h.kind = "added" /\ UNCHANGED <<coreVars, callbacks, seen>> BY <1>7 DEF SeeAdded
  <2>2. CASE h.block \in Chain[tip] /\ Height[h.block] >= DeleteAfter
    <3>1. Step(h, [h EXCEPT !.at = "delete"]) BY <1>7, <2>2 DEF SeeAdded
    <3>2. Height[h.block] <= HeightOf(tip)
      <4>1. tip # NoBlock BY <2>2, ChainOf
      <4>2. PICK base \in Nat : IsTree(added, base) BY DEF TreeInv
      <4>3. tip \in added BY <4>1 DEF TreeInv
      <4>4. h.block = tip \/ Height[h.block] < Height[tip] BY <2>2, <4>2, <4>3 DEF IsTree
      <4>5. QED BY <1>1, <4>1, <4>3, <4>4, ConfirmationsAssumption DEF HeightOf, TreeInv
    <3>3. QED BY <1>1, <2>1, <3>1, <3>2, HandlerAt, HandlerLoss
  <2>3. CASE ~(h.block \in Chain[tip] /\ Height[h.block] >= DeleteAfter)
    <3>1. Done(h) BY <1>7, <2>3 DEF SeeAdded
    <3>2. QED BY <2>1, <3>1, HandlerLoss
  <2>4. QED BY <2>2, <2>3
<1>8. CASE DeleteCallbacks(h) BY <1>8, DeleteLoss
<1>9. QED BY <1>3, <1>4, <1>5, <1>6, <1>7, <1>8 DEF Handle

-----------------------------------------------------------------------------
(* All of it together *)

ConfirmInv == OnceInv /\ TreeInv /\ KindInv /\ LossInv

LEMMA ConfirmStart == Init => ConfirmInv
<1> SUFFICES ASSUME Init PROVE ConfirmInv
  OBVIOUS
<1>1. OnceInv BY OnceInit
<1>2. TreeInv BY DEF Init, TreeInv, IsTree
<1>3. KindInv
  <2>1. Limit \in Nat \ {0} BY ConfirmationsAssumption
  <2>2. confirmations \in [Block -> 0..Limit] /\ seen \in [Block -> SUBSET (0..Limit - 1)]
    BY <2>1 DEF Init
  <2>3. DOMAIN stored = {} BY DEF Init
  <2>4. QED BY <2>2, <2>3 DEF Init, KindInv, TypeOK
<1>4. LossInv
  BY DEF Init, LossInv, PrunedIsPast, DeletesBelowTip, MissingIsPast, StoredIsCounted, LostWhenPast, Lost
<1>5. QED BY <1>1, <1>2, <1>3, <1>4 DEF ConfirmInv

LEMMA ConfirmFrame ==
  ASSUME ConfirmInv, UNCHANGED <<added, tip, safe, pruned, confirmations, stored, handlers, callbacks, seen>>,
         busy' \in BOOLEAN
  PROVE  ConfirmInv'
<1>1. OnceInv' BY OnceFrame DEF ConfirmInv
<1>2. TreeInv' BY DEF ConfirmInv, TreeInv
<1>3. KindInv' BY DEF ConfirmInv, KindInv, TypeOK
<1>4. \A c : IsPast(c)' <=> IsPast(c) BY DEF IsPast
<1>5. LossInv'
  BY <1>4 DEF ConfirmInv, LossInv, PrunedIsPast, DeletesBelowTip, MissingIsPast, StoredIsCounted,
              LostWhenPast, Lost, UnderWay, Running
<1>6. QED BY <1>1, <1>2, <1>3, <1>5 DEF ConfirmInv

LEMMA ConfirmNext == ConfirmInv /\ [Next]_vars => ConfirmInv'
<1> SUFFICES ASSUME ConfirmInv, [Next]_vars PROVE ConfirmInv'
  OBVIOUS
<1>1. OnceInv' BY OnceNext DEF ConfirmInv
<1>2. ASSUME NEW b \in Block, AddBlock(b) PROVE ConfirmInv'
  BY <1>1, <1>2, AddBlockKeepsTree, AddBlockKinds, AddBlockLoss DEF ConfirmInv
<1>3. CASE Release BY <1>3, ConfirmFrame DEF Release
<1>4. ASSUME NEW h \in handlers, Handle(h) PROVE ConfirmInv'
  <2>1. UNCHANGED <<added, tip>>
    BY <1>4 DEF Handle, LookUp, AffixCallbacks, RunCallbacks, CallBack, SeeAdded, DeleteCallbacks, coreVars
  <2>2. TreeInv' BY <2>1 DEF ConfirmInv, TreeInv
  <2>3. KindInv' /\ LossInv' BY <1>4, HandleKinds, HandleLoss DEF ConfirmInv
  <2>4. QED BY <1>1, <2>2, <2>3 DEF ConfirmInv
<1>5. CASE UNCHANGED vars
  <2>1. busy' \in BOOLEAN BY <1>5 DEF vars, coreVars, ConfirmInv, KindInv, TypeOK
  <2>2. QED BY <1>5, <2>1, ConfirmFrame DEF vars, coreVars
<1>6. QED BY <1>2, <1>3, <1>4, <1>5 DEF Next

\* Every variable holds a value of its kind, and a handler has something to run, for every tree of
\* blocks that the core may take in.
THEOREM ConfirmationsTyped == Spec => []TypeOK
<1>1. ConfirmInv => TypeOK BY DEF ConfirmInv, KindInv
<1>2. QED BY <1>1, ConfirmStart, ConfirmNext, PTL DEF Spec

\* What a module is never told of is about a block that the chain has left far below: nothing is
\* lost by the handlers of saito-js while it is recent, whatever the forks.
THEOREM LostWhenPastAlways == Spec => []LostWhenPast
<1>1. ConfirmInv => LostWhenPast BY DEF ConfirmInv, LossInv
<1>2. QED BY <1>1, ConfirmStart, ConfirmNext, PTL DEF Spec

-----------------------------------------------------------------------------
(* The counts of the chain *)

\* A set of natural numbers has a least member.
LEMMA LeastNatural ==
  ASSUME NEW S \in SUBSET Nat, S # {}
  PROVE  Min(S) \in S /\ \A n \in S : Min(S) <= n
<1>1. \E n \in S : \A m \in S : ~(<<m, n>> \in OpToRel(<, Nat))
  BY NatLessThanWellFounded, WFMin
<1>2. PICK n \in S : \A m \in S : ~(<<m, n>> \in OpToRel(<, Nat)) BY <1>1
<1>3. \A m \in S : ~(m < n) BY <1>2 DEF OpToRel
<1>4. \A m \in S : n <= m BY <1>3
<1>5. QED BY <1>4 DEF Min

LEMMA LowestIsBelow ==
  ASSUME DOMAIN stored \subseteq Block
  PROVE  LowestStored \in Nat /\ \A c \in DOMAIN stored : LowestStored <= Height[c]
<1>1. CASE DOMAIN stored = {} BY <1>1 DEF LowestStored
<1>2. CASE DOMAIN stored # {}
  <2> DEFINE S == {Height[c] : c \in DOMAIN stored}
  <2>1. S \in SUBSET Nat /\ S # {} BY <1>2, ConfirmationsAssumption
  <2>2. LowestStored = Min(S) BY <1>2 DEF LowestStored
  <2>3. \A c \in DOMAIN stored : Height[c] \in S OBVIOUS
  <2> HIDE DEF S
  <2>4. Min(S) \in S /\ \A n \in S : Min(S) <= n BY <2>1, LeastNatural
  <2>5. QED BY <2>1, <2>2, <2>3, <2>4
<1>3. QED BY <1>1, <1>2

LEMMA AskedCases ==
  ASSUME NEW b \in Block, NEW c \in Block
  PROVE  /\ Depth(b, c) \in Int /\ Limit \in Nat \ {0}
         /\ Depth(b, c) < Limit => Asked(b, c) = Depth(b, c) + 1
         /\ Depth(b, c) + 1 >= Limit => Asked(b, c) = Limit
<1>1. Limit \in Nat \ {0} BY ConfirmationsAssumption
<1>2. QED BY <1>1, AskedBounds

\* A chain that leaves at most `left' blocks of another parts from it no further down.
LEMMA PartsNearTheTip ==
  ASSUME NEW S \in SUBSET Block, NEW base \in Nat, IsTree(S, base), NEW a \in S, NEW b \in S,
         NEW left \in Nat, Cardinality(Chain[a] \ Chain[b]) <= left,
         NEW n \in Chain[b] \ Chain[a]
  PROVE  Height[n] >= Height[a] - left + 1
<1> DEFINE A == Chain[a] \ Chain[b]
           above == Height[n]..Height[a]
           at == [j \in above |-> CHOOSE m \in Chain[a] : Height[m] = j]
<1>1. /\ n \in S /\ Height[n] \in Nat /\ Height[a] \in Nat /\ base < Height[n]
  BY ConfirmationsAssumption DEF IsTree
<1>2. IsFiniteSet(A) /\ Cardinality(A) \in Nat
  <2>1. IsFiniteSet(Chain[a]) BY DEF IsTree
  <2>2. QED BY <2>1, FS_Subset, FS_CardinalityType
<1>3. \A j \in above : \E m \in Chain[a] : Height[m] = j
  <2>1. \A j \in above : j \in base + 1..Height[a] BY <1>1
  <2>2. QED BY <2>1 DEF IsTree
<1>4. \A j \in above : at[j] \in Chain[a] /\ Height[at[j]] = j BY <1>3
<1>5. at = [j \in above |-> at[j]] OBVIOUS
<1> HIDE DEF at
<1>6. \A j \in above : at[j] \notin Chain[b]
  <2>1. ASSUME NEW j \in above, at[j] \in Chain[b] PROVE FALSE
    <3>1. Height[n] <= j /\ Height[at[j]] = j BY <1>1, <1>4
    <3>2. n \in Chain[b] /\ at[j] \in Chain[b] BY <2>1
    <3>3. n \in Chain[at[j]] BY <3>1, <3>2 DEF IsTree
    <3>4. Chain[at[j]] \subseteq Chain[a] BY <1>4 DEF IsTree
    <3>5. QED BY <3>3, <3>4
  <2>2. QED BY <2>1
<1>7. at \in Injection(above, A)
  <2>1. at \in [above -> A] BY <1>4, <1>5, <1>6
  <2>2. \A i, j \in above : at[i] = at[j] => i = j BY <1>4
  <2>3. QED BY <2>1, <2>2 DEF Injection, IsInjective
<1>8. Cardinality(above) = IF Height[n] > Height[a] THEN 0 ELSE Height[a] - Height[n] + 1
  <2>1. Height[n] \in Int /\ Height[a] \in Int BY <1>1
  <2>2. QED BY <2>1, FS_Interval, Zenon
<1>9. Cardinality(above) <= Cardinality(A)
  <2> HIDE DEF A, above
  <2>1. QED BY <1>2, <1>7, FS_Injection
<1>10. QED BY <1>1, <1>2, <1>8, <1>9

\* No count is above the depth of the block, now or at an earlier tip.
CountsReachTip ==
  \A c \in Block : confirmations[c] = 0 \/ confirmations[c] <= HeightOf(tip) - Height[c] + 1

\* The list goes as deep as blocks are counted.
TopIsStored == \A c \in Chain[tip] : Depth(tip, c) < Limit => c \in DOMAIN stored

CountInv == CountsReachTip /\ TopIsStored /\ ChainIsConfirmed

\* A reorganisation leaves no more blocks than block_confirmation_limit.
IsShallow == Cardinality(Chain[tip] \ Chain[tip']) <= Limit

\* A chain becomes the longest, and leaves few blocks of the one before.
JoinsShallowly(b) ==
  /\ ConfirmInv /\ CountInv
  /\ TreeInv' /\ added \subseteq added' /\ b \in added'
  /\ OnConfirmation(b) /\ tip' = b /\ HeightOf(tip) < Height[b]
  /\ IsShallow

LEMMA JoinedTree ==
  ASSUME NEW b \in Block, JoinsShallowly(b)
  PROVE  /\ added' \in SUBSET Block /\ b \in added' /\ tip \in added' \cup {NoBlock}
         /\ \E base \in Nat : IsTree(added', base)
         /\ DOMAIN stored \subseteq Block /\ (tip = NoBlock => DOMAIN stored = {})
         /\ LowestStored \in Nat /\ \A c \in DOMAIN stored : LowestStored <= Height[c]
         /\ \A c \in Block : Height[c] \in Nat
<1>1. TreeInv /\ KindInv /\ TreeInv' BY DEF JoinsShallowly, ConfirmInv
<1>2. /\ added' \in SUBSET Block /\ b \in added' /\ tip \in added' \cup {NoBlock}
      /\ \E base \in Nat : IsTree(added', base)
  BY <1>1 DEF JoinsShallowly, TreeInv
<1>3. DOMAIN stored \subseteq Block /\ (tip = NoBlock => DOMAIN stored = {})
  BY <1>1 DEF TreeInv, KindInv, TypeOK
<1>4. QED BY <1>2, <1>3, LowestIsBelow, ConfirmationsAssumption

\* What the new chain brings is not below the list.
LEMMA NewIsAboveStored ==
  ASSUME NEW b \in Block, JoinsShallowly(b), NEW n \in Chain[b] \ Chain[tip]
  PROVE  /\ LowestStored <= Height[n]
         /\ tip # NoBlock => Height[n] >= Height[tip] - Limit + 1
<1>1. CASE tip = NoBlock
  <2>1. PICK base \in Nat : IsTree(added', base) BY JoinedTree
  <2>2. Height[n] \in Nat BY <2>1, JoinedTree DEF IsTree
  <2>3. LowestStored = 0 BY <1>1, JoinedTree DEF LowestStored
  <2>4. QED BY <1>1, <2>2, <2>3
<1>2. CASE tip # NoBlock
  <2>1. PICK base \in Nat : IsTree(added', base) BY JoinedTree
  <2>2. tip \in added' /\ b \in added' /\ added' \in SUBSET Block BY <1>2, JoinedTree
  <2>3. Limit \in Nat \ {0} BY ConfirmationsAssumption
  <2>4. Cardinality(Chain[tip] \ Chain[b]) <= Limit BY DEF JoinsShallowly, IsShallow
  <2>5. Height[n] >= Height[tip] - Limit + 1 BY <2>1, <2>2, <2>3, <2>4, PartsNearTheTip
  <2>6. n \in added' /\ base < Height[n] BY <2>1, <2>2 DEF IsTree
  <2>7. Height[n] \in Nat /\ Height[tip] \in Nat BY <2>2, <2>6, JoinedTree
  <2>8. tip \in Chain[tip] /\ base < Height[tip]
    BY <2>1, <2>2, ChainOf DEF IsTree
  <2>9. PICK low \in base + 1..Height[tip] : low <= Height[n] /\ low >= Height[tip] - Limit + 1
                                             /\ Height[tip] - low < Limit
    <3>1. CASE Height[tip] - Limit + 1 >= base + 1
      <4>1. Height[tip] - Limit + 1 \in base + 1..Height[tip] BY <2>3, <2>7, <3>1
      <4>2. QED BY <2>3, <2>5, <2>7, <4>1
    <3>2. CASE Height[tip] - Limit + 1 < base + 1
      <4>1. base + 1 \in base + 1..Height[tip] BY <2>7, <2>8
      <4>2. QED BY <2>3, <2>6, <2>7, <3>2, <4>1
    <3>3. QED BY <2>3, <2>7, <3>1, <3>2
  <2>10. PICK m \in Chain[tip] : Height[m] = low BY <2>1, <2>2 DEF IsTree
  <2>11. m \in DOMAIN stored BY <2>9, <2>10 DEF JoinsShallowly, CountInv, TopIsStored, Depth
  <2>12. LowestStored <= low BY <2>10, <2>11, JoinedTree
  <2>13. QED BY <2>5, <2>7, <2>9, <2>12, JoinedTree
<1>3. QED BY <1>1, <1>2

\* The walk goes as deep as blocks are counted.
LEMMA WantingAtTheTop ==
  ASSUME NEW b \in Block, JoinsShallowly(b), NEW c \in Chain[b], Depth(b, c) < Limit
  PROVE  IsWanting(b, c)
<1>1. PICK base \in Nat : IsTree(added', base) BY JoinedTree
<1>2. c \in Block /\ (c = b \/ Height[c] < Height[b]) BY <1>1, JoinedTree DEF IsTree
<1>3. Height[c] \in Nat /\ Height[b] \in Nat /\ HeightOf(tip) \in Nat
  BY <1>2, HeightOfTip, ConfirmationsAssumption DEF JoinsShallowly, ConfirmInv
<1>4. HeightOf(tip) < Height[b] BY DEF JoinsShallowly
<1>5. Height[c] >= LowestStored
  <2>1. CASE c \in Chain[tip]
    <3>1. tip # NoBlock /\ tip \in Block BY <2>1, ChainOf, JoinedTree
    <3>2. Depth(tip, c) < Limit
      <4>1. Limit \in Nat BY ConfirmationsAssumption
      <4>2. QED BY <1>3, <1>4, <3>1, <4>1 DEF Depth, HeightOf
    <3>3. c \in DOMAIN stored BY <2>1, <3>2 DEF JoinsShallowly, CountInv, TopIsStored
    <3>4. QED BY <1>3, <3>3, JoinedTree
  <2>2. CASE c \notin Chain[tip] BY <1>3, <2>2, JoinedTree, NewIsAboveStored
  <2>3. QED BY <2>1, <2>2
<1>6. Counted(c) = confirmations[c] /\ confirmations[c] \in Nat
  BY <1>2, CountedIsCount, KindsOf DEF JoinsShallowly, ConfirmInv, LossInv
<1>7. confirmations[c] = 0 \/ confirmations[c] <= HeightOf(tip) - Height[c] + 1
  BY <1>2 DEF JoinsShallowly, CountInv, CountsReachTip
<1>8. Asked(b, c) = Depth(b, c) + 1 BY <1>2, AskedCases
<1>9. Counted(c) < Asked(b, c) BY <1>2, <1>3, <1>4, <1>6, <1>7, <1>8 DEF Depth
<1>10. QED BY <1>5, <1>9 DEF IsWanting

LEMMA TopIsWalked ==
  ASSUME NEW b \in Block, JoinsShallowly(b), NEW c \in Chain[b], Depth(b, c) < Limit
  PROVE  c \in Walked(b)
<1>1. PICK base \in Nat : IsTree(added', base) BY JoinedTree
<1>2. \A d \in Chain[b] : Height[d] \in Nat BY <1>1, JoinedTree DEF IsTree
<1>3. Height[b] \in Nat /\ Limit \in Nat BY ConfirmationsAssumption
<1>4. \A d \in Chain[b] : Height[d] >= Height[c] => Depth(b, d) < Limit
  BY <1>2, <1>3 DEF Depth
<1>5. QED BY <1>4, WantingAtTheTop DEF Walked

\* Where the walk ends early, the block and all below it have had what they ask for.
LEMMA BelowTheWalk ==
  ASSUME NEW b \in Block, JoinsShallowly(b), NEW c \in Chain[b], NEW d \in Chain[b],
         Height[c] <= Height[d], ~IsWanting(b, d)
  PROVE  confirmations[c] >= Limit
<1>1. PICK base \in Nat : IsTree(added', base) BY JoinedTree
<1>2. /\ c \in added' /\ d \in added' /\ c \in Chain[d] /\ (c = d \/ Height[c] < Height[d])
      /\ (d = b \/ Height[d] < Height[b])
  BY <1>1, JoinedTree DEF IsTree
<1>3. /\ c \in Block /\ d \in Block /\ Height[c] \in Nat /\ Height[d] \in Nat /\ Height[b] \in Nat
      /\ Limit \in Nat \ {0} /\ confirmations[c] \in Nat /\ confirmations[d] \in Nat
      /\ Counted(d) = confirmations[d]
  BY <1>2, JoinedTree, CountedIsCount, KindsOf, ConfirmationsAssumption
     DEF JoinsShallowly, ConfirmInv, LossInv
<1>4. ~(Depth(b, d) < Limit) BY WantingAtTheTop
<1>5. Asked(b, d) = Limit
  <2>1. Depth(b, d) + 1 >= Limit BY <1>3, <1>4 DEF Depth
  <2>2. QED BY <1>3, <2>1, AskedCases
<1>6. Height[d] < LowestStored \/ confirmations[d] >= Limit
  BY <1>3, <1>5, JoinedTree DEF IsWanting
<1>7. confirmations[d] = 0 \/ confirmations[d] <= HeightOf(tip) - Height[d] + 1
  BY <1>3 DEF JoinsShallowly, CountInv, CountsReachTip
<1>8. tip # NoBlock /\ tip \in added' /\ tip \in Block /\ HeightOf(tip) = Height[tip] /\ Height[tip] \in Nat
  <2>1. tip # NoBlock
    <3>1. SUFFICES ASSUME tip = NoBlock PROVE FALSE OBVIOUS
    <3>2. LowestStored = 0 /\ HeightOf(tip) = 0 BY <3>1, JoinedTree DEF LowestStored, HeightOf
    <3>3. Height[d] > 0 BY <1>3, ConfirmationsAssumption
    <3>4. QED BY <1>3, <1>6, <1>7, <3>2, <3>3
  <2>2. QED BY <2>1, JoinedTree DEF HeightOf
<1>9. ASSUME NEW e \in Chain[tip], Depth(tip, e) + 1 >= Limit PROVE confirmations[e] >= Limit
  <2>1. e \in Block BY <1>1, <1>8, JoinedTree DEF IsTree
  <2>2. confirmations[e] >= Asked(tip, e) BY DEF JoinsShallowly, CountInv, ChainIsConfirmed
  <2>3. Asked(tip, e) = Limit BY <1>8, <1>9, <2>1, AskedCases
  <2>4. QED BY <2>2, <2>3
<1>10. CASE d \in Chain[tip]
  <2>1. c \in Chain[tip] BY <1>1, <1>2, <1>8, <1>10 DEF IsTree
  <2>2. Depth(tip, d) + 1 >= Limit
    <3>1. CASE Height[d] < LowestStored
      <4>1. d \notin DOMAIN stored BY <1>3, <3>1, JoinedTree
      <4>2. ~(Depth(tip, d) < Limit)
        BY <1>10, <4>1 DEF JoinsShallowly, CountInv, TopIsStored
      <4>3. QED BY <1>3, <1>8, <4>2 DEF Depth
    <3>2. CASE confirmations[d] >= Limit BY <1>3, <1>7, <1>8, <3>2 DEF Depth
    <3>3. QED BY <1>6, <3>1, <3>2
  <2>3. Depth(tip, c) + 1 >= Limit BY <1>3, <1>8, <2>2 DEF Depth
  <2>4. QED BY <1>9, <2>1, <2>3
<1>11. CASE d \notin Chain[tip]
  <2>1. LowestStored <= Height[d] /\ Height[d] >= Height[tip] - Limit + 1
    BY <1>8, <1>11, NewIsAboveStored
  <2>2. confirmations[d] >= Limit BY <1>3, <1>6, <2>1, JoinedTree
  <2>3. Height[d] = Height[tip] - Limit + 1 BY <1>3, <1>7, <1>8, <2>1, <2>2
  <2>4. CASE c = d BY <2>2, <2>4
  <2>5. CASE c # d
    <3>1. Height[c] < Height[tip] - Limit + 1 BY <1>2, <2>3, <2>5
    <3>2. c \in Chain[tip]
      <4>1. SUFFICES ASSUME c \notin Chain[tip] PROVE FALSE OBVIOUS
      <4>2. Height[c] >= Height[tip] - Limit + 1 BY <1>8, <4>1, NewIsAboveStored
      <4>3. QED BY <1>3, <1>8, <3>1, <4>2
    <3>3. Depth(tip, c) + 1 >= Limit BY <1>3, <1>8, <3>1 DEF Depth
    <3>4. QED BY <1>9, <3>2, <3>3
  <2>6. QED BY <2>4, <2>5
<1>12. QED BY <1>10, <1>11

LEMMA JoinKeepsCounts ==
  ASSUME NEW b \in Block, JoinsShallowly(b)
  PROVE  CountInv'
<1>1. PICK base \in Nat : IsTree(added', base) BY JoinedTree
<1>2. \A c \in Chain[b] : c \in Block /\ (c = b \/ Height[c] < Height[b]) BY <1>1, JoinedTree DEF IsTree
<1>3. tip' = b /\ \A c \in Block : confirmations'[c] = NewCount(b, c)
  BY DEF JoinsShallowly, OnConfirmation
<1>4. ASSUME NEW c \in Block
      PROVE  /\ NewCount(b, c) \in Nat /\ confirmations[c] \in Nat /\ NewCount(b, c) >= confirmations[c]
             /\ c \in Walked(b) => NewCount(b, c) = Asked(b, c)
             /\ c \notin Walked(b) => NewCount(b, c) = confirmations[c]
  BY NewCountIsAbove, CountedIsCount, KindsOf DEF JoinsShallowly, ConfirmInv, LossInv, NewCount
<1>5. Limit \in Nat /\ Height[b] \in Nat /\ HeightOf(tip) < Height[b] /\ HeightOf(tip) \in Nat
  BY HeightOfTip, ConfirmationsAssumption DEF JoinsShallowly, ConfirmInv
<1>6. CountsReachTip'
  <2>1. ASSUME NEW c \in Block
        PROVE  confirmations'[c] = 0 \/ confirmations'[c] <= Height[b] - Height[c] + 1
    <3>1. Height[c] \in Nat BY ConfirmationsAssumption
    <3>2. confirmations[c] = 0 \/ confirmations[c] <= HeightOf(tip) - Height[c] + 1
      BY DEF JoinsShallowly, CountInv, CountsReachTip
    <3>3. Asked(b, c) <= Height[b] - Height[c] + 1 BY AskedBounds DEF Depth
    <3>4. QED BY <1>3, <1>4, <1>5, <3>1, <3>2, <3>3
  <2>2. HeightOf(tip') = Height[b] BY <1>3, ConfirmationsAssumption DEF HeightOf
  <2>3. QED BY <2>1, <2>2 DEF CountsReachTip
<1>7. TopIsStored'
  <2>1. Walked(b) \subseteq DOMAIN stored' BY DEF JoinsShallowly, OnConfirmation
  <2>2. \A c \in Chain[b] : Depth(b, c) < Limit => c \in DOMAIN stored' BY <2>1, TopIsWalked
  <2>3. QED BY <1>3, <2>2 DEF TopIsStored
<1>8. ChainIsConfirmed'
  <2>1. ASSUME NEW c \in Chain[b] PROVE confirmations'[c] >= Asked(b, c)
    <3>1. c \in Block BY <1>2
    <3>2. CASE c \in Walked(b)
      <4>1. confirmations'[c] = Asked(b, c) /\ Asked(b, c) \in Int BY <1>3, <1>4, <3>1, <3>2
      <4>2. QED BY <4>1
    <3>3. CASE c \notin Walked(b)
      <4>1. PICK d \in Chain[b] : Height[d] >= Height[c] /\ ~IsWanting(b, d) BY <3>3 DEF Walked
      <4>2. Height[c] <= Height[d]
        <5>1. Height[c] \in Nat /\ Height[d] \in Nat BY <1>2, ConfirmationsAssumption
        <5>2. QED BY <4>1, <5>1
      <4>3. confirmations[c] >= Limit BY <4>1, <4>2, BelowTheWalk
      <4>4. Asked(b, c) \in Int /\ Asked(b, c) <= Limit BY <3>1, AskedBounds
      <4>5. QED BY <1>3, <1>4, <1>5, <3>1, <4>3, <4>4
    <3>4. QED BY <3>2, <3>3
  <2>2. QED BY <1>3, <2>1 DEF ChainIsConfirmed, Asked, Depth
<1>9. QED BY <1>6, <1>7, <1>8 DEF CountInv

LEMMA CountFrame ==
  ASSUME CountInv, UNCHANGED <<tip, confirmations, stored>>
  PROVE  CountInv'
BY DEF CountInv, CountsReachTip, TopIsStored, ChainIsConfirmed, Asked, Depth, HeightOf

LEMMA CountStart == Init => CountInv
BY ChainOf DEF Init, CountInv, CountsReachTip, TopIsStored, ChainIsConfirmed

LEMMA CountNext == ConfirmInv /\ CountInv /\ [Next]_vars /\ [IsShallow]_vars => CountInv'
<1> SUFFICES ASSUME ConfirmInv, CountInv, [Next]_vars, [IsShallow]_vars PROVE CountInv'
  OBVIOUS
<1>1. ASSUME NEW b \in Block, AddBlock(b) PROVE CountInv'
  <2>1. CASE UNCHANGED <<tip, confirmations, stored>> BY <2>1, CountFrame
  <2>2. CASE tip' = b /\ OnConfirmation(b)
    <3>1. TreeInv' /\ (tip' = tip \/ (tip' = b /\ HeightOf(tip) < Height[b]))
      BY <1>1, AddBlockKeepsTree DEF ConfirmInv
    <3>2. b \notin added /\ added' = added \cup {b} BY <1>1 DEF AddBlock
    <3>3. tip' # tip BY <2>2, <3>2, ConfirmationsAssumption DEF ConfirmInv, TreeInv
    <3>4. IsShallow BY <3>3 DEF vars, coreVars
    <3>5. JoinsShallowly(b) BY <2>2, <3>1, <3>2, <3>3, <3>4 DEF JoinsShallowly
    <3>6. QED BY <3>5, JoinKeepsCounts
  <2>3. QED BY <1>1, <2>1, <2>2 DEF AddBlock
<1>2. CASE Release BY <1>2, CountFrame DEF Release
<1>3. ASSUME NEW h \in handlers, Handle(h) PROVE CountInv'
  <2>1. UNCHANGED <<tip, confirmations, stored>>
    BY <1>3 DEF Handle, LookUp, AffixCallbacks, RunCallbacks, CallBack, SeeAdded, DeleteCallbacks, coreVars
  <2>2. QED BY <2>1, CountFrame
<1>4. CASE UNCHANGED vars BY <1>4, CountFrame DEF vars, coreVars
<1>5. QED BY <1>1, <1>2, <1>3, <1>4 DEF Next

\* "This won't break when reorgs happen" is so as long as no reorganisation leaves more blocks of the
\* chain than block_confirmation_limit: the list of the stored blocks then reaches below the fork, and
\* the walk of on_confirmation ends only at blocks that have had all they ask for.
THEOREM ConfirmedWhereForksAreShallow ==
  Spec /\ [][IsShallow]_vars => []ChainIsConfirmed
<1>1. ConfirmInv /\ CountInv => ChainIsConfirmed BY DEF CountInv
<1>2. QED BY <1>1, ConfirmStart, ConfirmNext, CountStart, CountNext, PTL DEF Spec

=============================================================================
