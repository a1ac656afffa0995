---------------------------- MODULE ApiCallsProofs ----------------------------
(***************************************************************************)
(* What ApiCalls keeps for every number of calls, peers and modules.  That *)
(* answers go forward needs more than itself: what is in flight bears an   *)
(* index not below that of its own call (Forward), a promise is one call's *)
(* (Unique), and a call that has no index yet has left no trace (Fresh).   *)
(***************************************************************************)
EXTENDS ApiCalls, TLAPS

InFlight == sending \cup requests \cup jobs \cup answers

Unregistered == {"idle", "checking"}

Fresh ==
  \A c \in Call : pc[c] \in Unregistered =>
    /\ \A i \in Index : promises[i] # c
    /\ \A m \in InFlight : m.call # c
    /\ \A d \in Call : answer[d] # c

Unique == \A i, k \in Index : promises[i] = promises[k] => i = k

Forward == \A m \in InFlight, k \in Index : promises[k] = m.call => k <= m.index

Inv == TypeOK /\ Fresh /\ Unique /\ Forward /\ AnswersGoForward /\ LatestKeepsItsIndex

-----------------------------------------------------------------------------
(* Types *)

LEMMA InitType == Init => TypeOK
BY ApiCallsAssumption DEF Init, TypeOK, Settled, Target, Index

\* What an action leaves alone of the calls and of the peers keeps its type; the type of
\* what is in flight only says more of the indices when there are more of them.
CallTypeOK ==
  /\ pc \in [Call -> {"idle", "checking", "registered", "waiting"} \cup Settled]
  /\ target \in [Call -> Target] /\ waits \in [Call -> BOOLEAN]
  /\ promises \in Seq(Call) /\ callbackIndex = Len(promises)
  /\ used \in [Call -> 0..callbackIndex]
  /\ answer \in [Call -> Call \cup {NoCall}]
  /\ sending \subseteq [call: Call, index: 0..callbackIndex, target: Target]

PeerTypeOK ==
  /\ connected \subseteq Peer
  /\ requests \subseteq Message
  /\ jobs \subseteq Job
  /\ answers \subseteq [call: Call, index: 0..callbackIndex, peer: Peer, by: 0..Modules]
  /\ drops \in Nat

LEMMA TypeParts == /\ TypeOK <=> CallTypeOK /\ PeerTypeOK
                   /\ TypeOK' <=> CallTypeOK' /\ PeerTypeOK'
BY DEF TypeOK, CallTypeOK, PeerTypeOK

LEMMA PeerTypeFrame ==
  ASSUME PeerTypeOK, callbackIndex \in Nat, callbackIndex' \in Nat,
         callbackIndex' >= callbackIndex, UNCHANGED peerVars
  PROVE  PeerTypeOK'
<1>1. 0..callbackIndex \subseteq 0..callbackIndex'
  OBVIOUS
<1>2. Message \subseteq Message' /\ Job \subseteq Job'
  BY <1>1 DEF Message, Job
<1>3. [call: Call, index: 0..callbackIndex, peer: Peer, by: 0..Modules]
        \subseteq [call: Call, index: 0..callbackIndex', peer: Peer, by: 0..Modules]
  BY <1>1
<1>4. QED
  BY <1>2, <1>3 DEF PeerTypeOK, peerVars

LEMMA CallTypeFrame == CallTypeOK /\ UNCHANGED callVars /\ sending' \subseteq sending => CallTypeOK'
BY DEF CallTypeOK, callVars

LEMMA RegisterType ==
  ASSUME CallTypeOK, NEW c \in Call, Register(c),
         target' \in [Call -> Target], waits' \in [Call -> BOOLEAN], answer' = answer
  PROVE  CallTypeOK' /\ callbackIndex' = callbackIndex + 1 /\ callbackIndex \in Nat
<1>1. callbackIndex \in Nat /\ callbackIndex' = callbackIndex + 1
  BY DEF CallTypeOK, Register
<1>2. promises' \in Seq(Call) /\ callbackIndex' = Len(promises')
  BY <1>1 DEF CallTypeOK, Register
<1>3. 0..callbackIndex \subseteq 0..callbackIndex'
  BY <1>1
<1>4. used' \in [Call -> 0..callbackIndex']
  BY <1>3 DEF CallTypeOK, Register
<1>5. sending' \subseteq [call: Call, index: 0..callbackIndex', target: Target]
  BY <1>3 DEF CallTypeOK, Register
<1>6. pc' \in [Call -> {"idle", "checking", "registered", "waiting"} \cup Settled]
  BY DEF CallTypeOK, Register, Goto
<1>7. QED
  BY <1>1, <1>2, <1>4, <1>5, <1>6 DEF CallTypeOK

LEMMA SendType ==
  ASSUME CallTypeOK, NEW c \in Call, NEW t \in Target, NEW place \in Settled \cup {"waiting"},
         Goto(c, place), SendApiCall(c, t),
         target' \in [Call -> Target], waits' \in [Call -> BOOLEAN], answer' = answer
  PROVE  CallTypeOK' /\ callbackIndex' = callbackIndex /\ callbackIndex \in Nat
<1>1. callbackIndex \in Nat /\ callbackIndex' = callbackIndex /\ promises' = promises
  BY DEF CallTypeOK, SendApiCall
<1>2. [call |-> c, index |-> callbackIndex, target |-> t]
        \in [call: Call, index: 0..callbackIndex, target: Target]
  BY <1>1
<1>3. used' \in [Call -> 0..callbackIndex]
  BY <1>1 DEF CallTypeOK, SendApiCall
<1>4. pc' \in [Call -> {"idle", "checking", "registered", "waiting"} \cup Settled]
  BY DEF CallTypeOK, Goto
<1>5. QED
  BY <1>1, <1>2, <1>3, <1>4 DEF CallTypeOK, SendApiCall

\* A call that does not register or send keeps every index.
LEMMA GotoType ==
  ASSUME CallTypeOK, NEW c \in Call, NEW place \in {"checking"} \cup Settled, Goto(c, place),
         target' \in [Call -> Target], waits' \in [Call -> BOOLEAN],
         answer' \in [Call -> Call \cup {NoCall}],
         UNCHANGED <<callbackIndex, promises, used, sending>>
  PROVE  CallTypeOK' /\ callbackIndex \in Nat
<1>1. pc' \in [Call -> {"idle", "checking", "registered", "waiting"} \cup Settled]
  BY DEF CallTypeOK, Goto
<1>2. callbackIndex \in Nat
  BY DEF CallTypeOK
<1>3. QED
  BY <1>1, <1>2 DEF CallTypeOK

LEMMA TargetType ==
  ASSUME CallTypeOK, NEW c \in Call, NEW t \in Target, NEW waiting \in BOOLEAN
  PROVE  /\ [target EXCEPT ![c] = t] \in [Call -> Target]
         /\ [waits EXCEPT ![c] = waiting] \in [Call -> BOOLEAN]
BY DEF CallTypeOK

LEMMA ProceedType ==
  ASSUME CallTypeOK, NEW c \in Call, NEW t \in Target, NEW waiting \in BOOLEAN,
         Proceed(c, t, waiting),
         target' \in [Call -> Target], waits' \in [Call -> BOOLEAN], answer' = answer
  PROVE  CallTypeOK' /\ callbackIndex' >= callbackIndex /\ callbackIndex \in Nat /\ callbackIndex' \in Nat
<1>1. CASE Register(c)
  <2>1. CallTypeOK' /\ callbackIndex' = callbackIndex + 1 /\ callbackIndex \in Nat
    BY <1>1, RegisterType
  <2>2. QED
    BY <2>1
<1>2. CASE Goto(c, "returned") /\ SendApiCall(c, t)
  <2>1. "returned" \in Settled \cup {"waiting"}
    BY DEF Settled
  <2>2. CallTypeOK' /\ callbackIndex' = callbackIndex /\ callbackIndex \in Nat
    BY <1>2, <2>1, SendType
  <2>3. QED
    BY <2>2
<1>3. QED
  BY <1>1, <1>2 DEF Proceed

LEMMA CallStepType ==
  ASSUME TypeOK, NEW c \in Call,
         \/ \E t \in Target, waiting \in BOOLEAN : Issue(c, t, waiting)
         \/ Check(c) \/ SendRegistered(c) \/ RunCallback(c)
  PROVE  TypeOK'
<1>1. CallTypeOK /\ PeerTypeOK
  BY TypeParts
<1>2. UNCHANGED peerVars
  BY DEF Issue, Check, SendRegistered, RunCallback
<1>3. SUFFICES CallTypeOK' /\ callbackIndex' >= callbackIndex
                 /\ callbackIndex \in Nat /\ callbackIndex' \in Nat
  BY <1>1, <1>2, PeerTypeFrame, TypeParts
<1>4. callbackIndex \in Nat /\ target[c] \in Target /\ waits[c] \in BOOLEAN
  BY <1>1 DEF CallTypeOK
<1>5. ASSUME NEW t \in Target, NEW waiting \in BOOLEAN, Issue(c, t, waiting)
      PROVE  CallTypeOK' /\ callbackIndex' >= callbackIndex /\ callbackIndex' \in Nat
  <2>1. target' \in [Call -> Target] /\ waits' \in [Call -> BOOLEAN] /\ answer' = answer
    BY <1>1, <1>5, TargetType DEF Issue
  <2>2. CASE Proceed(c, t, waiting)
    BY <1>1, <2>1, <2>2, ProceedType
  <2>3. CASE Goto(c, "checking") /\ UNCHANGED <<callbackIndex, promises, used, sending>>
    <3>1. answer' \in [Call -> Call \cup {NoCall}]
      BY <1>1, <2>1 DEF CallTypeOK
    <3>2. CallTypeOK'
      BY <1>1, <2>1, <2>3, <3>1, GotoType
    <3>3. QED
      BY <1>4, <2>3, <3>2
  <2>4. QED
    BY <1>5, <2>2, <2>3 DEF Issue
<1>6. ASSUME Check(c)
      PROVE  CallTypeOK' /\ callbackIndex' >= callbackIndex /\ callbackIndex' \in Nat
  <2>1. target' \in [Call -> Target] /\ waits' \in [Call -> BOOLEAN] /\ answer' = answer
    BY <1>1, <1>6 DEF Check, CallTypeOK
  <2>2. CASE Proceed(c, target[c], waits[c])
    BY <1>1, <1>4, <2>1, <2>2, ProceedType
  <2>3. CASE Goto(c, "rejected") /\ UNCHANGED <<callbackIndex, promises, used, sending>>
    <3>1. answer' \in [Call -> Call \cup {NoCall}] /\ "rejected" \in {"checking"} \cup Settled
      BY <1>1, <2>1 DEF CallTypeOK, Settled
    <3>2. CallTypeOK'
      BY <1>1, <2>1, <2>3, <3>1, GotoType
    <3>3. QED
      BY <1>4, <2>3, <3>2
  <2>4. QED
    BY <1>6, <2>2, <2>3 DEF Check
<1>7. ASSUME SendRegistered(c)
      PROVE  CallTypeOK' /\ callbackIndex' >= callbackIndex /\ callbackIndex' \in Nat
  <2>1. target' \in [Call -> Target] /\ waits' \in [Call -> BOOLEAN] /\ answer' = answer
    BY <1>1, <1>7 DEF SendRegistered, CallTypeOK
  <2>2. CallTypeOK' /\ callbackIndex' = callbackIndex
    BY <1>1, <1>4, <1>7, <2>1, SendType DEF SendRegistered
  <2>3. QED
    BY <1>4, <2>2
<1>8. ASSUME RunCallback(c)
      PROVE  CallTypeOK' /\ callbackIndex' >= callbackIndex /\ callbackIndex' \in Nat
  <2>1. PICK place \in Settled : Goto(c, place)
    BY <1>8 DEF RunCallback, Settled
  <2>2. /\ target' \in [Call -> Target] /\ waits' \in [Call -> BOOLEAN]
        /\ answer' \in [Call -> Call \cup {NoCall}]
        /\ UNCHANGED <<callbackIndex, promises, used, sending>>
    BY <1>1, <1>8 DEF RunCallback, CallTypeOK
  <2>3. CallTypeOK'
    BY <1>1, <2>1, <2>2, GotoType
  <2>4. QED
    BY <1>4, <2>2, <2>3
<1>9. QED
  BY <1>4, <1>5, <1>6, <1>7, <1>8

LEMMA PeerStepType ==
  ASSUME TypeOK, UNCHANGED callVars, sending' \subseteq sending, PeerTypeOK'
  PROVE  TypeOK'
BY TypeParts, CallTypeFrame

LEMMA TransmitType == ASSUME TypeOK, NEW s \in sending, Transmit(s) PROVE TypeOK'
<1>1. callbackIndex' = callbackIndex /\ s.call \in Call /\ s.index \in 0..callbackIndex
  BY DEF TypeOK, Transmit, callVars
<1>2. requests' \subseteq Message'
  BY <1>1 DEF TypeOK, Transmit, Message
<1>3. PeerTypeOK'
  BY <1>1, <1>2 DEF TypeOK, PeerTypeOK, Transmit, Message, Job
<1>4. QED
  BY <1>3, PeerStepType DEF Transmit

LEMMA DeliverType == ASSUME TypeOK, NEW a \in answers, Deliver(a) PROVE TypeOK'
<1>1. UNCHANGED <<callbackIndex, target, waits, promises, used, sending>> /\ a.call \in Call
  BY DEF TypeOK, Deliver
<1>2. pc' \in [Call -> {"idle", "checking", "registered", "waiting"} \cup Settled]
  BY DEF TypeOK, Deliver, Goto, Settled
<1>3. answer' \in [Call -> Call \cup {NoCall}]
  BY <1>1 DEF TypeOK, Deliver
<1>4. PeerTypeOK'
  BY <1>1 DEF TypeOK, PeerTypeOK, Deliver, Message, Job
<1>5. CallTypeOK'
  BY <1>1, <1>2, <1>3 DEF TypeOK, CallTypeOK
<1>6. QED
  BY <1>4, <1>5, TypeParts

LEMMA ReceiveType == ASSUME TypeOK, NEW r \in requests, Receive(r) PROVE TypeOK'
<1>1. callbackIndex' = callbackIndex
      /\ r.call \in Call /\ r.index \in 0..callbackIndex /\ r.peer \in Peer
  BY DEF TypeOK, Message, Receive, callVars
<1>2. 1 \in 1..Modules + 2
  BY ApiCallsAssumption
<1>3. [call |-> r.call, index |-> r.index, peer |-> r.peer,
       next |-> 1, responded |-> FALSE, answered |-> {}] \in Job
  BY <1>1, <1>2 DEF Job
<1>4. PeerTypeOK'
  BY <1>1, <1>3 DEF TypeOK, PeerTypeOK, Receive, Message, Job
<1>5. QED
  BY <1>4, PeerStepType DEF Receive

\* The record that takes the place of a job is one.
LEMMA WithType ==
  ASSUME TypeOK, NEW j \in jobs, NEW k \in Job, With(j, k), UNCHANGED callVars, sending' = sending,
         UNCHANGED <<connected, requests, drops>>, NEW by \in 0..Modules,
         answers' \subseteq answers \cup {Result(j, by)}
  PROVE  TypeOK'
<1>1. callbackIndex' = callbackIndex
      /\ j.call \in Call /\ j.index \in 0..callbackIndex /\ j.peer \in Peer
  BY DEF TypeOK, Job, callVars
<1>2. Result(j, by) \in [call: Call, index: 0..callbackIndex, peer: Peer, by: 0..Modules]
  BY <1>1 DEF Result
<1>3. jobs' \subseteq Job
  BY DEF With, TypeOK
<1>4. PeerTypeOK'
  BY <1>1, <1>2, <1>3 DEF TypeOK, PeerTypeOK, Message, Job
<1>5. QED
  BY <1>4, PeerStepType

LEMMA ModuleReturnsType ==
  ASSUME TypeOK, NEW j \in jobs, NEW responds \in BOOLEAN, ModuleReturns(j, responds)
  PROVE  TypeOK'
<1>1. j \in Job /\ j.next \in 1..Modules + 2 /\ j.next <= Modules /\ j.responded \in BOOLEAN
  BY DEF TypeOK, Job, ModuleReturns
<1>2. j.next + 1 \in 1..Modules + 2
  BY <1>1, ApiCallsAssumption
<1>3. (j.responded \/ responds) \in BOOLEAN
  OBVIOUS
<1>4. [j EXCEPT !.next = @ + 1, !.responded = @ \/ responds] \in Job
  BY <1>1, <1>2, <1>3 DEF Job
<1>5. 0 \in 0..Modules
  BY ApiCallsAssumption
<1>6. QED
  BY <1>4, <1>5, WithType DEF ModuleReturns

LEMMA ModuleAnswersType ==
  ASSUME TypeOK, NEW j \in jobs, NEW m \in 1..Modules, ModuleAnswers(j, m)
  PROVE  TypeOK'
<1>1. j \in Job
  BY DEF TypeOK
<1>2. [j EXCEPT !.answered = @ \cup {m}] \in Job
  BY <1>1 DEF Job
<1>3. m \in 0..Modules
  BY ApiCallsAssumption
<1>4. QED
  BY <1>2, <1>3, WithType DEF ModuleAnswers

LEMMA FinishType == ASSUME TypeOK, NEW j \in jobs, Finish(j) PROVE TypeOK'
<1>1. j \in Job /\ j.next = Modules + 1
  BY DEF TypeOK, Finish
<1>2. [j EXCEPT !.next = @ + 1] \in Job
  BY <1>1, ApiCallsAssumption DEF Job
<1>3. 0 \in 0..Modules
  BY ApiCallsAssumption
<1>4. QED
  BY <1>2, <1>3, WithType DEF Finish

LEMMA ConnectType ==
  ASSUME TypeOK, NEW p \in Peer, Connect(p) \/ Disconnect(p) PROVE TypeOK'
<1>1. UNCHANGED callVars /\ sending' = sending /\ callbackIndex' = callbackIndex
  BY DEF Connect, Disconnect, callVars
<1>2. PeerTypeOK'
  BY <1>1 DEF TypeOK, PeerTypeOK, Connect, Disconnect, NotOf, Message, Job
<1>3. QED
  BY <1>1, <1>2, PeerStepType

LEMMA StepType == TypeOK /\ [Next]_vars => TypeOK'
<1> SUFFICES ASSUME TypeOK, [Next]_vars PROVE TypeOK'
  OBVIOUS
<1>1. CASE UNCHANGED vars
  BY <1>1, PeerTypeFrame DEF vars, TypeOK, callVars, peerVars, Message, Job
<1>2. CASE Next
  BY <1>2, CallStepType, TransmitType, DeliverType, ReceiveType, ModuleReturnsType,
     ModuleAnswersType, FinishType, ConnectType DEF Next
<1>3. QED
  BY <1>1, <1>2

\* Every variable keeps its kind: in particular no message ever bears an index that was
\* not given out.
THEOREM TypeCorrect == Spec => []TypeOK
BY InitType, StepType, PTL DEF Spec

-----------------------------------------------------------------------------
(* Answers go forward *)

Kept == Fresh /\ Unique /\ Forward /\ AnswersGoForward

LEMMA InitInv == Init => Inv
<1> SUFFICES ASSUME Init PROVE Inv
  OBVIOUS
<1>1. TypeOK
  BY InitType
<1>2. Index = {} /\ InFlight = {} /\ callbackIndex = 0
  BY DEF Init, Index, InFlight
<1>3. Fresh
  BY <1>2, ApiCallsAssumption DEF Init, Fresh
<1>4. QED
  BY <1>1, <1>2, <1>3 DEF Inv, Unique, Forward, AnswersGoForward, LatestKeepsItsIndex

\* What is in flight may be lost, or passed on under the index it has.
PassedOn == \A m \in InFlight' : \E n \in InFlight : m.call = n.call /\ m.index = n.index

LEMMA PassedOnKeeps ==
  ASSUME TypeOK, Kept, PassedOn, UNCHANGED <<callbackIndex, promises, answer>>,
         \A c \in Call : pc'[c] \in Unregistered => pc[c] \in Unregistered
  PROVE  Kept'
<1>1. Index' = Index
  BY DEF Index
<1>2. Fresh'
  <2> SUFFICES ASSUME NEW c \in Call, pc'[c] \in Unregistered
               PROVE  /\ \A i \in Index : promises[i] # c
                      /\ \A m \in InFlight' : m.call # c
                      /\ \A d \in Call : answer[d] # c
    BY <1>1 DEF Fresh
  <2>1. QED
    BY DEF Kept, Fresh, PassedOn
<1>3. Unique'
  BY <1>1 DEF Kept, Unique
<1>4. Forward'
  <2> SUFFICES ASSUME NEW m \in InFlight', NEW k \in Index, promises[k] = m.call
               PROVE  k <= m.index
    BY <1>1 DEF Forward
  <2>1. QED
    BY DEF Kept, Forward, PassedOn
<1>5. AnswersGoForward'
  BY <1>1 DEF Kept, AnswersGoForward
<1>6. QED
  BY <1>2, <1>3, <1>4, <1>5 DEF Kept

LEMMA RegisterKeeps ==
  ASSUME TypeOK, Kept, NEW c \in Call, pc[c] \in Unregistered, Register(c), answer' = answer,
         UNCHANGED <<requests, jobs, answers>>
  PROVE  Kept'
<1>1. callbackIndex \in Nat /\ callbackIndex' = callbackIndex + 1 /\ Len(promises) = callbackIndex
  BY DEF TypeOK, Register
<1>2. Index' = Index \cup {callbackIndex + 1} /\ callbackIndex + 1 \notin Index
  BY <1>1 DEF Index
<1>3. /\ \A i \in Index : promises'[i] = promises[i]
      /\ promises'[callbackIndex + 1] = c
  BY <1>1 DEF TypeOK, Register, Index
<1>4. InFlight' = InFlight
  BY DEF InFlight, Register
<1>5. /\ \A i \in Index : promises[i] # c
      /\ \A m \in InFlight : m.call # c
      /\ \A d \in Call : answer[d] # c
  BY DEF Kept, Fresh
<1>6. \A d \in Call : pc'[d] \in Unregistered => d # c /\ pc[d] \in Unregistered
  BY DEF TypeOK, Register, Goto, Unregistered
<1>7. Fresh'
  <2> SUFFICES ASSUME NEW d \in Call, pc'[d] \in Unregistered
               PROVE  /\ \A i \in Index' : promises'[i] # d
                      /\ \A m \in InFlight' : m.call # d
                      /\ \A e \in Call : answer'[e] # d
    BY DEF Fresh
  <2>1. d # c /\ pc[d] \in Unregistered
    BY <1>6
  <2>2. QED
    BY <1>2, <1>3, <1>4, <2>1 DEF Kept, Fresh
<1>8. Unique'
  BY <1>2, <1>3, <1>5 DEF Kept, Unique
<1>9. Forward'
  BY <1>2, <1>3, <1>4, <1>5 DEF Kept, Forward
<1>10. AnswersGoForward'
  <2> SUFFICES ASSUME NEW d \in Call, NEW i \in Index', NEW k \in Index',
                      promises'[i] = d, promises'[k] = answer[d]
               PROVE  k <= i
    BY DEF AnswersGoForward
  <2>1. k # callbackIndex + 1
    BY <1>3, <1>5
  <2>2. CASE i = callbackIndex + 1
    BY <1>1, <1>2, <2>1, <2>2 DEF Index
  <2>3. CASE i # callbackIndex + 1
    BY <1>2, <1>3, <2>1, <2>3 DEF Kept, AnswersGoForward
  <2>4. QED
    BY <2>2, <2>3
<1>11. QED
  BY <1>7, <1>8, <1>9, <1>10 DEF Kept

\* Whatever is sent bears the index of the latest promise, which none is above.
LEMMA SendKeeps ==
  ASSUME TypeOK, Kept, NEW c \in Call, NEW t \in Target, NEW place \in Settled \cup {"waiting"},
         Goto(c, place), SendApiCall(c, t), answer' = answer,
         UNCHANGED <<requests, jobs, answers>>
  PROVE  Kept'
<1>1. Index' = Index /\ promises' = promises /\ callbackIndex \in Nat
  BY DEF TypeOK, Index, SendApiCall
<1>2. InFlight' = InFlight \cup {[call |-> c, index |-> callbackIndex, target |-> t]}
  BY DEF InFlight, SendApiCall
<1>3. \A d \in Call : pc'[d] \in Unregistered => d # c /\ pc[d] \in Unregistered
  BY DEF TypeOK, Goto, Unregistered, Settled
<1>4. Fresh'
  <2> SUFFICES ASSUME NEW d \in Call, pc'[d] \in Unregistered
               PROVE  /\ \A i \in Index : promises[i] # d
                      /\ \A m \in InFlight' : m.call # d
                      /\ \A e \in Call : answer[e] # d
    BY <1>1 DEF Fresh
  <2>1. d # c /\ pc[d] \in Unregistered
    BY <1>3
  <2>2. QED
    BY <1>2, <2>1 DEF Kept, Fresh
<1>5. Unique'
  BY <1>1 DEF Kept, Unique
<1>6. Forward'
  <2> SUFFICES ASSUME NEW m \in InFlight', NEW k \in Index, promises[k] = m.call
               PROVE  k <= m.index
    BY <1>1 DEF Forward
  <2>1. CASE m \in InFlight
    BY <2>1 DEF Kept, Forward
  <2>2. CASE m = [call |-> c, index |-> callbackIndex, target |-> t]
    BY <1>1, <2>2 DEF Index
  <2>3. QED
    BY <1>2, <2>1, <2>2
<1>7. AnswersGoForward'
  BY <1>1 DEF Kept, AnswersGoForward
<1>8. QED
  BY <1>4, <1>5, <1>6, <1>7 DEF Kept

LEMMA DeliverKeeps == ASSUME TypeOK, Kept, NEW a \in answers, Deliver(a) PROVE Kept'
<1>1. UNCHANGED <<callbackIndex, promises>> /\ InFlight' \subseteq InFlight /\ a \in InFlight
  BY DEF Deliver, InFlight
<1>2. PassedOn
  BY <1>1 DEF PassedOn
<1>3. DOMAIN promises = Index
  BY DEF TypeOK, Index
<1>4. CASE UNCHANGED <<pc, answer>>
  BY <1>1, <1>2, <1>4, PassedOnKeeps
<1>5. ASSUME NEW c \in Call, a.index \in Index, c = promises[a.index],
             Goto(c, "resolved"), answer' = [answer EXCEPT ![c] = a.call]
      PROVE  Kept'
  <2>1. Index' = Index
    BY <1>1 DEF Index
  <2>2. \A d \in Call : pc'[d] \in Unregistered => pc[d] \in Unregistered
    BY <1>5 DEF TypeOK, Goto, Unregistered
  <2>3. \A e \in Call : answer'[e] = IF e = c THEN a.call ELSE answer[e]
    BY <1>5 DEF TypeOK
  <2>4. Fresh'
    <3> SUFFICES ASSUME NEW d \in Call, pc'[d] \in Unregistered
                 PROVE  /\ \A i \in Index : promises[i] # d
                        /\ \A m \in InFlight' : m.call # d
                        /\ \A e \in Call : answer'[e] # d
      BY <1>1, <2>1 DEF Fresh
    <3>1. QED
      BY <1>1, <2>2, <2>3 DEF Kept, Fresh
  <2>5. Unique'
    BY <1>1, <2>1 DEF Kept, Unique
  <2>6. Forward'
    BY <1>1, <2>1 DEF Kept, Forward
  <2>7. AnswersGoForward'
    <3> SUFFICES ASSUME NEW d \in Call, NEW i \in Index, NEW k \in Index,
                        promises[i] = d, promises[k] = answer'[d]
                 PROVE  k <= i
      BY <1>1, <2>1 DEF AnswersGoForward
    <3>1. CASE d = c
      <4>1. i = a.index
        BY <1>5, <3>1 DEF Kept, Unique
      <4>2. promises[k] = a.call
        BY <2>3, <3>1
      <4>3. QED
        BY <1>1, <4>1, <4>2 DEF Kept, Forward
    <3>2. CASE d # c
      BY <2>3, <3>2 DEF Kept, AnswersGoForward
    <3>3. QED
      BY <3>1, <3>2
  <2>8. QED
    BY <2>4, <2>5, <2>6, <2>7 DEF Kept
<1>6. CASE a.index \in DOMAIN promises /\ Goto(promises[a.index], "resolved")
           /\ answer' = [answer EXCEPT ![promises[a.index]] = a.call]
  <2>1. promises[a.index] \in Call
    BY <1>3, <1>6 DEF TypeOK, Index
  <2>2. QED
    BY <1>3, <1>5, <1>6, <2>1
<1>7. QED
  BY <1>4, <1>6 DEF Deliver

LEMMA CallStepKeeps ==
  ASSUME TypeOK, Kept, NEW c \in Call,
         \/ \E t \in Target, waiting \in BOOLEAN : Issue(c, t, waiting)
         \/ Check(c) \/ SendRegistered(c) \/ RunCallback(c)
  PROVE  Kept'
<1>1. UNCHANGED <<requests, jobs, answers, answer>> /\ target[c] \in Target
  BY DEF TypeOK, Issue, Check, SendRegistered, RunCallback, peerVars
<1>2. ASSUME NEW t \in Target, NEW waiting \in BOOLEAN, pc[c] \in Unregistered, Proceed(c, t, waiting)
      PROVE  Kept'
  <2>1. CASE Register(c)
    BY <1>1, <1>2, <2>1, RegisterKeeps
  <2>2. CASE Goto(c, "returned") /\ SendApiCall(c, t)
    BY <1>1, <2>2, SendKeeps DEF Settled
  <2>3. QED
    BY <1>2, <2>1, <2>2 DEF Proceed
<1>3. ASSUME NEW place, Goto(c, place), UNCHANGED <<callbackIndex, promises, used, sending>>,
             pc[c] \in Unregistered \/ place \notin Unregistered
      PROVE  Kept'
  <2>1. \A d \in Call : pc'[d] \in Unregistered => pc[d] \in Unregistered
    BY <1>3 DEF TypeOK, Goto
  <2>2. PassedOn
    BY <1>1, <1>3 DEF PassedOn, InFlight
  <2>3. QED
    BY <1>1, <1>3, <2>1, <2>2, PassedOnKeeps
<1>4. CASE \E t \in Target, waiting \in BOOLEAN : Issue(c, t, waiting)
  BY <1>2, <1>3, <1>4 DEF Issue, Unregistered
<1>5. CASE Check(c)
  <2>1. waits[c] \in BOOLEAN /\ pc[c] \in Unregistered
    BY <1>5 DEF TypeOK, Check, Unregistered
  <2>2. QED
    BY <1>1, <1>2, <1>3, <1>5, <2>1 DEF Check
<1>6. CASE SendRegistered(c)
  BY <1>1, <1>6, SendKeeps DEF SendRegistered
<1>7. CASE RunCallback(c)
  <2>1. PICK place \in {"returned", "threw"} : Goto(c, place)
    BY <1>7 DEF RunCallback
  <2>2. QED
    BY <1>3, <1>7, <2>1 DEF RunCallback, Unregistered
<1>8. QED
  BY <1>4, <1>5, <1>6, <1>7

LEMMA PeerStepKeeps ==
  ASSUME TypeOK, Kept,
         \/ \E s \in sending : Transmit(s)
         \/ \E r \in requests : Receive(r)
         \/ \E j \in jobs : \/ \E responds \in BOOLEAN : ModuleReturns(j, responds)
                            \/ \E m \in 1..Modules : ModuleAnswers(j, m)
                            \/ Finish(j)
         \/ \E p \in Peer : Connect(p) \/ Disconnect(p)
  PROVE  Kept'
<1>1. UNCHANGED callVars
  BY DEF Transmit, Receive, ModuleReturns, ModuleAnswers, Finish, Connect, Disconnect
<1>2. ASSUME NEW s \in sending, Transmit(s) PROVE PassedOn
  BY <1>2 DEF Transmit, PassedOn, InFlight
<1>3. ASSUME NEW r \in requests, Receive(r) PROVE PassedOn
  BY <1>3 DEF Receive, PassedOn, InFlight
<1>4. ASSUME NEW j \in jobs, NEW k, k.call = j.call, k.index = j.index, With(j, k), NEW by,
             answers' \subseteq answers \cup {Result(j, by)}, UNCHANGED <<sending, requests>>
      PROVE  PassedOn
  BY <1>4 DEF With, Result, PassedOn, InFlight
<1>5. ASSUME NEW j \in jobs,
             \/ \E responds \in BOOLEAN : ModuleReturns(j, responds)
             \/ \E m \in 1..Modules : ModuleAnswers(j, m)
             \/ Finish(j)
      PROVE  PassedOn
  <2>1. j \in Job
    BY DEF TypeOK
  <2>2. CASE \E responds \in BOOLEAN : ModuleReturns(j, responds)
    <3>1. PICK responds \in BOOLEAN : ModuleReturns(j, responds)
      BY <2>2
    <3> DEFINE k == [j EXCEPT !.next = @ + 1, !.responded = @ \/ responds]
    <3>2. k.call = j.call /\ k.index = j.index
      BY <2>1 DEF Job
    <3>3. QED
      BY <1>4, <3>1, <3>2 DEF ModuleReturns
  <2>3. CASE \E m \in 1..Modules : ModuleAnswers(j, m)
    <3>1. PICK m \in 1..Modules : ModuleAnswers(j, m)
      BY <2>3
    <3> DEFINE k == [j EXCEPT !.answered = @ \cup {m}]
    <3>2. k.call = j.call /\ k.index = j.index
      BY <2>1 DEF Job
    <3>3. QED
      BY <1>4, <3>1, <3>2 DEF ModuleAnswers
  <2>4. CASE Finish(j)
    <3> DEFINE k == [j EXCEPT !.next = @ + 1]
    <3>1. k.call = j.call /\ k.index = j.index
      BY <2>1 DEF Job
    <3>2. QED
      BY <1>4, <2>4, <3>1 DEF Finish
  <2>5. QED
    BY <1>5, <2>2, <2>3, <2>4
<1>6. ASSUME NEW p \in Peer, Connect(p) \/ Disconnect(p) PROVE PassedOn
  BY <1>6 DEF Connect, Disconnect, NotOf, PassedOn, InFlight
<1>7. PassedOn
  BY <1>2, <1>3, <1>5, <1>6
<1>8. QED
  BY <1>1, <1>7, PassedOnKeeps DEF callVars

-----------------------------------------------------------------------------
(* The latest promise *)

LEMMA LatestStep == TypeOK /\ LatestKeepsItsIndex /\ Next => LatestKeepsItsIndex'
<1> SUFFICES ASSUME TypeOK, LatestKeepsItsIndex, Next,
                    NEW c \in Call, callbackIndex' > 0, promises'[callbackIndex'] = c, pc'[c] = "waiting"
             PROVE  used'[c] = callbackIndex'
  BY DEF LatestKeepsItsIndex
<1>1. CASE UNCHANGED <<callbackIndex, promises, used>> /\ pc'[c] = pc[c]
  BY <1>1 DEF LatestKeepsItsIndex
<1>2. ASSUME NEW d \in Call, Register(d), UNCHANGED answer PROVE FALSE
  <2>1. promises'[callbackIndex'] = d
    BY <1>2 DEF TypeOK, Register
  <2>2. pc'[d] = "registered"
    BY <1>2 DEF TypeOK, Register, Goto
  <2>3. QED
    BY <2>1, <2>2
<1>3. ASSUME NEW d \in Call, NEW t \in Target, NEW place, Goto(d, place), SendApiCall(d, t)
      PROVE  used'[c] = callbackIndex'
  <2>1. CASE d = c
    BY <1>3, <2>1 DEF TypeOK, SendApiCall
  <2>2. CASE d # c
    <3>1. pc'[c] = pc[c] /\ used'[c] = used[c] /\ UNCHANGED <<callbackIndex, promises>>
      BY <1>3, <2>2 DEF TypeOK, Goto, SendApiCall
    <3>2. QED
      BY <3>1 DEF LatestKeepsItsIndex
  <2>3. QED
    BY <2>1, <2>2
<1>4. ASSUME NEW d \in Call, NEW place, place # "waiting", Goto(d, place),
             UNCHANGED <<callbackIndex, promises, used>>
      PROVE  used'[c] = callbackIndex'
  <2>1. pc'[c] = pc[c]
    BY <1>4 DEF TypeOK, Goto
  <2>2. QED
    BY <1>1, <1>4, <2>1
<1>5. ASSUME NEW d \in Call, NEW t \in Target, NEW waiting \in BOOLEAN, Proceed(d, t, waiting),
             UNCHANGED answer
      PROVE  used'[c] = callbackIndex'
  BY <1>2, <1>3, <1>5 DEF Proceed
<1>6. ASSUME NEW d \in Call, NEW t \in Target, NEW waiting \in BOOLEAN, Issue(d, t, waiting)
      PROVE  used'[c] = callbackIndex'
  BY <1>4, <1>5, <1>6 DEF Issue
<1>7. ASSUME NEW d \in Call, Check(d) PROVE used'[c] = callbackIndex'
  <2>1. target[d] \in Target /\ waits[d] \in BOOLEAN
    BY DEF TypeOK
  <2>2. QED
    BY <1>4, <1>5, <1>7, <2>1 DEF Check
<1>8. ASSUME NEW d \in Call, SendRegistered(d) PROVE used'[c] = callbackIndex'
  <2>1. target[d] \in Target
    BY DEF TypeOK
  <2>2. QED
    BY <1>3, <1>8, <2>1 DEF SendRegistered
<1>9. ASSUME NEW d \in Call, RunCallback(d) PROVE used'[c] = callbackIndex'
  BY <1>4, <1>9 DEF RunCallback
<1>10. ASSUME NEW a \in answers, Deliver(a) PROVE used'[c] = callbackIndex'
  <2>1. CASE a.index \in DOMAIN promises /\ Goto(promises[a.index], "resolved")
    <3>1. promises[a.index] \in Call
      BY <2>1 DEF TypeOK
    <3>2. QED
      BY <1>4, <1>10, <2>1, <3>1 DEF Deliver
  <2>2. CASE UNCHANGED pc
    BY <1>1, <1>10, <2>2 DEF Deliver
  <2>3. QED
    BY <1>10, <2>1, <2>2 DEF Deliver
<1>11. CASE UNCHANGED callVars
  BY <1>1, <1>11 DEF callVars
<1>12. QED
  BY <1>6, <1>7, <1>8, <1>9, <1>10, <1>11
     DEF Next, Transmit, Receive, ModuleReturns, ModuleAnswers, Finish, Connect, Disconnect

-----------------------------------------------------------------------------
LEMMA StepInv == Inv /\ [Next]_vars => Inv'
<1> SUFFICES ASSUME Inv, [Next]_vars PROVE Inv'
  OBVIOUS
<1>1. TypeOK /\ Kept /\ LatestKeepsItsIndex
  BY DEF Inv, Kept
<1>2. TypeOK'
  BY <1>1, StepType
<1>3. CASE UNCHANGED vars
  <2>1. UNCHANGED <<callVars, sending, requests, jobs, answers>>
    BY <1>3 DEF vars, peerVars
  <2>2. PassedOn
    BY <2>1 DEF PassedOn, InFlight
  <2>3. Kept'
    BY <1>1, <2>1, <2>2, PassedOnKeeps DEF callVars
  <2>4. LatestKeepsItsIndex'
    BY <1>1, <2>1 DEF callVars, LatestKeepsItsIndex
  <2>5. QED
    BY <1>2, <2>3, <2>4 DEF Inv, Kept
<1>4. CASE Next
  <2>1. Kept'
    BY <1>1, <1>4, CallStepKeeps, DeliverKeeps, PeerStepKeeps DEF Next
  <2>2. LatestKeepsItsIndex'
    BY <1>1, <1>4, LatestStep
  <2>3. QED
    BY <1>2, <2>1, <2>2 DEF Inv, Kept
<1>5. QED
  BY <1>3, <1>4

\* Whatever calls share an index, no call is given the answer to a waiting call that was
\* registered after it.
THEOREM AnswersCorrect == Spec => []AnswersGoForward
<1>1. Inv => AnswersGoForward
  BY DEF Inv
<1>2. QED
  BY InitInv, StepInv, <1>1, PTL DEF Spec

\* The latest of the registered calls is sent with the index of its own promise.
THEOREM LatestCorrect == Spec => []LatestKeepsItsIndex
<1>1. Inv => LatestKeepsItsIndex
  BY DEF Inv
<1>2. QED
  BY InitInv, StepInv, <1>1, PTL DEF Spec
=============================================================================
