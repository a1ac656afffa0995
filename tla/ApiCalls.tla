------------------------------- MODULE ApiCalls -------------------------------
(***************************************************************************)
(* The calls that the applications of two nodes make to each other: the    *)
(* calling side is saito.ts (sendApiCall, sendTransactionWithCallback) and *)
(* custom_shared_methods.ts (processApiSuccess), the answering side is     *)
(* processApiCall of server.ts and lite.ts with mod-manager.ts.            *)
(*                                                                         *)
(* A call that waits takes the next callbackIndex, keeps its promise under *)
(* it, yields, and only then sends whatever callbackIndex is by then; an   *)
(* answer settles the promise that is kept under the index it brings.      *)
(***************************************************************************)
EXTENDS Integers, Sequences, FiniteSets

CONSTANTS
  Call,          \* the calls the applications make
  Peer,          \* the indices of the peers they are made to
  All,           \* peer index 0: send_message_to_all
  NoCall,        \* no answer yet
  Modules,       \* the number of modules of a peer
  MaxDrops       \* bound: how often a connection is lost

ASSUME ApiCallsAssumption ==
  /\ All \notin Peer /\ NoCall \notin Call
  /\ Modules \in Nat
  /\ MaxDrops \in Nat

Target == Peer \cup {All}

VARIABLES
  pc,             \* pc[c]: how far the call has come
  target,         \* target[c]: its peerIndex
  waits,          \* waits[c]: waitForReply, whether it has a callback
  callbackIndex,  \* Saito::callbackIndex
  promises,       \* Saito::promises: the call that waits under an index
  used,           \* used[c]: the index the call was sent with
  answer,         \* answer[c]: the call to which the answer it got was given
  sending,        \* the send_api_calls that wait for the lock of the core
  connected,      \* the peers whose status is "connected"
  requests,       \* ApplicationMessages on their way to a peer
  jobs,           \* the handlePeerTransactions of the peers
  answers,        \* Results on their way back
  drops           \* how often a connection was lost

callVars == <<pc, target, waits, callbackIndex, promises, used, answer>>
peerVars == <<connected, requests, jobs, answers, drops>>
vars == <<callVars, sending, peerVars>>

Init ==
  /\ pc = [c \in Call |-> "idle"]
  /\ target = [c \in Call |-> All]
  /\ waits = [c \in Call |-> TRUE]
  /\ callbackIndex = 0 /\ promises = <<>>
  /\ used = [c \in Call |-> 0]
  /\ answer = [c \in Call |-> NoCall]
  /\ sending = {}
  /\ connected \in SUBSET Peer
  /\ requests = {} /\ jobs = {} /\ answers = {}
  /\ drops = 0

-----------------------------------------------------------------------------
(* The calling side.  What follows a resolved promise runs before the next *)
(* event of a socket: a call that has its index is sent before any answer  *)
(* or disconnection is handled, but other calls may come in between.       *)

Settled   == {"resolved", "rejected", "threw", "returned"}
Yielding  == \E c \in Call : pc[c] = "registered"

Goto(c, place) == pc' = [pc EXCEPT ![c] = place]

\* callbackIndex++ and promises.set, in one go.
Register(c) ==
  /\ Goto(c, "registered")
  /\ callbackIndex' = callbackIndex + 1
  /\ promises' = Append(promises, c)
  /\ UNCHANGED <<used, sending>>

\* A mutant: the index before it was counted up.
SendApiCallWithIndexBefore(c, t) ==
  /\ used' = [used EXCEPT ![c] = IF callbackIndex = 0 THEN 0 ELSE callbackIndex - 1]
  /\ sending' = sending \cup {[call |-> c, index |-> used'[c], target |-> t]}
  /\ UNCHANGED <<callbackIndex, promises>>

\* A mutant: the index a next call will have.
SendApiCallWithIndexAfter(c, t) ==
  /\ used' = [used EXCEPT ![c] = callbackIndex + 1]
  /\ sending' = sending \cup {[call |-> c, index |-> callbackIndex + 1, target |-> t]}
  /\ UNCHANGED <<callbackIndex, promises>>

\* send_api_call is called, with the index of the latest promise, and goes on when it has
\* the lock.
SendApiCall(c, t) ==
  /\ used' = [used EXCEPT ![c] = callbackIndex]
  /\ sending' = sending \cup {[call |-> c, index |-> callbackIndex, target |-> t]}
  /\ UNCHANGED <<callbackIndex, promises>>

\* A call that does not wait returns at once, with nothing to call back.
Proceed(c, t, waiting) ==
  \/ waiting /\ Register(c)
  \/ ~waiting /\ Goto(c, "returned") /\ SendApiCall(c, t)

\* sendTransactionWithCallback: a call to all peers goes on in the same turn, one to a
\* peer asks the core for that peer first.
Issue(c, t, waiting) ==
  /\ pc[c] = "idle"
  /\ target' = [target EXCEPT ![c] = t]
  /\ waits' = [waits EXCEPT ![c] = waiting]
  /\ \/ t = All /\ Proceed(c, t, waiting)
     \/ t # All /\ Goto(c, "checking") /\ UNCHANGED <<callbackIndex, promises, used, sending>>
  /\ UNCHANGED <<answer, peerVars>>

\* The peer is known and connected, or the call is rejected without being sent.
Check(c) ==
  /\ pc[c] = "checking"
  /\ \/ target[c] \in connected /\ Proceed(c, target[c], waits[c])
     \/ /\ target[c] \notin connected /\ Goto(c, "rejected")
        /\ UNCHANGED <<callbackIndex, promises, used, sending>>
  /\ UNCHANGED <<target, waits, answer, peerVars>>

\* After the await: this.callbackIndex is read again.
SendRegistered(c) ==
  /\ pc[c] = "registered"
  /\ Goto(c, "waiting")
  /\ SendApiCall(c, target[c])
  /\ UNCHANGED <<target, waits, answer, peerVars>>

\* The core hands the message to the socket of the peer, or to all: where there is no
\* open socket it is lost without an error.
Transmit(s) ==
  /\ s \in sending /\ sending' = sending \ {s}
  /\ requests' = requests \cup
       {[call |-> s.call, index |-> s.index, peer |-> p] :
          p \in {q \in connected : s.target \in {q, All}}}
  /\ UNCHANGED <<callVars, connected, jobs, answers, drops>>

\* processApiSuccess: the promise under the index is resolved, whoever answers what; one
\* that is settled already stays as it is, and it is never taken out of the map.
Deliver(a) ==
  /\ ~Yielding
  /\ a \in answers /\ answers' = answers \ {a}
  /\ IF a.index \in DOMAIN promises /\ pc[promises[a.index]] \notin Settled
     THEN /\ Goto(promises[a.index], "resolved")
          /\ answer' = [answer EXCEPT ![promises[a.index]] = a.call]
     ELSE UNCHANGED <<pc, answer>>
  /\ UNCHANGED <<target, waits, callbackIndex, promises, used, sending>>
  /\ UNCHANGED <<connected, requests, jobs, drops>>

\* The callback is given the answer or, by the catch, the error; when it throws on the
\* answer it is called again, with what it threw.
RunCallback(c) ==
  /\ \/ pc[c] = "resolved" /\ \E to \in {"returned", "threw"} : Goto(c, to)
     \/ pc[c] \in {"rejected", "threw"} /\ Goto(c, "returned")
  /\ UNCHANGED <<target, waits, callbackIndex, promises, used, answer, sending, peerVars>>

-----------------------------------------------------------------------------
(* The answering side. *)

\* processApiCall starts to offer the request to the modules, one after the other.
Receive(r) ==
  /\ r \in requests /\ requests' = requests \ {r}
  /\ jobs' = jobs \cup {[call |-> r.call, index |-> r.index, peer |-> r.peer,
                         next |-> 1, responded |-> FALSE, answered |-> {}]}
  /\ UNCHANGED <<callVars, sending, connected, answers, drops>>

Result(j, by) == [call |-> j.call, index |-> j.index, peer |-> j.peer, by |-> by]

With(j, k) == jobs' = (jobs \ {j}) \cup {k}

\* A module has returned, or thrown, which counts as FALSE.
ModuleReturns(j, responds) ==
  /\ j \in jobs /\ j.next <= Modules
  /\ With(j, [j EXCEPT !.next = @ + 1, !.responded = @ \/ responds])
  /\ UNCHANGED <<callVars, sending, connected, requests, answers, drops>>

\* A module that was offered the request answers it, while it runs or at any time after;
\* nothing ties that to what it returns.
ModuleAnswers(j, m) ==
  /\ j \in jobs /\ m \in 1..Modules /\ m <= j.next /\ m \notin j.answered
  /\ With(j, [j EXCEPT !.answered = @ \cup {m}])
  /\ answers' = answers \cup {Result(j, m)}
  /\ UNCHANGED <<callVars, sending, connected, requests, drops>>

\* A mutant: nothing is sent when no module has responded.
FinishInSilence(j) ==
  /\ j \in jobs /\ j.next = Modules + 1
  /\ With(j, [j EXCEPT !.next = @ + 1])
  /\ UNCHANGED <<callVars, sending, connected, requests, answers, drops>>

\* When no module has responded, the answer is an empty object.
Finish(j) ==
  /\ j \in jobs /\ j.next = Modules + 1
  /\ With(j, [j EXCEPT !.next = @ + 1])
  /\ answers' = IF j.responded THEN answers ELSE answers \cup {Result(j, 0)}
  /\ UNCHANGED <<callVars, sending, connected, requests, drops>>

-----------------------------------------------------------------------------
(* Connections: what is on its way is lost with them, and the answers to   *)
(* what was received find no socket.                                       *)

Connect(p) ==
  /\ ~Yielding
  /\ p \in Peer \ connected
  /\ connected' = connected \cup {p}
  /\ UNCHANGED <<callVars, sending, requests, jobs, answers, drops>>

NotOf(p, messages) == {m \in messages : m.peer # p}

Disconnect(p) ==
  /\ ~Yielding
  /\ drops < MaxDrops /\ drops' = drops + 1
  /\ p \in connected /\ connected' = connected \ {p}
  /\ requests' = NotOf(p, requests) /\ jobs' = NotOf(p, jobs) /\ answers' = NotOf(p, answers)
  /\ UNCHANGED <<callVars, sending>>

-----------------------------------------------------------------------------
Next ==
  \/ \E c \in Call : \/ \E t \in Target, waiting \in BOOLEAN : Issue(c, t, waiting)
                     \/ Check(c) \/ SendRegistered(c) \/ RunCallback(c)
  \/ \E s \in sending : Transmit(s)
  \/ \E a \in answers : Deliver(a)
  \/ \E r \in requests : Receive(r)
  \/ \E j \in jobs : \/ \E responds \in BOOLEAN : ModuleReturns(j, responds)
                     \/ \E m \in 1..Modules : ModuleAnswers(j, m)
                     \/ Finish(j)
  \/ \E p \in Peer : Connect(p) \/ Disconnect(p)

\* Both programs go on running, and so do messages and modules; nothing makes a module
\* answer, a connection come up or the applications call.
Fairness ==
  /\ \A c \in Call : WF_vars(Check(c)) /\ WF_vars(SendRegistered(c)) /\ WF_vars(RunCallback(c))
  /\ WF_vars(\E s \in sending : Transmit(s))
  /\ WF_vars(\E a \in answers : Deliver(a))
  /\ WF_vars(\E r \in requests : Receive(r))
  /\ WF_vars(\E j \in jobs : Finish(j) \/ \E responds \in BOOLEAN : ModuleReturns(j, responds))

Spec == Init /\ [][Next]_vars /\ Fairness

-----------------------------------------------------------------------------
Index == 1..callbackIndex

Message == [call: Call, index: 0..callbackIndex, peer: Peer]
Job == [call: Call, index: 0..callbackIndex, peer: Peer,
        next: 1..Modules + 2, responded: BOOLEAN, answered: SUBSET (1..Modules)]

\* Every variable holds a value of its kind, every index in flight is zero or one that
\* was given out, and every index given out keeps the call that waits under it.
TypeOK ==
  /\ pc \in [Call -> {"idle", "checking", "registered", "waiting"} \cup Settled]
  /\ target \in [Call -> Target] /\ waits \in [Call -> BOOLEAN]
  /\ promises \in Seq(Call) /\ callbackIndex = Len(promises)
  /\ used \in [Call -> 0..callbackIndex]
  /\ answer \in [Call -> Call \cup {NoCall}]
  /\ sending \subseteq [call: Call, index: 0..callbackIndex, target: Target]
  /\ connected \subseteq Peer
  /\ requests \subseteq Message
  /\ jobs \subseteq Job
  /\ answers \subseteq [call: Call, index: 0..callbackIndex, peer: Peer, by: 0..Modules]
  /\ drops \in Nat

\* The answer to a call that waits never settles the promise of a call that was registered
\* earlier: however the calls of one turn share their indices, they only go forward.
AnswersGoForward ==
  \A c \in Call, i, k \in Index :
    promises[i] = c /\ promises[k] = answer[c] => k <= i

\* Of all the calls that were registered, the latest is sent with its own index: the
\* calls of one turn lose their answers to it, but not all of them are lost.
LatestKeepsItsIndex ==
  \A c \in Call :
    callbackIndex > 0 /\ promises[callbackIndex] = c /\ pc[c] = "waiting" => used[c] = callbackIndex

\* A promise whose index reaches a peer is settled, unless the connection is lost or a
\* module takes the request upon itself, which need not answer it.
ReceivedCallIsSettled ==
  \A i \in 1..Cardinality(Call), n \in 0..MaxDrops :
    (\E r \in requests : r.index = i) /\ drops = n ~>
      \/ i \in Index /\ pc[promises[i]] \in Settled
      \/ drops > n
      \/ \E j \in jobs : j.index = i /\ j.responded

=============================================================================
