--------------------------------- MODULE Peers ---------------------------------
(***************************************************************************)
(* A browser that keeps a connection to its static peer, a node: the       *)
(* WebSockets of the two (shared_methods.web.ts, server.ts, saito.ts), the *)
(* core below them (network.rs, peer.rs, peer_collection.rs and the        *)
(* handshake in routing_thread.rs), and what is between them.              *)
(*                                                                         *)
(* Every connection has the index 0 at the client, whose handlers cannot   *)
(* tell one socket from the next, and an index of its own at the server.   *)
(* The core handles one event at a time, in the order of SAITO.lock().     *)
(***************************************************************************)
EXTENDS Integers, Sequences, FiniteSets

CONSTANTS
  MaxSockets,    \* bound: how many connections the client opens
  MaxFailures,   \* bound: how often the network breaks a connection
  MaxStale,      \* bound: how often a peer is silent for too long
  MaxPings       \* bound: how often a node pings on its own

ASSUME PeersAssumption ==
  /\ MaxSockets \in Nat /\ MaxFailures \in Nat /\ MaxStale \in Nat /\ MaxPings \in Nat

Node   == {"client", "server"}
Socket == 1..MaxSockets
NoSocket == 0

Other(n) == IF n = "client" THEN "server" ELSE "client"

\* The peer_index that the handlers of a socket were given.
IndexOf(n, s) == IF n = "client" THEN 0 ELSE s
Index(n) == IF n = "client" THEN {0} ELSE Socket
NoIndex == -1

VARIABLES
  (* the sockets of the two ends *)
  ready,      \* ready[n][s]: WebSocket::readyState
  handled,    \* the sockets the server has given an index and handlers
  wire,       \* wire[n][s]: what is on its way to n
  (* the program above them *)
  sockets,    \* Saito::sockets: sockets[n][i]
  events,     \* events[n]: the calls that wait for the core
  (* the core *)
  peers,      \* PeerCollection::index_to_peers: peers[n][i]
  address,    \* PeerCollection::address_to_peers, of the key of the other node
  pending,    \* PeerCollection::pending_handshake_responses
  (* what the environment has done *)
  failures, stale, pings

netVars  == <<ready, handled, wire>>
jsVars   == <<sockets, events>>
coreVars == <<peers, address, pending>>
envVars  == <<failures, stale, pings>>
vars == <<netVars, jsVars, coreVars, envVars>>

\* index_to_peers has no entry.
NoPeer == [status |-> "none", key |-> FALSE, challenge |-> 0]

\* The client has its static peer from the configuration on.
NewPeer == [status |-> "disconnected", key |-> FALSE, challenge |-> 0]

Init ==
  /\ ready = [n \in Node |-> [s \in Socket |-> "none"]]
  /\ handled = {}
  /\ wire = [n \in Node |-> [s \in Socket |-> <<>>]]
  /\ sockets = [n \in Node |-> [i \in Index(n) |-> NoSocket]]
  /\ events = [n \in Node |-> <<>>]
  /\ peers = [n \in Node |-> [i \in Index(n) |-> IF n = "client" THEN NewPeer ELSE NoPeer]]
  /\ address = [n \in Node |-> NoIndex]
  /\ pending = [n \in Node |-> <<>>]
  /\ failures = 0 /\ stale = 0 /\ pings = 0

-----------------------------------------------------------------------------
(* What the core does with sockets and peers it does within one step: the  *)
(* world is handed from one operator to the next.                          *)

World == [ready |-> ready, wire |-> wire, sockets |-> sockets,
          peers |-> peers, address |-> address, pending |-> pending]

Becomes(w) ==
  /\ ready' = w.ready /\ wire' = w.wire /\ sockets' = w.sockets
  /\ peers' = w.peers /\ address' = w.address /\ pending' = w.pending

\* sendMessage: a message for which there is no open socket is dropped.
Sent(w, n, i, m) ==
  LET s == w.sockets[n][i] IN
  IF s # NoSocket /\ w.ready[n][s] = "open"
  THEN [w EXCEPT !.wire[Other(n)][s] = Append(@, m)]
  ELSE w

\* WebSocket::close
Closing(state) == CASE state = "open" -> "closing"
                    [] state = "connecting" -> "aborting"
                    [] OTHER -> state

\* removeSocket: whatever socket the index has now is closed and forgotten.
Removed(w, n, i) ==
  LET s == w.sockets[n][i] IN
  IF s = NoSocket THEN w
  ELSE [w EXCEPT !.sockets[n][i] = NoSocket, !.ready[n][s] = Closing(@)]

\* Peer::mark_as_disconnected
Marked(w, n, i) == [w EXCEPT !.peers[n][i].status = "disconnected",
                             !.peers[n][i].challenge = 0]

\* index_to_peers has the index, and a peer that is connected.
IsKnown(w, n, i) == i \in Index(n) /\ w.peers[n][i] # NoPeer
IsConnected(w, n, i) == i \in Index(n) /\ w.peers[n][i].status = "connected"

\* A bug: the socket goes and the peer stays.
DisconnectedUnmarked(w, n, i) == Removed(w, n, i)

\* handle_peer_disconnect
Disconnected(w, n, i) ==
  LET closed == Removed(w, n, i) IN IF IsKnown(w, n, i) THEN Marked(closed, n, i) ELSE closed

\* handle_new_peer: the side that was called starts the handshake.
Greeted(w, n, i) ==
  LET known == [w EXCEPT !.peers[n][i] =
                  [(IF @ = NoPeer THEN NewPeer ELSE @) EXCEPT !.status = "connecting"]]
  IN IF n = "client" THEN known
     ELSE Sent([known EXCEPT !.peers[n][i].challenge = i], n, i, [type |-> "challenge", challenge |-> i])

\* A bug: the response signs what this node asked last.
ChallengedWithOwn(w, n, i, c) ==
  IF ~IsKnown(w, n, i) THEN w
  ELSE Sent([w EXCEPT !.peers[n][i].challenge = c], n, i,
            [type |-> "response", signs |-> w.peers[n][i].challenge, challenge |-> c])

\* handle_handshake_challenge: the response has a challenge in its turn, which is named
\* here as the one it responds to.
Challenged(w, n, i, c) ==
  IF ~IsKnown(w, n, i) THEN w
  ELSE Sent([w EXCEPT !.peers[n][i].challenge = c], n, i,
            [type |-> "response", signs |-> c, challenge |-> c])

\* A bug: the earlier peer leaves the address book only.
WithoutOldAddress(w, n, i) ==
  IF \E j \in Index(n) \ {i} : w.peers[n][j].key THEN [w EXCEPT !.address[n] = NoIndex] ELSE w

\* remove_reconnected_peer: another peer that had the key of this one.
WithoutOld(w, n, i) ==
  LET old == {j \in Index(n) \ {i} : w.peers[n][j].key} IN
  IF old = {} THEN w
  ELSE [w EXCEPT !.peers[n][CHOOSE j \in old : TRUE] = NoPeer, !.address[n] = NoIndex]

\* Network::handle_handshake_response with that of the peer: the second response is sent
\* by the side that was called.
Responded(w, n, i, m) ==
  LET peer == w.peers[n][i]
      isTaken == \E j \in Index(n) : w.peers[n][j].key /\ IsConnected(w, n, j)
      verified == [w EXCEPT !.peers[n][i] = [status |-> "connected", key |-> TRUE, challenge |-> 0]]
      answered == IF n = "client" THEN verified
                  ELSE Sent(verified, n, i, [type |-> "response", signs |-> m.challenge, challenge |-> 0])
  IN IF isTaken \/ ~IsKnown(w, n, i) THEN w
     ELSE IF peer.challenge = 0 \/ peer.challenge # m.signs THEN Removed(Marked(w, n, i), n, i)
     ELSE [WithoutOld(answered, n, i) EXCEPT !.address[n] = i]

\* Vec::retain: those that wait for the place of peer i.  (A function of their number, as
\* the provers know nothing of SelectSeq.)
Retained(seq, i) ==
  LET kept == {k \in 1..Len(seq) : seq[k].index = i}
  IN [k \in 1..Cardinality(kept) |-> seq[CHOOSE j \in kept : Cardinality(kept \cap (1..j)) = k]]

\* process_incoming_message.  A message from a peer with a key takes every other peer that
\* waits to take its place off the list; a response for a key that is connected joins it,
\* and the peer that is connected is pinged unless it was lately.
Received(w, n, i, m, pinged) ==
  LET timed == IF w.peers[n][i].key
               THEN [w EXCEPT !.pending[n] = Retained(@, i)]
               ELSE w
  IN CASE m.type = "challenge" -> Challenged(timed, n, i, m.challenge)
       [] m.type = "response" ->
            IF IsConnected(timed, n, timed.address[n])
            THEN LET waiting == [timed EXCEPT !.pending[n] = Append(@, [index |-> i, response |-> m])]
                 IN IF pinged THEN Sent(waiting, n, timed.address[n], [type |-> "ping"]) ELSE waiting
            ELSE Responded(timed, n, i, m)
       [] m.type = "ping" -> Sent(timed, n, i, [type |-> "pong"])
       [] OTHER -> timed

-----------------------------------------------------------------------------
(* The core handles the first of the events, or its timer.                 *)

Wake(n, i) == [type |-> "new", index |-> i]
Gone(n, i) == [type |-> "gone", index |-> i]

HandleEvent(n) ==
  /\ events[n] # <<>>
  /\ LET e == Head(events[n]) IN
       \/ e.type = "new"  /\ Becomes(Greeted(World, n, e.index))
       \/ e.type = "gone" /\ Becomes(Disconnected(World, n, e.index))
       \/ /\ e.type = "message"
          /\ \E pinged \in BOOLEAN : Becomes(Received(World, n, e.index, e.message, pinged))
  /\ events' = [events EXCEPT ![n] = Tail(@)]
  /\ UNCHANGED <<handled, envVars>>

\* connect_to_static_peers: the new socket takes the place of whatever socket there is.
Dial ==
  /\ peers["client"][0].status = "disconnected"
  /\ \E s \in Socket :
       /\ ready["client"][s] = "none" /\ \A t \in 1..s - 1 : ready["client"][t] # "none"
       /\ ready' = [ready EXCEPT !["client"][s] = "connecting"]
       /\ sockets' = [sockets EXCEPT !["client"][0] = s]
  /\ UNCHANGED <<handled, wire, events, coreVars, envVars>>

\* A peer that waits for the place of another has waited long enough: the other, from
\* which nothing has come, gives way.
TakePlace(n) ==
  /\ pending[n] # <<>>
  /\ LET p == Head(pending[n])
         popped == [World EXCEPT !.pending[n] = Tail(@)]
         old == address[n]
         freed == IF IsKnown(World, n, old) THEN Removed(Marked(popped, n, old), n, old) ELSE popped
     IN Becomes(Responded(freed, n, p.index, p.response))
  /\ UNCHANGED <<handled, events, envVars>>

\* disconnect_stale_peers: the socket is left as it is.
DisconnectStale(n, i) ==
  /\ stale < MaxStale /\ stale' = stale + 1
  /\ IsConnected(World, n, i)
  /\ Becomes(Marked(World, n, i))
  /\ UNCHANGED <<handled, events, failures, pings>>

\* remove_disconnected_peers: a peer that is not static, some time after it was lost.
RemoveDisconnected(i) ==
  /\ peers["server"][i].status = "disconnected"
  /\ peers' = [peers EXCEPT !["server"][i] = NoPeer]
  /\ address' = IF peers["server"][i].key THEN [address EXCEPT !["server"] = NoIndex] ELSE address
  /\ UNCHANGED <<netVars, jsVars, pending, envVars>>

\* send_pings
SendPing(n, i) ==
  /\ pings < MaxPings /\ pings' = pings + 1
  /\ peers[n][i].key
  /\ Becomes(Sent(World, n, i, [type |-> "ping"]))
  /\ UNCHANGED <<handled, events, failures, stale>>

-----------------------------------------------------------------------------
(* The sockets *)

Queue(n, e) == events' = [events EXCEPT ![n] = @ \o e]

\* The server has a socket, but gives it handlers only when it has an index for it.
Accept(s) ==
  /\ ready["client"][s] \in {"connecting", "aborting"} /\ ready["server"][s] = "none"
  /\ ready' = [ready EXCEPT !["server"][s] = "open"]
  /\ UNCHANGED <<handled, wire, jsVars, coreVars, envVars>>

AssignIndex(s) ==
  /\ ready["server"][s] # "none" /\ s \notin handled
  /\ handled' = handled \cup {s}
  /\ sockets' = [sockets EXCEPT !["server"][s] = s]
  /\ Queue("server", <<Wake("server", s)>>)
  /\ UNCHANGED <<ready, wire, coreVars, envVars>>

Opened(s) ==
  /\ ready["client"][s] = "connecting" /\ ready["server"][s] # "none"
  /\ ready' = [ready EXCEPT !["client"][s] = "open"]
  /\ Queue("client", <<Wake("client", 0)>>)
  /\ UNCHANGED <<handled, wire, sockets, coreVars, envVars>>

HasHandlers(n, s) == n = "client" \/ s \in handled

\* A browser does not deliver to a socket that is closing, ws does.
Deliver(n, s) ==
  /\ wire[n][s] # <<>>
  /\ \/ ready[n][s] = "open"
     \/ n = "server" /\ ready[n][s] = "closing"
  /\ wire' = [wire EXCEPT ![n][s] = Tail(@)]
  /\ Queue(n, IF HasHandlers(n, s)
              THEN <<[type |-> "message", index |-> IndexOf(n, s), message |-> Head(wire[n][s])]>>
              ELSE <<>>)
  /\ UNCHANGED <<ready, handled, sockets, coreVars, envVars>>

\* onclose, after what the other end had sent.
Close(n, s) ==
  /\ \/ ready[n][s] = "closing"
     \/ ready[n][s] = "open" /\ ready[Other(n)][s] \in {"closing", "closed"} /\ wire[n][s] = <<>>
  /\ ready' = [ready EXCEPT ![n][s] = "closed"]
  /\ wire' = [wire EXCEPT ![n][s] = <<>>]
  /\ Queue(n, IF HasHandlers(n, s) THEN <<Gone(n, IndexOf(n, s))>> ELSE <<>>)
  /\ UNCHANGED <<handled, sockets, coreVars, envVars>>

\* A bug: an error does not reach the core.
ErrorInSilence(n, s) ==
  LET failed == [World EXCEPT !.ready[n][s] = "closed", !.wire[n][s] = <<>>]
  IN /\ Becomes(IF n = "client" THEN Removed(failed, n, 0) ELSE failed)
     /\ UNCHANGED <<handled, events>>

\* onerror and onclose: on an error the browser closes the socket its index has by then,
\* the node tells the core of the disconnection twice.
Error(n, s) ==
  LET failed == [World EXCEPT !.ready[n][s] = "closed", !.wire[n][s] = <<>>]
      i == IndexOf(n, s)
  IN /\ Becomes(IF n = "client" THEN Removed(failed, n, i) ELSE failed)
     /\ Queue(n, IF n = "client" THEN <<Gone(n, i)>>
                 ELSE IF HasHandlers(n, s) THEN <<Gone(n, i), Gone(n, i)>> ELSE <<>>)
     /\ UNCHANGED handled

\* A socket that was closed before it was open fails.
Abort(s) ==
  /\ ready["client"][s] = "aborting"
  /\ Error("client", s)
  /\ UNCHANGED envVars

\* The network breaks a connection, or does not make it; one end need not notice.
Break(n, s) ==
  /\ failures < MaxFailures /\ failures' = failures + 1
  /\ ready[n][s] \in {"connecting", "open", "closing"}
  /\ Error(n, s)
  /\ UNCHANGED <<stale, pings>>

-----------------------------------------------------------------------------
Next ==
  \/ Dial
  \/ \E n \in Node : HandleEvent(n) \/ TakePlace(n)
  \/ \E n \in Node : \E i \in Index(n) : DisconnectStale(n, i) \/ SendPing(n, i)
  \/ \E s \in Socket : Accept(s) \/ AssignIndex(s) \/ Opened(s) \/ Abort(s) \/ RemoveDisconnected(s)
  \/ \E n \in Node, s \in Socket : Deliver(n, s) \/ Close(n, s) \/ Break(n, s)

Fairness ==
  /\ WF_vars(Dial)
  /\ \A n \in Node : WF_vars(HandleEvent(n)) /\ WF_vars(TakePlace(n))
  /\ \A s \in Socket : /\ WF_vars(Accept(s)) /\ WF_vars(AssignIndex(s)) /\ WF_vars(Opened(s))
                       /\ WF_vars(Abort(s))
                       /\ \A n \in Node : WF_vars(Deliver(n, s)) /\ WF_vars(Close(n, s))

Spec == Init /\ [][Next]_vars /\ Fairness

-----------------------------------------------------------------------------
Message == [type: {"challenge"}, challenge: Socket]
             \cup [type: {"response"}, signs: Socket, challenge: {0} \cup Socket]
             \cup [type: {"ping", "pong"}]
PeerRecord == [status: {"none", "disconnected", "connecting", "connected"}, key: BOOLEAN,
               challenge: {0} \cup Socket]
Event(n) == [type: {"new", "gone"}, index: Index(n)]
              \cup [type: {"message"}, index: Index(n), message: Message]

\* Every variable holds a value of its kind.
TypeOK ==
  /\ handled \subseteq Socket
  /\ \A n \in Node :
       /\ ready[n] \in [Socket -> {"none", "connecting", "aborting", "open", "closing", "closed"}]
       /\ wire[n] \in [Socket -> Seq(Message)]
       /\ sockets[n] \in [Index(n) -> {NoSocket} \cup Socket]
       /\ events[n] \in Seq(Event(n))
       /\ peers[n] \in [Index(n) -> PeerRecord]
       /\ address[n] \in {NoIndex} \cup Index(n)
       /\ pending[n] \in Seq([index: Index(n), response: Message])
  /\ failures \in 0..MaxFailures /\ stale \in 0..MaxStale /\ pings \in 0..MaxPings

\* One peer of a node, at most, has the key of the other node, and the address book has
\* that one: which assertions of join_as_reconnection rest on.
AddressIsOfThePeer ==
  \A n \in Node, i \in Index("client") \cup Socket :
    i \in Index(n) /\ peers[n][i].key => address[n] = i

IsGoing(n, i) ==
  \/ \E k \in 1..Len(events[n]) : events[n][k] = Gone(n, i)
  \/ \E s \in Socket : IndexOf(n, s) = i /\ ready[n][s] \in {"closing", "aborting"}

\* A peer that counts as connected has an open socket to send on, unless the news of its
\* loss is on the way.
ConnectedHasSocket ==
  \A n \in Node : \A i \in Index(n) :
    IsConnected(World, n, i) =>
      IsGoing(n, i) \/ (sockets[n][i] # NoSocket /\ ready[n][sockets[n][i]] = "open")

\* One peer is one socket.
OneSocketPerPeer ==
  Cardinality({s \in Socket : ready["client"][s] \in {"connecting", "open"}}) <= 1

\* The client does not stay without a connection: it is connected in the end, or has used up
\* the sockets that the bound gives it.  It may stay in its handshake for ever if it had two
\* sockets at a time, or if a ping of its last connection came late enough to take the new
\* one off the list of those that wait, so neither may happen.
ClientConnects ==
  [](OneSocketPerPeer /\ pings = 0) =>
    <>[](\/ peers["client"][0].status = "connected"
         \/ /\ peers["client"][0].status = "disconnected"
            /\ \A s \in Socket : ready["client"][s] # "none")

=============================================================================
