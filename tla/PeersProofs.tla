------------------------------ MODULE PeersProofs ------------------------------
(***************************************************************************)
(* For any number of sockets, failures and pings, in whatever order the    *)
(* events come: that of a node's peers one at most has the key of the      *)
(* other node, and that the address book has that one; that everything     *)
(* holds a value of its kind; and that a peer which counts as connected    *)
(* has an open socket, or will hear of its loss.                           *)
(*                                                                         *)
(* The first depends on the peers and the address book alone.  What leaves *)
(* keys and addresses as they are keeps it (KeepsBook); three operators    *)
(* change them: remove_reconnected_peer, the handshake and the expiry of a *)
(* peer.                                                                   *)
(*                                                                         *)
(* The last needs to know where every handshake is (Inv).  The challenge   *)
(* of a socket is at one place at a time (OnceOf): the news of the socket  *)
(* at the server, the wire, the client's events; and no response of it is  *)
(* anywhere before the client has answered.  From that it follows that the *)
(* client is connected by an answer only on the socket that it answered    *)
(* for (ClientSound), and the server only while that socket is open or its *)
(* loss on the way (ServerSound).  Each operator on worlds keeps Inv, given *)
(* what its caller knows of the handshake in hand.                         *)
(***************************************************************************)
EXTENDS Peers, WellFoundedInduction, FiniteSetTheorems, TLAPS

\* A world is a record of six fields.
Field == {"ready", "wire", "sockets", "peers", "address", "pending"}
IsWorld(w) == w = [f \in Field |-> w[f]]

\* A peer is a record of three fields.
PeerField == {"status", "key", "challenge"}
IsPeer(p) == p = [f \in PeerField |-> p[f]] /\ p.key \in BOOLEAN

IsBook(w) ==
  /\ w.peers = [n \in Node |-> [i \in Index(n) |-> w.peers[n][i]]]
  /\ w.address = [n \in Node |-> w.address[n]]
  /\ \A n \in Node : \A i \in Index(n) : IsPeer(w.peers[n][i])

\* The book has every peer with a key, except it may be that of node n not yet the peer i.
HasPeersBut(w, n, i) ==
  \A m \in Node : \A j \in Index(m) :
    w.peers[m][j].key /\ ~(m = n /\ j = i) => w.address[m] = j

HasPeers(w) == \A m \in Node : \A j \in Index(m) : w.peers[m][j].key => w.address[m] = j

SoundWorld(w) == IsWorld(w) /\ IsBook(w) /\ HasPeers(w)

\* What leaves keys and addresses as they are.
KeepsBook(w, v) ==
  /\ IsWorld(v) /\ IsBook(v) /\ v.address = w.address
  /\ \A m \in Node : \A j \in Index(m) : v.peers[m][j].key = w.peers[m][j].key

BookInv == SoundWorld(World)

-----------------------------------------------------------------------------
(* Operators that keep the book *)

LEMMA KeepsIsSound ==
  ASSUME NEW w, NEW v, SoundWorld(w), KeepsBook(w, v) PROVE SoundWorld(v)
BY DEF SoundWorld, KeepsBook, HasPeers

LEMMA KeepsIsTransitive ==
  ASSUME NEW w, NEW v, NEW u, KeepsBook(w, v), KeepsBook(v, u) PROVE KeepsBook(w, u)
BY DEF KeepsBook

LEMMA KeepsItself ==
  ASSUME NEW w, IsWorld(w), IsBook(w) PROVE KeepsBook(w, w)
BY DEF KeepsBook

\* Sockets, messages and the list of those that wait are not in the book.
LEMMA SameBook ==
  ASSUME NEW w, NEW v, IsBook(w), IsWorld(v), v.peers = w.peers, v.address = w.address
  PROVE  KeepsBook(w, v)
BY DEF KeepsBook, IsBook

LEMMA SentKeeps ==
  ASSUME NEW w, IsWorld(w), IsBook(w), NEW n, NEW i, NEW m
  PROVE  KeepsBook(w, Sent(w, n, i, m))
<1> DEFINE s == w.sockets[n][i]
           v == [w EXCEPT !.wire[Other(n)][s] = Append(@, m)]
<1>1. IsWorld(v) /\ v.peers = w.peers /\ v.address = w.address BY DEF IsWorld, Field
<1>2. KeepsBook(w, v)
  <2> HIDE DEF v
  <2> QED BY <1>1, SameBook
<1>3. KeepsBook(w, w) BY KeepsItself
<1>4. Sent(w, n, i, m) = v \/ Sent(w, n, i, m) = w BY DEF Sent
<1>5. QED BY <1>2, <1>3, <1>4

LEMMA RemovedKeeps ==
  ASSUME NEW w, IsWorld(w), IsBook(w), NEW n, NEW i
  PROVE  KeepsBook(w, Removed(w, n, i))
<1> DEFINE s == w.sockets[n][i]
           v == [w EXCEPT !.sockets[n][i] = NoSocket, !.ready[n][s] = Closing(@)]
<1>1. IsWorld(v) /\ v.peers = w.peers /\ v.address = w.address BY DEF IsWorld, Field
<1>2. KeepsBook(w, v)
  <2> HIDE DEF v
  <2> QED BY <1>1, SameBook
<1>3. KeepsBook(w, w) BY KeepsItself
<1>4. Removed(w, n, i) = v \/ Removed(w, n, i) = w BY DEF Removed
<1>5. QED BY <1>2, <1>3, <1>4

\* One peer is replaced by another.
Replaced(w, n, i, p) == [w EXCEPT !.peers[n][i] = p]

LEMMA ReplacedPeer ==
  ASSUME NEW w, IsWorld(w), IsBook(w), NEW n \in Node, NEW i \in Index(n), NEW p, IsPeer(p),
         NEW v, v = Replaced(w, n, i, p)
  PROVE  /\ IsWorld(v) /\ IsBook(v) /\ v.address = w.address
         /\ v.peers[n][i] = p
         /\ \A m \in Node : \A j \in Index(m) :
              ~(m = n /\ j = i) => v.peers[m][j] = w.peers[m][j]
<1>1. IsWorld(v) /\ v.address = w.address BY DEF Replaced, IsWorld, Field
<1>2. v.peers = [w.peers EXCEPT ![n] = [@ EXCEPT ![i] = p]] BY DEF Replaced, IsWorld, Field
<1>3. w.peers = [m \in Node |-> [j \in Index(m) |-> w.peers[m][j]]] BY DEF IsBook
<1>4. v.peers = [m \in Node |-> [j \in Index(m) |-> IF m = n /\ j = i THEN p ELSE w.peers[m][j]]]
  BY <1>2, <1>3
<1>5. \A m \in Node : \A j \in Index(m) :
        v.peers[m][j] = IF m = n /\ j = i THEN p ELSE w.peers[m][j]
  BY <1>4
<1>6. v.peers = [m \in Node |-> [j \in Index(m) |-> v.peers[m][j]]] BY <1>4
<1>7. IsBook(v) BY <1>1, <1>5, <1>6 DEF IsBook
<1>8. QED BY <1>1, <1>5, <1>7

\* One peer is replaced by another that has a key as it had.
LEMMA ReplacedKeeps ==
  ASSUME NEW w, IsWorld(w), IsBook(w), NEW n \in Node, NEW i \in Index(n), NEW p, IsPeer(p),
         p.key = w.peers[n][i].key
  PROVE  KeepsBook(w, Replaced(w, n, i, p))
BY ReplacedPeer DEF KeepsBook

\* The challenge of a peer that was replaced is replaced.
Asked(w, n, i, c) == [w EXCEPT !.peers[n][i].challenge = c]

LEMMA ReplacedTwice ==
  ASSUME NEW w, IsWorld(w), IsBook(w), NEW n \in Node, NEW i \in Index(n), NEW p, IsPeer(p), NEW c
  PROVE  Asked(Replaced(w, n, i, p), n, i, c) = Replaced(w, n, i, [p EXCEPT !.challenge = c])
<1> DEFINE q == [p EXCEPT !.challenge = c]
           P == [w.peers EXCEPT ![n] = [@ EXCEPT ![i] = p]]
           Q == [w.peers EXCEPT ![n] = [@ EXCEPT ![i] = q]]
           u == Replaced(w, n, i, p)
<1>1. w.peers = [m \in Node |-> [j \in Index(m) |-> w.peers[m][j]]]
  BY DEF IsBook
<1>2. P = [m \in Node |-> [j \in Index(m) |-> IF m = n /\ j = i THEN p ELSE w.peers[m][j]]]
  BY <1>1
<1>3. u = [w EXCEPT !.peers = P]
  BY DEF Replaced
<1>4. Replaced(w, n, i, q) = [w EXCEPT !.peers = Q]
  BY DEF Replaced
<1>5. Q = [m \in Node |-> [j \in Index(m) |-> IF m = n /\ j = i THEN q ELSE w.peers[m][j]]]
  BY <1>1
<1>6. P[n][i] = p
  BY <1>2
<1>7. [P EXCEPT ![n] = [@ EXCEPT ![i] = q]] = Q
  <2> HIDE DEF P, Q, q
  <2> QED BY <1>2, <1>5
<1>8. IsWorld(u) /\ u.peers = P
  BY <1>3 DEF IsWorld, Field
<1> HIDE DEF P, Q, u
<1>9. Asked(u, n, i, c) = [u EXCEPT !.peers = [P EXCEPT ![n] = [@ EXCEPT ![i] = q]]]
  BY <1>6, <1>8 DEF Asked
<1>10. [[w EXCEPT !.peers = P] EXCEPT !.peers = Q] = [w EXCEPT !.peers = Q]
  BY DEF IsWorld, Field
<1>11. QED
  BY <1>3, <1>4, <1>7, <1>9, <1>10 DEF u

\* No peer is replaced at an index that there is not.
LEMMA ReplacedOutside ==
  ASSUME NEW w, IsWorld(w), IsBook(w), NEW n \in Node, NEW i, i \notin Index(n), NEW p
  PROVE  Replaced(w, n, i, p) = w
<1>1. [w.peers[n] EXCEPT ![i] = p] = w.peers[n] BY DEF IsBook
<1>2. [w.peers EXCEPT ![n] = w.peers[n]] = w.peers BY DEF IsBook
<1>3. [w EXCEPT !.peers = w.peers] = w BY DEF IsWorld, Field
<1>4. Replaced(w, n, i, p) = [w EXCEPT !.peers = [w.peers EXCEPT ![n] = [w.peers[n] EXCEPT ![i] = p]]]
  BY DEF Replaced
<1>5. QED BY <1>1, <1>2, <1>3, <1>4

LEMMA MarkedKeeps ==
  ASSUME NEW w, IsWorld(w), IsBook(w), NEW n \in Node, NEW i \in Index(n)
  PROVE  KeepsBook(w, Marked(w, n, i))
<1> DEFINE p == [w.peers[n][i] EXCEPT !.status = "disconnected", !.challenge = 0]
<1>1. IsPeer(w.peers[n][i]) BY DEF IsBook
<1>2. IsPeer(p) /\ p.key = w.peers[n][i].key BY <1>1 DEF IsPeer, PeerField
<1>3. Marked(w, n, i) = Replaced(w, n, i, p) BY <1>1 DEF Marked, Replaced, IsWorld, IsPeer, PeerField, IsBook, Field
<1> HIDE DEF p
<1>4. QED BY <1>2, <1>3, ReplacedKeeps

-----------------------------------------------------------------------------
(* The handlers of the core *)

LEMMA DisconnectedKeeps ==
  ASSUME NEW w, IsWorld(w), IsBook(w), NEW n \in Node, NEW i
  PROVE  KeepsBook(w, Disconnected(w, n, i))
<1> DEFINE closed == Removed(w, n, i)
<1> HIDE DEF closed
<1>1. KeepsBook(w, closed) BY RemovedKeeps DEF closed
<1>2. CASE IsKnown(w, n, i)
  <2>1. i \in Index(n) BY <1>2 DEF IsKnown
  <2>2. KeepsBook(closed, Marked(closed, n, i)) BY <1>1, <2>1, MarkedKeeps DEF KeepsBook
  <2>3. Disconnected(w, n, i) = Marked(closed, n, i) BY <1>2 DEF Disconnected, closed
  <2>4. QED BY <1>1, <2>2, <2>3, KeepsIsTransitive
<1>3. CASE ~IsKnown(w, n, i) BY <1>1, <1>3 DEF Disconnected, closed
<1>4. QED BY <1>2, <1>3

\* A new peer has no key, a static one has the key it had.
LEMMA GreetedKeeps ==
  ASSUME NEW w, IsWorld(w), IsBook(w), NEW n \in Node, NEW i
  PROVE  KeepsBook(w, Greeted(w, n, i))
<1> DEFINE p == [(IF w.peers[n][i] = NoPeer THEN NewPeer ELSE w.peers[n][i])
                   EXCEPT !.status = "connecting"]
           q == [p EXCEPT !.challenge = i]
           known == Replaced(w, n, i, p)
           asked == Replaced(w, n, i, q)
<1>1. CASE i \in Index(n)
  <2>1. IsPeer(w.peers[n][i]) /\ IsPeer(NewPeer) /\ NewPeer.key = NoPeer.key
    BY <1>1 DEF IsBook, IsPeer, PeerField, NewPeer, NoPeer
  <2>2. IsPeer(p) /\ p.key = w.peers[n][i].key BY <2>1 DEF IsPeer, PeerField
  <2>3. IsPeer(q) /\ q.key = w.peers[n][i].key BY <2>2 DEF IsPeer, PeerField
  <2>4. KeepsBook(w, known) BY <1>1, <2>2, ReplacedKeeps
  <2>5. KeepsBook(w, asked) BY <1>1, <2>3, ReplacedKeeps
  <2>6. [known EXCEPT !.peers[n][i].challenge = i] = asked
    <3> HIDE DEF p
    <3>1. Asked(known, n, i, i) = asked
      BY <1>1, <2>2, ReplacedTwice
    <3>2. QED
      BY <3>1 DEF Asked
  <2>7. CASE n = "client" BY <2>4, <2>7 DEF Greeted, Replaced
  <2>8. CASE n # "client"
    <3>1. Greeted(w, n, i) = Sent(asked, n, i, [type |-> "challenge", challenge |-> i])
      BY <2>6, <2>8 DEF Greeted, Replaced
    <3>2. KeepsBook(asked, Sent(asked, n, i, [type |-> "challenge", challenge |-> i]))
      <4> HIDE DEF asked
      <4> QED BY <2>5, SentKeeps DEF KeepsBook
    <3>3. QED BY <2>5, <3>1, <3>2, KeepsIsTransitive
  <2>9. QED BY <2>7, <2>8
<1>2. CASE i \notin Index(n)
  <2>1. known = w /\ Replaced(w, n, i, [w.peers[n][i] EXCEPT !.challenge = i]) = w
    BY <1>2, ReplacedOutside
  <2>2. [w EXCEPT !.peers[n][i].challenge = i]
          = Replaced(w, n, i, [w.peers[n][i] EXCEPT !.challenge = i])
    BY DEF Replaced
  <2>3. KeepsBook(w, w) BY KeepsItself
  <2>4. KeepsBook(w, Sent(w, n, i, [type |-> "challenge", challenge |-> i])) BY SentKeeps
  <2>5. QED BY <2>1, <2>2, <2>3, <2>4 DEF Greeted, Replaced
<1>3. QED BY <1>1, <1>2

LEMMA ChallengedKeeps ==
  ASSUME NEW w, IsWorld(w), IsBook(w), NEW n \in Node, NEW i, NEW c
  PROVE  KeepsBook(w, Challenged(w, n, i, c))
<1> DEFINE p == [w.peers[n][i] EXCEPT !.challenge = c]
           v == Replaced(w, n, i, p)
           response == [type |-> "response", signs |-> c, challenge |-> c]
<1>1. CASE IsKnown(w, n, i)
  <2>1. i \in Index(n) BY <1>1 DEF IsKnown
  <2>2. IsPeer(w.peers[n][i]) BY <2>1 DEF IsBook
  <2>3. IsPeer(p) /\ p.key = w.peers[n][i].key BY <2>2 DEF IsPeer, PeerField
  <2>4. KeepsBook(w, v)
    <3> HIDE DEF p
    <3> QED BY <2>1, <2>3, ReplacedKeeps
  <2>5. [w EXCEPT !.peers[n][i].challenge = c] = v BY DEF Replaced
  <2>6. Challenged(w, n, i, c) = Sent(v, n, i, response) BY <1>1, <2>5 DEF Challenged
  <2>7. KeepsBook(v, Sent(v, n, i, response))
    <3> HIDE DEF v
    <3> QED BY <2>4, SentKeeps DEF KeepsBook
  <2>8. QED
    <3> HIDE DEF v
    <3> QED BY <2>4, <2>6, <2>7, KeepsIsTransitive
<1>2. CASE ~IsKnown(w, n, i)
  <2>1. Challenged(w, n, i, c) = w BY <1>2 DEF Challenged
  <2>2. QED BY <2>1, KeepsItself
<1>3. QED BY <1>1, <1>2

\* The peers of the other nodes, which no operator on n touches.
HasOthers(w, n) ==
  \A m \in Node \ {n} : \A j \in Index(m) : w.peers[m][j].key => w.address[m] = j

\* An entry of the address book is replaced.
Readdressed(w, n, a) == [w EXCEPT !.address[n] = a]

LEMMA ReplacedAddress ==
  ASSUME NEW w, IsWorld(w), IsBook(w), NEW n \in Node, NEW a,
         NEW v, v = Readdressed(w, n, a)
  PROVE  /\ IsWorld(v) /\ IsBook(v) /\ v.peers = w.peers
         /\ v.address[n] = a /\ \A m \in Node \ {n} : v.address[m] = w.address[m]
<1>1. IsWorld(v) /\ v.peers = w.peers /\ v.address = [w.address EXCEPT ![n] = a]
  BY DEF Readdressed, IsWorld, Field
<1>2. v.address[n] = a /\ \A m \in Node \ {n} : v.address[m] = w.address[m]
  BY <1>1 DEF IsBook
<1>3. v.address = [m \in Node |-> v.address[m]] BY <1>1 DEF IsBook
<1>4. IsBook(v) BY <1>1, <1>3 DEF IsBook
<1>5. QED BY <1>1, <1>2, <1>4

\* remove_reconnected_peer leaves no other peer that has the key.
LEMMA WithoutOldLeavesOne ==
  ASSUME NEW w, IsWorld(w), IsBook(w), NEW n \in Node, NEW i \in Index(n), HasPeersBut(w, n, i),
         NEW v, v = WithoutOld(w, n, i)
  PROVE  /\ IsWorld(v) /\ IsBook(v) /\ HasOthers(v, n)
         /\ \A j \in Index(n) \ {i} : ~v.peers[n][j].key
<1> DEFINE old == {j \in Index(n) \ {i} : w.peers[n][j].key}
<1>1. HasOthers(w, n) BY DEF HasPeersBut, HasOthers
<1>2. CASE old = {}
  <2>1. v = w BY <1>2 DEF WithoutOld
  <2>2. QED BY <1>1, <1>2, <2>1
<1>3. CASE old # {}
  <2> DEFINE k == CHOOSE j \in old : TRUE
             u == Replaced(w, n, k, NoPeer)
  <2>1. k \in old BY <1>3
  <2>2. IsPeer(NoPeer) /\ NoPeer.key = FALSE BY DEF IsPeer, PeerField, NoPeer
  <2>3. v = Readdressed(u, n, NoIndex)
    <3>1. v = [w EXCEPT !.peers[n][k] = NoPeer, !.address[n] = NoIndex] BY <1>3 DEF WithoutOld
    <3>2. QED BY <3>1 DEF Replaced, Readdressed
  <2>4. k \in Index(n) /\ w.peers[n][k].key BY <2>1
  <2>5. \A j \in old : j = k BY <2>1 DEF HasPeersBut
  <2> HIDE DEF k, old
  <2>6. /\ IsWorld(u) /\ IsBook(u) /\ u.address = w.address /\ u.peers[n][k] = NoPeer
        /\ \A m \in Node : \A j \in Index(m) : ~(m = n /\ j = k) => u.peers[m][j] = w.peers[m][j]
    BY <2>2, <2>4, ReplacedPeer
  <2> HIDE DEF u
  <2>7. /\ IsWorld(v) /\ IsBook(v) /\ v.peers = u.peers
        /\ \A m \in Node \ {n} : v.address[m] = u.address[m]
    BY <2>3, <2>6, ReplacedAddress
  <2>8. HasOthers(v, n) BY <1>1, <2>6, <2>7 DEF HasOthers
  <2>9. \A j \in Index(n) \ {i} : ~v.peers[n][j].key
    BY <2>2, <2>5, <2>6, <2>7 DEF old, IsBook, IsPeer
  <2>10. QED BY <2>7, <2>8, <2>9
<1>4. QED BY <1>2, <1>3

\* The peer of a handshake gets the key and the address.
LEMMA RespondedIsSound ==
  ASSUME NEW w, SoundWorld(w), NEW n \in Node, NEW i, NEW m
  PROVE  SoundWorld(Responded(w, n, i, m))
<1> DEFINE connected == [status |-> "connected", key |-> TRUE, challenge |-> 0]
           verified == Replaced(w, n, i, connected)
           response == [type |-> "response", signs |-> m.challenge, challenge |-> 0]
           answered == IF n = "client" THEN verified ELSE Sent(verified, n, i, response)
           refused == Removed(Marked(w, n, i), n, i)
           single == WithoutOld(answered, n, i)
           known == Readdressed(single, n, i)
<1>1. \/ Responded(w, n, i, m) = w
      \/ /\ i \in Index(n)
         /\ \/ Responded(w, n, i, m) = refused
            \/ Responded(w, n, i, m) = known
  BY DEF Responded, Replaced, Readdressed, IsKnown
<1>2. IsWorld(w) /\ IsBook(w) /\ HasPeers(w) BY DEF SoundWorld
<1>3. ASSUME i \in Index(n) PROVE SoundWorld(refused)
  <2>1. KeepsBook(w, Marked(w, n, i)) BY <1>2, <1>3, MarkedKeeps
  <2>2. KeepsBook(Marked(w, n, i), refused) BY <2>1, RemovedKeeps DEF KeepsBook
  <2>3. QED BY <2>1, <2>2, KeepsIsTransitive, KeepsIsSound
<1>4. ASSUME i \in Index(n) PROVE SoundWorld(known)
  <2>1. IsPeer(connected) BY DEF IsPeer, PeerField
  <2>2. /\ IsWorld(verified) /\ IsBook(verified) /\ verified.address = w.address
        /\ \A k \in Node : \A j \in Index(k) :
             ~(k = n /\ j = i) => verified.peers[k][j] = w.peers[k][j]
    <3> HIDE DEF connected
    <3> QED BY <1>2, <1>4, <2>1, ReplacedPeer
  <2>3. HasPeersBut(verified, n, i)
    <3> HIDE DEF verified
    <3> QED BY <1>2, <2>2 DEF HasPeers, HasPeersBut
  <2> HIDE DEF verified
  <2>4. KeepsBook(verified, answered) BY <2>2, KeepsItself, SentKeeps
  <2> HIDE DEF answered
  <2>5. IsWorld(answered) /\ IsBook(answered) /\ HasPeersBut(answered, n, i)
    BY <2>3, <2>4 DEF KeepsBook, HasPeersBut
  <2>6. /\ IsWorld(single) /\ IsBook(single) /\ HasOthers(single, n)
        /\ \A j \in Index(n) \ {i} : ~single.peers[n][j].key
    BY <1>4, <2>5, WithoutOldLeavesOne
  <2> HIDE DEF single
  <2>7. /\ IsWorld(known) /\ IsBook(known) /\ known.peers = single.peers
        /\ known.address[n] = i /\ \A k \in Node \ {n} : known.address[k] = single.address[k]
    BY <2>6, ReplacedAddress
  <2> HIDE DEF known
  <2>8. HasPeers(known) BY <2>6, <2>7 DEF HasPeers, HasOthers
  <2>9. QED BY <2>7, <2>8 DEF SoundWorld
<1>5. QED BY <1>1, <1>3, <1>4

LEMMA ReceivedIsSound ==
  ASSUME NEW w, SoundWorld(w), NEW n \in Node, NEW i, NEW m, NEW pinged \in BOOLEAN
  PROVE  SoundWorld(Received(w, n, i, m, pinged))
<1> DEFINE timed == IF w.peers[n][i].key
                    THEN [w EXCEPT !.pending[n] = Retained(@, i)]
                    ELSE w
           waiting == [timed EXCEPT !.pending[n] = Append(@, [index |-> i, response |-> m])]
           ping == Sent(waiting, n, timed.address[n], [type |-> "ping"])
           pong == Sent(timed, n, i, [type |-> "pong"])
<1>1. SoundWorld(timed)
  <2>1. IsWorld(timed) /\ timed.peers = w.peers /\ timed.address = w.address
    BY DEF SoundWorld, IsWorld, Field
  <2> HIDE DEF timed
  <2>2. KeepsBook(w, timed) BY <2>1, SameBook DEF SoundWorld
  <2>3. QED BY <2>2, KeepsIsSound
<1>2. Received(w, n, i, m, pinged) \in
        {timed, waiting, ping, pong, Challenged(timed, n, i, m.challenge), Responded(timed, n, i, m)}
  BY DEF Received
<1> HIDE DEF timed
<1>3. SoundWorld(waiting)
  <2>1. IsWorld(waiting) /\ waiting.peers = timed.peers /\ waiting.address = timed.address
    BY <1>1 DEF SoundWorld, IsWorld, Field
  <2> HIDE DEF waiting
  <2>2. KeepsBook(timed, waiting) BY <1>1, <2>1, SameBook DEF SoundWorld
  <2>3. QED BY <1>1, <2>2, KeepsIsSound
<1> HIDE DEF waiting
<1>4. SoundWorld(ping) BY <1>3, SentKeeps, KeepsIsSound DEF SoundWorld
<1>5. SoundWorld(pong) BY <1>1, SentKeeps, KeepsIsSound DEF SoundWorld
<1>6. SoundWorld(Challenged(timed, n, i, m.challenge))
  BY <1>1, ChallengedKeeps, KeepsIsSound DEF SoundWorld
<1>7. SoundWorld(Responded(timed, n, i, m)) BY <1>1, RespondedIsSound
<1>8. QED BY <1>1, <1>2, <1>3, <1>4, <1>5, <1>6, <1>7

-----------------------------------------------------------------------------
(* The steps *)

LEMMA BecomesSound ==
  ASSUME NEW w, SoundWorld(w), Becomes(w) PROVE BookInv'
<1>1. World' = [ready |-> w.ready, wire |-> w.wire, sockets |-> w.sockets,
                peers |-> w.peers, address |-> w.address, pending |-> w.pending]
  BY DEF World, Becomes
<1>2. IsWorld(World') /\ World'.peers = w.peers /\ World'.address = w.address
  BY <1>1 DEF IsWorld, Field
<1>3. KeepsBook(w, World') BY <1>2, SameBook DEF SoundWorld
<1>4. SoundWorld(World') BY <1>3, KeepsIsSound
<1>5. QED BY <1>4 DEF BookInv, SoundWorld, IsWorld, IsBook, HasPeers, IsPeer

LEMMA BookFrame ==
  ASSUME BookInv, UNCHANGED <<peers, address>> PROVE BookInv'
<1>1. IsWorld(World') BY DEF World, IsWorld, Field
<1>2. World.peers = peers /\ World.address = address BY DEF World
<1>3. World'.peers = peers /\ World'.address = address BY DEF World
<1>4. KeepsBook(World, World') BY <1>1, <1>2, <1>3, SameBook DEF BookInv, SoundWorld
<1>5. SoundWorld(World') BY <1>4, KeepsIsSound DEF BookInv
<1>6. QED BY <1>5 DEF BookInv, SoundWorld, IsWorld, IsBook, HasPeers, IsPeer

LEMMA HandleEventStep ==
  ASSUME BookInv, NEW n \in Node, HandleEvent(n) PROVE BookInv'
<1> DEFINE e == Head(events[n])
<1>1. IsWorld(World) /\ IsBook(World) BY DEF BookInv, SoundWorld
<1>2. CASE Becomes(Greeted(World, n, e.index))
  BY <1>1, <1>2, GreetedKeeps, KeepsIsSound, BecomesSound DEF BookInv
<1>3. CASE Becomes(Disconnected(World, n, e.index))
  BY <1>1, <1>3, DisconnectedKeeps, KeepsIsSound, BecomesSound DEF BookInv
<1>4. ASSUME NEW pinged \in BOOLEAN, Becomes(Received(World, n, e.index, e.message, pinged))
      PROVE  BookInv'
  BY <1>4, ReceivedIsSound, BecomesSound DEF BookInv
<1>5. QED BY <1>2, <1>3, <1>4 DEF HandleEvent

LEMMA TakePlaceStep ==
  ASSUME BookInv, NEW n \in Node, TakePlace(n) PROVE BookInv'
<1> DEFINE p == Head(pending[n])
           popped == [World EXCEPT !.pending[n] = Tail(@)]
           old == address[n]
           freed == IF IsKnown(World, n, old) THEN Removed(Marked(popped, n, old), n, old)
                    ELSE popped
<1>1. SoundWorld(popped)
  <2>1. IsWorld(popped) /\ popped.peers = World.peers /\ popped.address = World.address
    BY DEF BookInv, SoundWorld, IsWorld, Field
  <2> HIDE DEF popped
  <2>2. KeepsBook(World, popped) BY <2>1, SameBook DEF BookInv, SoundWorld
  <2>3. QED BY <2>2, KeepsIsSound DEF BookInv
<1>2. Becomes(Responded(freed, n, p.index, p.response)) BY DEF TakePlace
<1> HIDE DEF popped, old, p
<1>3. SoundWorld(freed)
  <2>1. CASE IsKnown(World, n, old)
    <3>1. old \in Index(n) BY <2>1 DEF IsKnown
    <3>2. KeepsBook(popped, Marked(popped, n, old)) BY <1>1, <3>1, MarkedKeeps DEF SoundWorld
    <3>3. KeepsBook(Marked(popped, n, old), Removed(Marked(popped, n, old), n, old))
      BY <3>2, RemovedKeeps DEF KeepsBook
    <3>4. QED BY <1>1, <2>1, <3>2, <3>3, KeepsIsTransitive, KeepsIsSound
  <2>2. QED BY <1>1, <2>1
<1> HIDE DEF freed
<1>4. QED BY <1>2, <1>3, RespondedIsSound, BecomesSound

LEMMA DisconnectStaleStep ==
  ASSUME BookInv, NEW n \in Node, NEW i \in Index(n), DisconnectStale(n, i) PROVE BookInv'
BY MarkedKeeps, KeepsIsSound, BecomesSound DEF DisconnectStale, BookInv, SoundWorld

LEMMA SendPingStep ==
  ASSUME BookInv, NEW n \in Node, NEW i \in Index(n), SendPing(n, i) PROVE BookInv'
<1>1. Becomes(Sent(World, n, i, [type |-> "ping"])) BY DEF SendPing
<1>2. SoundWorld(Sent(World, n, i, [type |-> "ping"]))
  BY SentKeeps, KeepsIsSound DEF BookInv, SoundWorld
<1>3. QED BY <1>1, <1>2, BecomesSound

\* The peer that is removed takes its address with it.
LEMMA RemoveDisconnectedStep ==
  ASSUME BookInv, NEW i \in Socket, RemoveDisconnected(i) PROVE BookInv'
<1> DEFINE u == Replaced(World, "server", i, NoPeer)
           v == IF peers["server"][i].key THEN Readdressed(u, "server", NoIndex) ELSE u
<1>1. IsWorld(World) /\ IsBook(World) /\ HasPeers(World) BY DEF BookInv, SoundWorld
<1>2. "server" \in Node /\ i \in Index("server") BY DEF Node, Index
<1>3. IsPeer(NoPeer) /\ NoPeer.key = FALSE BY DEF IsPeer, PeerField, NoPeer
<1>4. /\ IsWorld(u) /\ IsBook(u) /\ u.address = World.address /\ u.peers["server"][i] = NoPeer
      /\ \A m \in Node : \A j \in Index(m) :
           ~(m = "server" /\ j = i) => u.peers[m][j] = World.peers[m][j]
  BY <1>1, <1>2, <1>3, ReplacedPeer
<1>5. peers' = u.peers BY DEF RemoveDisconnected, Replaced, World
<1>6. World.peers = peers /\ World.address = address BY DEF World
<1>7. v.address = address'
  <2>1. u.address = address BY <1>4, <1>6
  <2>2. u.address = [m \in Node |-> u.address[m]] BY <1>4 DEF IsBook
  <2>3. CASE peers["server"][i].key
    <3>1. address' = [address EXCEPT !["server"] = NoIndex] BY <2>3 DEF RemoveDisconnected
    <3>2. v.address = [u.address EXCEPT !["server"] = NoIndex]
      BY <1>4, <2>3 DEF Readdressed, IsWorld, Field
    <3>3. QED BY <2>1, <3>1, <3>2
  <2>4. CASE ~peers["server"][i].key BY <2>1, <2>4 DEF RemoveDisconnected
  <2>5. QED BY <2>3, <2>4
<1> HIDE DEF u
<1>8. /\ IsWorld(v) /\ IsBook(v) /\ v.peers = u.peers
      /\ \A m \in Node \ {"server"} : v.address[m] = u.address[m]
      /\ ~peers["server"][i].key => v.address["server"] = u.address["server"]
  BY <1>2, <1>4, ReplacedAddress
<1> HIDE DEF v
<1>9. HasPeers(v)
  <2>1. ASSUME NEW m \in Node, NEW j \in Index(m), v.peers[m][j].key PROVE v.address[m] = j
    <3>1. ~(m = "server" /\ j = i) BY <1>3, <1>4, <1>8, <2>1
    <3>2. peers[m][j].key BY <1>4, <1>6, <1>8, <2>1, <3>1
    <3>3. address[m] = j BY <1>1, <1>6, <3>2 DEF HasPeers
    <3>4. m = "server" => ~peers["server"][i].key BY <1>1, <1>2, <1>6, <3>1, <3>3 DEF HasPeers
    <3>5. QED BY <1>4, <1>6, <1>8, <3>3, <3>4
  <2>2. QED BY <2>1 DEF HasPeers
<1>10. SoundWorld(v) BY <1>8, <1>9 DEF SoundWorld
<1>11. IsWorld(World') /\ World'.peers = v.peers /\ World'.address = v.address
  BY <1>5, <1>7, <1>8 DEF World, IsWorld, Field
<1>12. SoundWorld(World') BY <1>10, <1>11, SameBook, KeepsIsSound DEF SoundWorld
<1>13. QED BY <1>12 DEF BookInv, SoundWorld, IsWorld, IsBook, HasPeers, IsPeer

LEMMA ErrorStep ==
  ASSUME BookInv, NEW n \in Node, NEW s \in Socket, Error(n, s) PROVE BookInv'
<1> DEFINE failed == [World EXCEPT !.ready[n][s] = "closed", !.wire[n][s] = <<>>]
<1>1. SoundWorld(failed)
  <2>1. IsWorld(failed) /\ failed.peers = World.peers /\ failed.address = World.address
    BY DEF BookInv, SoundWorld, IsWorld, Field
  <2> HIDE DEF failed
  <2>2. KeepsBook(World, failed) BY <2>1, SameBook DEF BookInv, SoundWorld
  <2>3. QED BY <2>2, KeepsIsSound DEF BookInv
<1>2. Becomes(failed) \/ Becomes(Removed(failed, n, IndexOf(n, s))) BY DEF Error
<1> HIDE DEF failed
<1>3. SoundWorld(Removed(failed, n, IndexOf(n, s)))
  BY <1>1, RemovedKeeps, KeepsIsSound DEF SoundWorld
<1>4. QED BY <1>1, <1>2, <1>3, BecomesSound

LEMMA BookInit == Init => BookInv
<1> SUFFICES ASSUME Init PROVE BookInv
  OBVIOUS
<1>1. World = [ready |-> ready, wire |-> wire, sockets |-> sockets,
               peers |-> peers, address |-> address, pending |-> pending]
  BY DEF World
<1>2. IsWorld(World) /\ World.peers = peers /\ World.address = address
  BY <1>1 DEF IsWorld, Field
<1>3. \A n \in Node : \A i \in Index(n) : peers[n][i] = NewPeer \/ peers[n][i] = NoPeer
  BY DEF Init
<1>4. \A n \in Node : \A i \in Index(n) : IsPeer(peers[n][i]) /\ ~peers[n][i].key
  <2>1. IsPeer(NewPeer) /\ ~NewPeer.key BY DEF IsPeer, PeerField, NewPeer
  <2>2. IsPeer(NoPeer) /\ ~NoPeer.key BY DEF IsPeer, PeerField, NoPeer
  <2>3. QED BY <1>3, <2>1, <2>2
<1>5. /\ peers = [n \in Node |-> [i \in Index(n) |-> peers[n][i]]]
      /\ address = [n \in Node |-> address[n]]
  BY DEF Init
<1>6. QED BY <1>2, <1>4, <1>5 DEF BookInv, SoundWorld, IsBook, HasPeers

LEMMA BookNext == BookInv /\ [Next]_vars => BookInv'
<1> SUFFICES ASSUME BookInv, [Next]_vars PROVE BookInv'
  OBVIOUS
<1>1. CASE Dial BY <1>1, BookFrame DEF Dial, coreVars
<1>2. ASSUME NEW n \in Node, HandleEvent(n) \/ TakePlace(n) PROVE BookInv'
  BY <1>2, HandleEventStep, TakePlaceStep
<1>3. ASSUME NEW n \in Node, NEW i \in Index(n), DisconnectStale(n, i) \/ SendPing(n, i)
      PROVE  BookInv'
  BY <1>3, DisconnectStaleStep, SendPingStep
<1>4. ASSUME NEW s \in Socket, Accept(s) \/ AssignIndex(s) \/ Opened(s) PROVE BookInv'
  BY <1>4, BookFrame DEF Accept, AssignIndex, Opened, coreVars
<1>5. ASSUME NEW s \in Socket, Abort(s) \/ RemoveDisconnected(s) PROVE BookInv'
  BY <1>5, ErrorStep, RemoveDisconnectedStep DEF Abort, Node
<1>6. ASSUME NEW n \in Node, NEW s \in Socket, Deliver(n, s) \/ Close(n, s) PROVE BookInv'
  BY <1>6, BookFrame DEF Deliver, Close, coreVars
<1>7. ASSUME NEW n \in Node, NEW s \in Socket, Break(n, s) PROVE BookInv'
  BY <1>7, ErrorStep DEF Break
<1>8. CASE UNCHANGED vars BY <1>8, BookFrame DEF vars, coreVars
<1>9. QED BY <1>1, <1>2, <1>3, <1>4, <1>5, <1>6, <1>7, <1>8 DEF Next

-----------------------------------------------------------------------------

\* One peer of a node, at most, has the key of the other node, and the address book has it:
\* through reconnections, expiries and responses that come when another has taken the place.
THEOREM AddressIsOfThePeerAlways == Spec => []AddressIsOfThePeer
<1>1. BookInv => AddressIsOfThePeer
  BY DEF BookInv, SoundWorld, HasPeers, World, AddressIsOfThePeer
<1>2. QED BY <1>1, BookInit, BookNext, PTL DEF Spec

-----------------------------------------------------------------------------
(* Queues: what is in them, at one place only, after something else.       *)

In(q, e) == \E k \in 1..Len(q) : q[k] = e
Single(q, e) == \A j, k \in 1..Len(q) : q[j] = e /\ q[k] = e => j = k
Before(q, a, b) == \A k \in 1..Len(q) : q[k] = b => \E j \in 1..k - 1 : q[j] = a

LEMMA InEmpty == \A a, e : ~In(<<>>, e) /\ Single(<<>>, e) /\ Before(<<>>, a, e)
BY DEF In, Single, Before

LEMMA InAppend ==
  ASSUME NEW S, NEW q \in Seq(S), NEW x \in S
  PROVE  /\ Append(q, x) \in Seq(S)
         /\ \A e : In(Append(q, x), e) <=> In(q, e) \/ e = x
         /\ \A e : Single(q, e) /\ ~(In(q, e) /\ e = x) => Single(Append(q, x), e)
         /\ \A a, e : Before(q, a, e) /\ In(q, a) => Before(Append(q, x), a, e)
<1> DEFINE r == Append(q, x)
<1>1. /\ r \in Seq(S) /\ Len(r) = Len(q) + 1 /\ Len(q) \in Nat
      /\ r[Len(q) + 1] = x /\ \A k \in 1..Len(q) : r[k] = q[k]
  OBVIOUS
<1>2. 1..Len(r) = 1..Len(q) \cup {Len(q) + 1}
  BY <1>1
<1> HIDE DEF r
<1>3. \A e : In(r, e) <=> In(q, e) \/ e = x
  BY <1>1, <1>2 DEF In
<1>4. ASSUME NEW e, Single(q, e), ~(In(q, e) /\ e = x)
      PROVE  Single(r, e)
  <2>1. CASE e = x
    <3>1. \A k \in 1..Len(q) : r[k] # e
      BY <1>1, <1>4, <2>1 DEF In
    <3>2. QED
      BY <1>2, <3>1 DEF Single
  <2>2. CASE e # x
    <3>1. \A k \in 1..Len(r) : r[k] = e => k \in 1..Len(q) /\ q[k] = e
      BY <1>1, <1>2, <2>2
    <3>2. QED
      BY <1>4, <3>1 DEF Single
  <2>3. QED
    BY <2>1, <2>2
<1>5. ASSUME NEW a, NEW e, Before(q, a, e), In(q, a), NEW k \in 1..Len(r), r[k] = e
      PROVE  \E j \in 1..k - 1 : r[j] = a
  <2>1. CASE k \in 1..Len(q)
    <3>1. PICK j \in 1..k - 1 : q[j] = a
      BY <1>1, <1>5, <2>1 DEF Before
    <3>2. j \in 1..Len(q)
      BY <1>1, <2>1
    <3>3. QED
      BY <1>1, <3>1, <3>2
  <2>2. CASE k = Len(q) + 1
    <3>1. PICK j \in 1..Len(q) : q[j] = a
      BY <1>5 DEF In
    <3>2. j \in 1..k - 1
      BY <1>1, <2>2
    <3>3. QED
      BY <1>1, <3>1, <3>2
  <2>3. QED
    BY <1>2, <2>1, <2>2
<1>6. QED
  BY <1>1, <1>3, <1>4, <1>5 DEF r, Before

LEMMA InTail ==
  ASSUME NEW S, NEW q \in Seq(S), q # <<>>
  PROVE  /\ Tail(q) \in Seq(S) /\ Head(q) \in S
         /\ \A e : In(q, e) <=> In(Tail(q), e) \/ e = Head(q)
         /\ \A e : Single(q, e) => Single(Tail(q), e) /\ ~(In(Tail(q), e) /\ e = Head(q))
         /\ \A a, e : Before(q, a, e) => Head(q) # e /\ (Head(q) # a => Before(Tail(q), a, e))
<1> DEFINE r == Tail(q)
<1>1. /\ r \in Seq(S) /\ Len(q) \in Nat \ {0} /\ Len(r) = Len(q) - 1
      /\ Head(q) = q[1] /\ \A k \in 1..Len(r) : r[k] = q[k + 1]
  OBVIOUS
<1>2. q[1] \in S
  BY <1>1
<1>3. \A k \in 1..Len(q) : k = 1 \/ (k - 1 \in 1..Len(r) /\ r[k - 1] = q[k])
  BY <1>1
<1>4. \A k \in 1..Len(r) : k + 1 \in 1..Len(q) /\ r[k] = q[k + 1]
  BY <1>1
<1>5. 1 \in 1..Len(q)
  BY <1>1
<1> HIDE DEF r
<1>6. \A e : In(q, e) <=> In(r, e) \/ e = Head(q)
  BY <1>1, <1>3, <1>4, <1>5 DEF In
<1>7. ASSUME NEW e, Single(q, e)
      PROVE  Single(r, e) /\ ~(In(r, e) /\ e = Head(q))
  <2>1. Single(r, e)
    <3>1. ASSUME NEW j \in 1..Len(r), NEW k \in 1..Len(r), r[j] = e, r[k] = e
          PROVE  j = k
      <4>1. j + 1 = k + 1
        BY <1>4, <1>7, <3>1 DEF Single
      <4>2. j \in Int /\ k \in Int
        BY <1>1
      <4>3. QED
        BY <4>1, <4>2
    <3>2. QED
      BY <3>1 DEF Single
  <2>2. ASSUME NEW k \in 1..Len(r), r[k] = e, e = Head(q)
        PROVE  FALSE
    <3>1. k + 1 = 1
      BY <1>1, <1>4, <1>5, <1>7, <2>2 DEF Single
    <3>2. k \in Nat /\ k >= 1
      BY <1>1
    <3>3. QED
      BY <3>1, <3>2
  <2>3. QED
    BY <2>1, <2>2 DEF In
<1>8. ASSUME NEW a, NEW e, Before(q, a, e)
      PROVE  Head(q) # e /\ (Head(q) # a => Before(r, a, e))
  <2>1. Head(q) # e
    <3>1. 1..1 - 1 = {}
      OBVIOUS
    <3>2. QED
      BY <1>1, <1>5, <1>8, <3>1 DEF Before
  <2>2. ASSUME Head(q) # a, NEW k \in 1..Len(r), r[k] = e
        PROVE  \E j \in 1..k - 1 : r[j] = a
    <3>1. PICK j \in 1..(k + 1) - 1 : q[j] = a
      BY <1>4, <1>8, <2>2 DEF Before
    <3>2. j # 1 /\ k \in 1..Len(r) /\ j \in 1..k
      BY <1>1, <2>2, <3>1
    <3>3. j \in 1..Len(q)
      BY <1>1, <3>2
    <3>4. r[j - 1] = a
      BY <1>3, <3>1, <3>2, <3>3
    <3>5. j - 1 \in 1..k - 1
      BY <1>1, <3>2
    <3>6. QED
      BY <3>4, <3>5
  <2>3. QED
    BY <2>1, <2>2 DEF Before
<1>9. QED
  BY <1>1, <1>2, <1>6, <1>7, <1>8 DEF r

\* A set of numbers that is not empty has a least member.
LEMMA LeastNumber ==
  ASSUME NEW S \in SUBSET Nat, S # {}
  PROVE  \E n \in S : \A m \in S : n <= m
<1>1. PICK n \in S : \A m \in S : ~(<<m, n>> \in OpToRel(<, Nat))
  BY NatLessThanWellFounded, WFMin
<1>2. \A m \in S : ~(m < n)
  BY <1>1 DEF OpToRel
<1>3. QED
  BY <1>2

\* What Vec::retain leaves was in the list.
LEMMA RetainedIsPart ==
  ASSUME NEW S, NEW q \in Seq(S), NEW i
  PROVE  /\ Retained(q, i) \in Seq(S)
         /\ \A e : In(Retained(q, i), e) => In(q, e)
<1> DEFINE kept == {k \in 1..Len(q) : q[k].index = i}
           Upto(j) == kept \cap (1..j)
           r == Retained(q, i)
<1>1. Len(q) \in Nat /\ \A k \in 1..Len(q) : q[k] \in S
  OBVIOUS
<1>2. /\ IsFiniteSet(kept) /\ Cardinality(kept) \in Nat
      /\ \A j : IsFiniteSet(Upto(j)) /\ Cardinality(Upto(j)) \in Nat
  <2>1. IsFiniteSet(1..Len(q))
    BY <1>1, FS_Interval
  <2>2. IsFiniteSet(kept)
    BY <2>1, FS_Subset
  <2>3. \A j : IsFiniteSet(Upto(j))
    BY <2>2, FS_Subset
  <2>4. QED
    BY <2>2, <2>3, FS_CardinalityType
<1>3. ASSUME NEW k \in 1..Cardinality(kept)
      PROVE  \E j \in kept : Cardinality(Upto(j)) = k
  <2> DEFINE High == {j \in Nat : k <= Cardinality(Upto(j))}
  <2>1. k \in Nat /\ 1 <= k
    BY <1>2
  <2>2. Upto(Len(q)) = kept
    BY <1>1
  <2>3. Len(q) \in High
    <3>1. k <= Cardinality(kept)
      BY <1>2
    <3>2. k <= Cardinality(Upto(Len(q)))
      BY <2>2, <3>1
    <3>3. QED
      BY <1>1, <3>2
  <2>4. PICK j \in High : \A m \in High : j <= m
    BY <2>3, LeastNumber
  <2>5. Upto(0) = {}
    OBVIOUS
  <2>6. Cardinality({}) = 0
    BY FS_EmptySet
  <2>7. j # 0
    BY <2>1, <2>4, <2>5, <2>6
  <2>8. j - 1 \in Nat /\ ~(j <= j - 1)
    BY <2>4, <2>7
  <2>9. ~(k <= Cardinality(Upto(j - 1)))
    BY <2>4, <2>8
  <2>10. j \in kept
    <3>1. SUFFICES ASSUME j \notin kept
                   PROVE  FALSE
      OBVIOUS
    <3>2. Upto(j) = Upto(j - 1)
      BY <2>4, <2>8, <3>1
    <3>3. QED
      BY <2>4, <2>9, <3>2
  <2>11. Upto(j) = Upto(j - 1) \cup {j} /\ j \notin Upto(j - 1)
    BY <2>4, <2>8, <2>10
  <2> HIDE DEF Upto
  <2>12. Cardinality(Upto(j)) = Cardinality(Upto(j - 1)) + 1
    BY <1>2, <2>11, FS_AddElement
  <2>13. k <= Cardinality(Upto(j)) /\ Cardinality(Upto(j - 1)) \in Nat
    BY <1>2, <2>4
  <2>14. Cardinality(Upto(j)) = k
    BY <2>1, <2>9, <2>12, <2>13
  <2>15. QED
    BY <2>10, <2>14
<1> DEFINE At(k) == CHOOSE j \in kept : Cardinality(Upto(j)) = k
<1>4. r = [k \in 1..Cardinality(kept) |-> q[At(k)]]
  BY DEF Retained
<1>5. \A k \in 1..Cardinality(kept) : At(k) \in kept
  BY <1>3
<1> HIDE DEF At, Upto, r
<1>6. \A k \in 1..Cardinality(kept) : At(k) \in 1..Len(q)
  BY <1>5
<1> HIDE DEF kept
<1>7. \A k \in 1..Cardinality(kept) : q[At(k)] \in S
  BY <1>1, <1>6
<1>8. r \in Seq(S) /\ Len(r) = Cardinality(kept)
  BY <1>2, <1>4, <1>7
<1>9. \A e : In(r, e) => In(q, e)
  BY <1>4, <1>6, <1>8 DEF In
<1>10. QED
  BY <1>8, <1>9 DEF r

-----------------------------------------------------------------------------
(* What is sent, queued and kept.  All that a handshake of socket s sends  *)
(* has the challenge s: the server asks it, the client answers and the     *)
(* server answers in its turn.                                             *)

Ask(s)      == [type |-> "challenge", challenge |-> s]
ToServer(s) == [type |-> "response", signs |-> s, challenge |-> s]
ToClient(s) == [type |-> "response", signs |-> s, challenge |-> 0]
Ping == [type |-> "ping"]
Pong == [type |-> "pong"]

Told(i, m)  == [type |-> "message", index |-> i, message |-> m]
Waits(i, m) == [index |-> i, response |-> m]

ResponseTo(n) == IF n = "client" THEN {ToClient(s) : s \in Socket} ELSE {ToServer(s) : s \in Socket}
MessageTo(n) == ResponseTo(n) \cup {Ping, Pong}
                  \cup (IF n = "client" THEN {Ask(s) : s \in Socket} ELSE {})
OnWire(n, s) == IF n = "client" THEN {Ask(s), ToClient(s), Ping, Pong} ELSE MessageTo("server")
EventOf(n) == {Wake(n, i) : i \in Index(n)} \cup {Gone(n, i) : i \in Index(n)}
                \cup {Told(i, m) : i \in Index(n), m \in MessageTo(n)}
WaitsFor(n) == {Waits(i, m) : i \in Index(n), m \in ResponseTo(n)}

ReadyState == {"none", "connecting", "aborting", "open", "closing", "closed"}
SocketAt(n, i) == IF n = "client" THEN {NoSocket} \cup Socket ELSE {NoSocket, i}
PeerAt(n, i) == [status: {"none", "disconnected", "connecting", "connected"}, key: BOOLEAN,
                 challenge: {0} \cup (IF n = "client" THEN Socket ELSE {i})]

IsTable(f) == f = [n \in Node |-> [i \in Index(n) |-> f[n][i]]]
IsSocketTable(f) == f = [n \in Node |-> [s \in Socket |-> f[n][s]]]
IsPair(f) == f = [n \in Node |-> f[n]]

\* The world w, the events ev and the sockets h that are handled are of their kinds.
TypedSockets(w) ==
  /\ IsSocketTable(w.ready) /\ \A n \in Node, s \in Socket : w.ready[n][s] \in ReadyState
  /\ IsTable(w.sockets) /\ \A n \in Node : \A i \in Index(n) : w.sockets[n][i] \in SocketAt(n, i)
TypedWire(w) ==
  IsSocketTable(w.wire) /\ \A n \in Node, s \in Socket : w.wire[n][s] \in Seq(OnWire(n, s))
TypedPeers(w) ==
  /\ IsTable(w.peers) /\ \A n \in Node : \A i \in Index(n) : w.peers[n][i] \in PeerAt(n, i)
  /\ IsPair(w.address) /\ \A n \in Node : w.address[n] \in {NoIndex} \cup Index(n)
TypedPending(w) == IsPair(w.pending) /\ \A n \in Node : w.pending[n] \in Seq(WaitsFor(n))
TypedEvents(ev) == IsPair(ev) /\ \A n \in Node : ev[n] \in Seq(EventOf(n))

Typed(w, ev, h) ==
  /\ IsWorld(w) /\ h \subseteq Socket
  /\ TypedSockets(w) /\ TypedWire(w) /\ TypedPeers(w) /\ TypedPending(w) /\ TypedEvents(ev)

LEMMA NodeIs ==
  /\ Node = {"client", "server"} /\ Index("client") = {0} /\ Index("server") = Socket
  /\ \A s \in Socket : s # 0 /\ s \in Int
  /\ \A n \in Node : Other(n) \in Node
  /\ \A n \in Node, s \in Socket : IndexOf(n, s) \in Index(n)
BY PeersAssumption DEF Node, Index, Socket, Other, IndexOf

\* The messages and the events are different from each other.
LEMMA MessagesDiffer ==
  /\ \A s, t : Ask(s) = Ask(t) => s = t
  /\ \A s, t : ToServer(s) = ToServer(t) => s = t
  /\ \A s, t : ToClient(s) = ToClient(t) => s = t
  /\ \A s, t : Ask(s) # ToClient(t) /\ Ask(s) # ToServer(t)
  /\ \A s \in Socket : \A t : ToServer(s) # ToClient(t)
  /\ \A s : Ping # Ask(s) /\ Ping # ToClient(s) /\ Ping # ToServer(s)
  /\ \A s : Pong # Ask(s) /\ Pong # ToClient(s) /\ Pong # ToServer(s)
  /\ Ping # Pong
<1>1. \A s, t : Ask(s).challenge = s /\ ToServer(s).signs = s /\ ToClient(s).signs = s
  BY DEF Ask, ToServer, ToClient
<1>2. \A s : Ask(s).type = "challenge" /\ ToServer(s).type = "response"
             /\ ToClient(s).type = "response" /\ Ping.type = "ping" /\ Pong.type = "pong"
  BY DEF Ask, ToServer, ToClient, Ping, Pong
<1>3. \A s : ToServer(s).challenge = s /\ ToClient(s).challenge = 0
  BY DEF ToServer, ToClient
<1>4. \A s, t : Ask(s) = Ask(t) => s = t
  BY <1>1
<1>5. \A s, t : ToServer(s) = ToServer(t) => s = t
  BY <1>1
<1>6. \A s, t : ToClient(s) = ToClient(t) => s = t
  BY <1>1
<1>7. \A s, t : Ask(s) # ToClient(t) /\ Ask(s) # ToServer(t)
  BY <1>2
<1>8. \A s \in Socket : \A t : ToServer(s) # ToClient(t)
  BY <1>3, NodeIs
<1>9. /\ \A s : Ping # Ask(s) /\ Ping # ToClient(s) /\ Ping # ToServer(s)
      /\ \A s : Pong # Ask(s) /\ Pong # ToClient(s) /\ Pong # ToServer(s)
      /\ Ping # Pong
  BY <1>2
<1>10. QED
  BY <1>4, <1>5, <1>6, <1>7, <1>8, <1>9

LEMMA EventsDiffer ==
  /\ \A i, j, m, k : Told(i, m) = Told(j, k) => i = j /\ m = k
  /\ \A i, j, m, n : Told(i, m) # Wake(n, j) /\ Told(i, m) # Gone(n, j)
  /\ \A i, j, m, n : Wake(n, i) # Gone(m, j)
  /\ \A i, j, n : Wake(n, i) = Wake(n, j) => i = j
  /\ \A i, j, n : Gone(n, i) = Gone(n, j) => i = j
  /\ \A i, j, m, k : Waits(i, m) = Waits(j, k) => i = j /\ m = k
<1>1. \A i, m : Told(i, m).index = i /\ Told(i, m).message = m /\ Told(i, m).type = "message"
  BY DEF Told
<1>2. \A n, i : /\ Wake(n, i).index = i /\ Wake(n, i).type = "new"
                /\ Gone(n, i).index = i /\ Gone(n, i).type = "gone"
  BY DEF Wake, Gone
<1>3. \A i, m : Waits(i, m).index = i /\ Waits(i, m).response = m
  BY DEF Waits
<1>4. \A i, j, m, k : Told(i, m) = Told(j, k) => i = j /\ m = k
  BY <1>1
<1>5. \A i, j, m, n : Told(i, m) # Wake(n, j) /\ Told(i, m) # Gone(n, j)
  BY <1>1, <1>2
<1>6. \A i, j, m, n : Wake(n, i) # Gone(m, j)
  BY <1>2
<1>7. \A i, j, n : Wake(n, i) = Wake(n, j) => i = j
  BY <1>2
<1>8. \A i, j, n : Gone(n, i) = Gone(n, j) => i = j
  BY <1>2
<1>9. \A i, j, m, k : Waits(i, m) = Waits(j, k) => i = j /\ m = k
  BY <1>3
<1>10. QED
  BY <1>4, <1>5, <1>6, <1>7, <1>8, <1>9

-----------------------------------------------------------------------------
(* What the operators on worlds change.                                    *)

LEMMA RemovedView ==
  ASSUME NEW w, NEW ev, NEW h, Typed(w, ev, h), NEW n \in Node, NEW i \in Index(n),
         NEW v, v = Removed(w, n, i)
  PROVE  /\ Typed(v, ev, h)
         /\ v.wire = w.wire /\ v.peers = w.peers /\ v.address = w.address /\ v.pending = w.pending
         /\ v.sockets[n][i] = NoSocket
         /\ \A m \in Node : \A j \in Index(m) :
              ~(m = n /\ j = i) => v.sockets[m][j] = w.sockets[m][j]
         /\ \A m \in Node, t \in Socket :
              v.ready[m][t] = IF m = n /\ t = w.sockets[n][i] THEN Closing(w.ready[m][t])
                              ELSE w.ready[m][t]
<1> DEFINE s == w.sockets[n][i]
<1>0. s \in {NoSocket} \cup Socket /\ NoSocket \notin Socket /\ NoSocket \in SocketAt(n, i)
  BY NodeIs DEF Typed, TypedSockets, SocketAt, NoSocket
<1>1. CASE s = NoSocket
  <2>1. v = w
    BY <1>1 DEF Removed
  <2>2. \A t \in Socket : t # s
    BY <1>0, <1>1
  <2>3. QED
    BY <1>1, <2>1, <2>2
<1>2. CASE s # NoSocket
  <2> DEFINE c == Closing(w.ready[n][s])
  <2>0. s \in Socket
    BY <1>0, <1>2
  <2>1. v = [w EXCEPT !.sockets[n][i] = NoSocket, !.ready[n][s] = c]
    BY <1>2 DEF Removed
  <2>2. /\ IsWorld(v) /\ v.wire = w.wire /\ v.peers = w.peers /\ v.address = w.address
        /\ v.pending = w.pending
        /\ v.sockets = [w.sockets EXCEPT ![n][i] = NoSocket]
        /\ v.ready = [w.ready EXCEPT ![n][s] = c]
    BY <2>1 DEF Typed, IsWorld, Field
  <2>3. w.ready[n][s] \in ReadyState
    BY <2>0 DEF Typed, TypedSockets
  <2>4. c \in ReadyState
    BY <2>3 DEF Closing, ReadyState
  <2>5. IsTable(w.sockets) /\ IsSocketTable(w.ready)
    BY DEF Typed, TypedSockets
  <2> HIDE DEF c, s
  <2>6. /\ IsTable(v.sockets) /\ v.sockets[n][i] = NoSocket
        /\ \A m \in Node : \A j \in Index(m) :
              ~(m = n /\ j = i) => v.sockets[m][j] = w.sockets[m][j]
    <3>1. w.sockets = [m \in Node |-> [j \in Index(m) |-> w.sockets[m][j]]]
      BY <2>5 DEF IsTable
    <3>2. v.sockets = [m \in Node |-> [j \in Index(m) |-> IF m = n /\ j = i THEN NoSocket
                                                 ELSE w.sockets[m][j]]]
      BY <2>2, <3>1
    <3>3. \A m \in Node : \A j \in Index(m) :
            v.sockets[m][j] = IF m = n /\ j = i THEN NoSocket ELSE w.sockets[m][j]
      BY <3>2
    <3>4. IsTable(v.sockets)
      BY <3>2, <3>3 DEF IsTable
    <3>5. QED
      BY <3>3, <3>4
  <2>7. /\ IsSocketTable(v.ready)
        /\ \A m \in Node, t \in Socket :
             v.ready[m][t] = IF m = n /\ t = s THEN c ELSE w.ready[m][t]
    <3>1. w.ready = [m \in Node |-> [t \in Socket |-> w.ready[m][t]]]
      BY <2>5 DEF IsSocketTable
    <3>2. v.ready = [m \in Node |-> [t \in Socket |-> IF m = n /\ t = s THEN c
                                                 ELSE w.ready[m][t]]]
      BY <2>0, <2>2, <3>1
    <3>3. \A m \in Node : \A t \in Socket :
            v.ready[m][t] = IF m = n /\ t = s THEN c ELSE w.ready[m][t]
      BY <3>2
    <3>4. IsSocketTable(v.ready)
      BY <3>2, <3>3 DEF IsSocketTable
    <3>5. QED
      BY <3>3, <3>4
  <2>8. \A m \in Node, t \in Socket : v.ready[m][t] \in ReadyState
    BY <2>4, <2>7 DEF Typed, TypedSockets
  <2>9. \A m \in Node : \A j \in Index(m) : v.sockets[m][j] \in SocketAt(m, j)
    BY <1>0, <2>6 DEF Typed, TypedSockets
  <2>10. Typed(v, ev, h)
    BY <2>2, <2>6, <2>7, <2>8, <2>9 DEF Typed, TypedSockets, TypedWire, TypedPeers, TypedPending
  <2>11. QED
    BY <2>2, <2>6, <2>7, <2>10 DEF c, s
<1>3. QED
  BY <1>1, <1>2

\* A message that may be on the wire of the peer's socket is sent to its other end.
LEMMA SentView ==
  ASSUME NEW w, NEW ev, NEW h, Typed(w, ev, h), NEW n \in Node, NEW i \in Index(n),
         NEW m \in OnWire(Other(n), i), NEW v, v = Sent(w, n, i, m)
  PROVE  LET s == w.sockets[n][i]
             o == Other(n) IN
         /\ Typed(v, ev, h)
         /\ v.ready = w.ready /\ v.sockets = w.sockets /\ v.peers = w.peers
         /\ v.address = w.address /\ v.pending = w.pending
         /\ \/ v = w
            \/ /\ s \in Socket /\ w.ready[n][s] = "open" /\ (n = "server" => s = i)
               /\ \A k \in Node, t \in Socket :
                    v.wire[k][t] = IF k = o /\ t = s THEN Append(w.wire[k][t], m) ELSE w.wire[k][t]
<1> DEFINE s == w.sockets[n][i]
           o == Other(n)
           q == w.wire[o][s]
           r == Append(q, m)
<1>1. CASE ~(s # NoSocket /\ w.ready[n][s] = "open")
  <2>1. v = w
    BY <1>1 DEF Sent
  <2>2. QED
    BY <2>1
<1>2. CASE s # NoSocket /\ w.ready[n][s] = "open"
  <2>1. s \in SocketAt(n, i)
    BY DEF Typed, TypedSockets
  <2>2. s \in Socket /\ (n = "server" => s = i)
    BY <1>2, <2>1, NodeIs DEF SocketAt
  <2>3. o \in Node /\ m \in OnWire(o, s)
    BY <2>2, NodeIs DEF OnWire, Other
  <2>4. v = [w EXCEPT !.wire[o][s] = Append(@, m)]
    BY <1>2 DEF Sent
  <2>5. /\ IsWorld(v) /\ v.ready = w.ready /\ v.peers = w.peers /\ v.address = w.address
        /\ v.pending = w.pending /\ v.sockets = w.sockets
        /\ v.wire = [w.wire EXCEPT ![o][s] = r]
    BY <2>4 DEF Typed, IsWorld, Field
  <2>6. IsSocketTable(w.wire) /\ q \in Seq(OnWire(o, s))
    BY <2>2, <2>3 DEF Typed, TypedWire
  <2>7. r \in Seq(OnWire(o, s))
    BY <2>3, <2>6, InAppend
  <2> HIDE DEF q, r, s, o
  <2>8. /\ IsSocketTable(v.wire)
        /\ \A k \in Node, t \in Socket :
             v.wire[k][t] = IF k = o /\ t = s THEN r ELSE w.wire[k][t]
    <3>1. w.wire = [k \in Node |-> [t \in Socket |-> w.wire[k][t]]]
      BY <2>6 DEF IsSocketTable
    <3>2. v.wire = [k \in Node |-> [t \in Socket |-> IF k = o /\ t = s THEN r
                                                 ELSE w.wire[k][t]]]
      BY <2>2, <2>3, <2>5, <3>1
    <3>3. \A k \in Node : \A t \in Socket :
            v.wire[k][t] = IF k = o /\ t = s THEN r ELSE w.wire[k][t]
      BY <3>2
    <3>4. IsSocketTable(v.wire)
      BY <3>2, <3>3 DEF IsSocketTable
    <3>5. QED
      BY <3>3, <3>4
  <2>9. \A k \in Node, t \in Socket : v.wire[k][t] \in Seq(OnWire(k, t))
    BY <2>7, <2>8 DEF Typed, TypedWire
  <2>10. Typed(v, ev, h)
    BY <2>5, <2>8, <2>9 DEF Typed, TypedSockets, TypedWire, TypedPeers, TypedPending
  <2>11. QED
    BY <1>2, <2>2, <2>5, <2>8, <2>10 DEF q, r, s, o
<1>3. QED
  BY <1>1, <1>2

LEMMA ReplacedView ==
  ASSUME NEW w, NEW ev, NEW h, Typed(w, ev, h), NEW n \in Node, NEW i \in Index(n),
         NEW p \in PeerAt(n, i), NEW v, v = Replaced(w, n, i, p)
  PROVE  /\ Typed(v, ev, h)
         /\ v.ready = w.ready /\ v.sockets = w.sockets /\ v.wire = w.wire
         /\ v.address = w.address /\ v.pending = w.pending
         /\ v.peers[n][i] = p
         /\ \A m \in Node : \A j \in Index(m) : ~(m = n /\ j = i) => v.peers[m][j] = w.peers[m][j]
<1>1. /\ IsWorld(v) /\ v.ready = w.ready /\ v.sockets = w.sockets /\ v.address = w.address
      /\ v.pending = w.pending /\ v.wire = w.wire
      /\ v.peers = [w.peers EXCEPT ![n][i] = p]
  BY DEF Replaced, Typed, IsWorld, Field
<1>2. IsTable(w.peers)
  BY DEF Typed, TypedPeers
<1>3. /\ IsTable(v.peers) /\ v.peers[n][i] = p
      /\ \A m \in Node : \A j \in Index(m) : ~(m = n /\ j = i) => v.peers[m][j] = w.peers[m][j]
  <2>1. w.peers = [m \in Node |-> [j \in Index(m) |-> w.peers[m][j]]]
    BY <1>2 DEF IsTable
  <2>2. v.peers = [m \in Node |-> [j \in Index(m) |-> IF m = n /\ j = i THEN p
                                               ELSE w.peers[m][j]]]
    BY <1>1, <2>1
  <2>3. \A m \in Node : \A j \in Index(m) :
          v.peers[m][j] = IF m = n /\ j = i THEN p ELSE w.peers[m][j]
    BY <2>2
  <2>4. IsTable(v.peers)
    BY <2>2, <2>3 DEF IsTable
  <2>5. QED
    BY <2>3, <2>4
<1>4. \A m \in Node : \A j \in Index(m) : v.peers[m][j] \in PeerAt(m, j)
  BY <1>3 DEF Typed, TypedPeers
<1>5. Typed(v, ev, h)
  BY <1>1, <1>3, <1>4 DEF Typed, TypedSockets, TypedWire, TypedPeers, TypedPending
<1>6. QED
  BY <1>1, <1>3, <1>5

LEMMA ReaddressedView ==
  ASSUME NEW w, NEW ev, NEW h, Typed(w, ev, h), NEW n \in Node, NEW a \in {NoIndex} \cup Index(n),
         NEW v, v = Readdressed(w, n, a)
  PROVE  /\ Typed(v, ev, h)
         /\ v.ready = w.ready /\ v.sockets = w.sockets /\ v.wire = w.wire
         /\ v.peers = w.peers /\ v.pending = w.pending
<1>1. /\ IsWorld(v) /\ v.ready = w.ready /\ v.sockets = w.sockets /\ v.peers = w.peers
      /\ v.pending = w.pending /\ v.wire = w.wire
      /\ v.address = [w.address EXCEPT ![n] = a]
  BY DEF Readdressed, Typed, IsWorld, Field
<1>2. IsPair(w.address)
  BY DEF Typed, TypedPeers
<1>3. IsPair(v.address) /\ v.address[n] = a /\ \A m \in Node \ {n} : v.address[m] = w.address[m]
  <2>1. w.address = [m \in Node |-> w.address[m]]
    BY <1>2 DEF IsPair
  <2>2. v.address = [m \in Node |-> IF m = n THEN a ELSE w.address[m]]
    BY <1>1, <2>1
  <2>3. \A m \in Node : v.address[m] = IF m = n THEN a ELSE w.address[m]
    BY <2>2
  <2>4. IsPair(v.address)
    BY <2>2, <2>3 DEF IsPair
  <2>5. QED
    BY <2>3, <2>4
<1>4. \A m \in Node : v.address[m] \in {NoIndex} \cup Index(m)
  BY <1>3 DEF Typed, TypedPeers
<1>5. Typed(v, ev, h)
  BY <1>1, <1>3, <1>4 DEF Typed, TypedSockets, TypedWire, TypedPeers, TypedPending
<1>6. QED
  BY <1>1, <1>5

\* The list of those that wait is replaced.
Listed(w, n, q) == [w EXCEPT !.pending[n] = q]

LEMMA PendingView ==
  ASSUME NEW w, NEW ev, NEW h, Typed(w, ev, h), NEW n \in Node, NEW q \in Seq(WaitsFor(n)),
         NEW v, v = Listed(w, n, q)
  PROVE  /\ Typed(v, ev, h)
         /\ v.ready = w.ready /\ v.sockets = w.sockets /\ v.wire = w.wire
         /\ v.peers = w.peers /\ v.address = w.address
         /\ v.pending[n] = q /\ \A m \in Node \ {n} : v.pending[m] = w.pending[m]
<1>1. /\ IsWorld(v) /\ v.ready = w.ready /\ v.sockets = w.sockets /\ v.peers = w.peers
      /\ v.address = w.address /\ v.wire = w.wire
      /\ v.pending = [w.pending EXCEPT ![n] = q]
  BY DEF Listed, Typed, IsWorld, Field
<1>2. IsPair(w.pending)
  BY DEF Typed, TypedPending
<1>3. IsPair(v.pending) /\ v.pending[n] = q /\ \A m \in Node \ {n} : v.pending[m] = w.pending[m]
  <2>1. w.pending = [m \in Node |-> w.pending[m]]
    BY <1>2 DEF IsPair
  <2>2. v.pending = [m \in Node |-> IF m = n THEN q ELSE w.pending[m]]
    BY <1>1, <2>1
  <2>3. \A m \in Node : v.pending[m] = IF m = n THEN q ELSE w.pending[m]
    BY <2>2
  <2>4. IsPair(v.pending)
    BY <2>2, <2>3 DEF IsPair
  <2>5. QED
    BY <2>3, <2>4
<1>4. \A m \in Node : v.pending[m] \in Seq(WaitsFor(m))
  BY <1>3 DEF Typed, TypedPending
<1>5. Typed(v, ev, h)
  BY <1>1, <1>3, <1>4 DEF Typed, TypedSockets, TypedWire, TypedPeers, TypedPending
<1>6. QED
  BY <1>1, <1>3, <1>5

\* A socket is closed, and what was on its way to it is lost.
Failed(w, n, s) == [w EXCEPT !.ready[n][s] = "closed", !.wire[n][s] = <<>>]

LEMMA FailedView ==
  ASSUME NEW w, NEW ev, NEW h, Typed(w, ev, h), NEW n \in Node, NEW s \in Socket,
         NEW v, v = Failed(w, n, s)
  PROVE  /\ Typed(v, ev, h)
         /\ v.sockets = w.sockets /\ v.peers = w.peers /\ v.address = w.address
         /\ v.pending = w.pending
         /\ \A m \in Node, t \in Socket :
              v.ready[m][t] = IF m = n /\ t = s THEN "closed" ELSE w.ready[m][t]
         /\ \A m \in Node, t \in Socket :
              v.wire[m][t] = IF m = n /\ t = s THEN <<>> ELSE w.wire[m][t]
<1>1. /\ IsWorld(v) /\ v.sockets = w.sockets /\ v.peers = w.peers
      /\ v.address = w.address /\ v.pending = w.pending
      /\ v.ready = [w.ready EXCEPT ![n][s] = "closed"]
      /\ v.wire = [w.wire EXCEPT ![n][s] = <<>>]
  BY DEF Failed, Typed, IsWorld, Field
<1>2. IsSocketTable(w.ready) /\ IsSocketTable(w.wire)
  BY DEF Typed, TypedSockets, TypedWire
<1>3. /\ IsSocketTable(v.ready)
      /\ \A m \in Node, t \in Socket :
           v.ready[m][t] = IF m = n /\ t = s THEN "closed" ELSE w.ready[m][t]
  <2>1. w.ready = [m \in Node |-> [t \in Socket |-> w.ready[m][t]]]
    BY <1>2 DEF IsSocketTable
  <2>2. v.ready = [m \in Node |-> [t \in Socket |-> IF m = n /\ t = s THEN "closed"
                                               ELSE w.ready[m][t]]]
    BY <1>1, <2>1, SMTT(30)
  <2>3. \A m \in Node : \A t \in Socket :
          v.ready[m][t] = IF m = n /\ t = s THEN "closed" ELSE w.ready[m][t]
    BY <2>2
  <2>4. IsSocketTable(v.ready)
    BY <2>2, <2>3 DEF IsSocketTable
  <2>5. QED
    BY <2>3, <2>4
<1>4. /\ IsSocketTable(v.wire)
      /\ \A m \in Node, t \in Socket :
           v.wire[m][t] = IF m = n /\ t = s THEN <<>> ELSE w.wire[m][t]
  <2>1. w.wire = [m \in Node |-> [t \in Socket |-> w.wire[m][t]]]
    BY <1>2 DEF IsSocketTable
  <2>2. v.wire = [m \in Node |-> [t \in Socket |-> IF m = n /\ t = s THEN <<>>
                                               ELSE w.wire[m][t]]]
    BY <1>1, <2>1
  <2>3. \A m \in Node : \A t \in Socket :
          v.wire[m][t] = IF m = n /\ t = s THEN <<>> ELSE w.wire[m][t]
    BY <2>2
  <2>4. IsSocketTable(v.wire)
    BY <2>2, <2>3 DEF IsSocketTable
  <2>5. QED
    BY <2>3, <2>4
<1>5. \A m \in Node, t \in Socket : v.ready[m][t] \in ReadyState
  BY <1>3 DEF Typed, TypedSockets, ReadyState
<1>6. \A S : <<>> \in Seq(S)
  OBVIOUS
<1>7. \A m \in Node, t \in Socket : v.wire[m][t] \in Seq(OnWire(m, t))
  BY <1>4, <1>6 DEF Typed, TypedWire
<1>8. Typed(v, ev, h)
  BY <1>1, <1>3, <1>4, <1>5, <1>7 DEF Typed, TypedSockets, TypedWire, TypedPeers, TypedPending
<1>9. QED
  BY <1>1, <1>3, <1>4, <1>8

-----------------------------------------------------------------------------
(* The invariant.  A handshake of socket s passes from the server's news   *)
(* of the socket to its challenge, on the wire and then among the client's *)
(* events, and from there to the two responses.                            *)

Woken(ev, s) == In(ev["server"], Wake("server", s))
AskWire(w, s) == In(w.wire["client"][s], Ask(s))
AskEvent(ev, s) == In(ev["client"], Told(0, Ask(s)))
Fresh(w, ev, h, s) == s \notin h \/ Woken(ev, s) \/ AskWire(w, s) \/ AskEvent(ev, s)

\* A response of s is somewhere where it may be taken for one.
Answered(w, ev, s) ==
  \/ In(w.wire["server"][s], ToServer(s)) \/ In(w.wire["client"][s], ToClient(s))
  \/ In(ev["server"], Told(s, ToServer(s))) \/ In(ev["client"], Told(0, ToClient(s)))
  \/ In(w.pending["server"], Waits(s, ToServer(s))) \/ In(w.pending["client"], Waits(0, ToClient(s)))

\* It is at one of these places at a time, and there is one of it until the client answers.
OnceOf(w, ev, h, s) ==
  /\ Single(ev["server"], Wake("server", s)) /\ Single(w.wire["client"][s], Ask(s))
  /\ Single(ev["client"], Told(0, Ask(s)))
  /\ s \notin h => ~Woken(ev, s) /\ ~AskWire(w, s) /\ ~AskEvent(ev, s)
  /\ Woken(ev, s) => ~AskWire(w, s) /\ ~AskEvent(ev, s)
  /\ AskWire(w, s) => ~AskEvent(ev, s)
  /\ Fresh(w, ev, h, s) => ~Answered(w, ev, s)

\* The server has no peer for a socket without handlers, and handlers only for a socket that
\* it has; the client has no news from a socket that it has not opened.
Begun(w, ev, h, s) ==
  /\ s \notin h => w.peers["server"][s] = NoPeer
  /\ s \in h => w.ready["server"][s] # "none"
  /\ AskEvent(ev, s) => w.ready["client"][s] \notin {"none", "connecting"}

OpenAt(w, n, s) == w.ready[n][s] = "open"
HasSocket(w, n, i) == w.sockets[n][i] # NoSocket /\ OpenAt(w, n, w.sockets[n][i])

\* The news of the loss of a socket is on the way.
ClosingAt(w, n, i) ==
  \E s \in Socket : IndexOf(n, s) = i /\ w.ready[n][s] \in {"closing", "aborting"}
GoingIn(w, ev, n, i) == In(ev[n], Gone(n, i)) \/ ClosingAt(w, n, i)

\* The client hears that its socket is open before it hears the challenge of it.
WakesFirst(ev, s) ==
  In(ev["client"], Wake("client", 0))
  /\ Before(ev["client"], Wake("client", 0), Told(0, Ask(s)))

\* Unless its loss is on the way, the client has an open socket while it is connected; the
\* socket whose challenge it has answered last is the one it has; and it has not heard of
\* the opening of its socket without being in its handshake until the challenge has come.
ClientSound(w, ev, h) ==
  \/ GoingIn(w, ev, "client", 0)
  \/ /\ w.peers["client"][0].status = "connected" => HasSocket(w, "client", 0)
     /\ \A s \in Socket :
          /\ w.peers["client"][0].challenge = s /\ Answered(w, ev, s) =>
               /\ w.peers["client"][0].status # "disconnected"
               /\ w.sockets["client"][0] = s /\ OpenAt(w, "client", s)
          /\ /\ w.sockets["client"][0] = s /\ OpenAt(w, "client", s) /\ Fresh(w, ev, h, s)
             /\ w.peers["client"][0].status # "connecting"
             => WakesFirst(ev, s)

\* Unless its loss is on the way, a socket of the server is open while its peer is
\* connected, or can still be.
ServerSound(w, ev, h) ==
  \A s \in Socket :
    /\ s \in h /\ OpenAt(w, "server", s) => w.sockets["server"][s] = s
    /\ \/ GoingIn(w, ev, "server", s) \/ OpenAt(w, "server", s)
       \/ /\ w.peers["server"][s].status # "connected"
          /\ \/ w.peers["server"][s].challenge = 0
             \/ ~AskWire(w, s) /\ ~AskEvent(ev, s) /\ ~Answered(w, ev, s)

Inv(w, ev, h) ==
  /\ Typed(w, ev, h)
  /\ \A s \in Socket : OnceOf(w, ev, h, s) /\ Begun(w, ev, h, s)
  /\ ClientSound(w, ev, h) /\ ServerSound(w, ev, h)

LEMMA InvIsTyped ==
  ASSUME NEW w, NEW ev, NEW h, Inv(w, ev, h) PROVE Typed(w, ev, h)
BY DEF Inv

-----------------------------------------------------------------------------
(* What the operators on worlds leave as it is: first those that send      *)
(* nothing.                                                                *)

\* The handshakes are at the same places.
LEMMA SameTokens ==
  ASSUME NEW w, NEW v, NEW ev, NEW h, v.wire = w.wire, v.pending = w.pending
  PROVE  \A s : /\ AskWire(v, s) <=> AskWire(w, s)
                /\ Answered(v, ev, s) <=> Answered(w, ev, s)
                /\ Fresh(v, ev, h, s) <=> Fresh(w, ev, h, s)
                /\ OnceOf(v, ev, h, s) <=> OnceOf(w, ev, h, s)
BY DEF AskWire, Answered, Fresh, OnceOf

LEMMA RemovedSound ==
  ASSUME NEW w, NEW ev, NEW h, Inv(w, ev, h), NEW n \in Node, NEW i \in Index(n)
  PROVE  Inv(Removed(w, n, i), ev, h)
<1> DEFINE v == Removed(w, n, i)
           k == w.sockets[n][i]
<1>1. /\ Typed(v, ev, h)
      /\ v.wire = w.wire /\ v.peers = w.peers /\ v.pending = w.pending
      /\ v.sockets[n][i] = NoSocket
      /\ \A m \in Node : \A j \in Index(m) :
              ~(m = n /\ j = i) => v.sockets[m][j] = w.sockets[m][j]
      /\ \A m \in Node, t \in Socket :
              v.ready[m][t] = IF m = n /\ t = k THEN Closing(w.ready[m][t]) ELSE w.ready[m][t]
  <2>1. Typed(w, ev, h)
    BY DEF Inv
  <2> HIDE DEF v
  <2>2. v = Removed(w, n, i)
    BY DEF v
  <2>3. QED
    BY <2>1, <2>2, RemovedView
<1>2. k \in SocketAt(n, i)
  BY DEF Inv, Typed, TypedSockets
<1>3. \A s : /\ AskWire(v, s) <=> AskWire(w, s)
             /\ Answered(v, ev, s) <=> Answered(w, ev, s)
             /\ Fresh(v, ev, h, s) <=> Fresh(w, ev, h, s)
             /\ OnceOf(v, ev, h, s) <=> OnceOf(w, ev, h, s)
  <2> HIDE DEF v
  <2> QED BY <1>1, SameTokens
<1> HIDE DEF v, k
<1>4. \A x : /\ x \notin {"none", "connecting"} => Closing(x) \notin {"none", "connecting"}
             /\ x # "none" => Closing(x) # "none"
             /\ x \in {"closing", "aborting"} => Closing(x) = x
             /\ Closing(x) # "open" /\ (x = "open" => Closing(x) = "closing")
  BY DEF Closing
<1>5. \A m \in Node : \A j \in Index(m) : GoingIn(w, ev, m, j) => GoingIn(v, ev, m, j)
  BY <1>1, <1>4 DEF GoingIn, ClosingAt
<1>6. k # NoSocket /\ OpenAt(w, n, k) => GoingIn(v, ev, n, i)
  BY <1>1, <1>2, <1>4, NodeIs DEF SocketAt, OpenAt, GoingIn, ClosingAt, IndexOf, Node
<1>7. \A s \in Socket : OnceOf(v, ev, h, s) /\ Begun(v, ev, h, s)
  BY <1>1, <1>3, <1>4, NodeIs DEF Inv, Begun
<1>8. ClientSound(v, ev, h)
  <2>1. CASE n = "client"
    <3>1. i = 0 /\ v.sockets["client"][0] = NoSocket
      BY <1>1, <2>1, NodeIs
    <3>2. \A s \in Socket : v.sockets["client"][0] # s
      BY <3>1, NodeIs DEF NoSocket
    <3>3. GoingIn(v, ev, "client", 0) \/ ~(k # NoSocket /\ OpenAt(w, "client", k))
      BY <1>6, <2>1, <3>1
    <3>4. GoingIn(v, ev, "client", 0) \/ ~GoingIn(w, ev, "client", 0)
      BY <1>5, NodeIs
    <3>5. k = w.sockets["client"][0]
      BY <2>1, <3>1 DEF k
    <3>6. \A s \in Socket : s # NoSocket
      BY NodeIs DEF NoSocket
    <3>7. QED
      BY <1>1, <1>3, <3>2, <3>3, <3>4, <3>5, <3>6 DEF Inv, ClientSound, HasSocket
  <2>2. CASE n # "client"
    <3>1. /\ v.sockets["client"][0] = w.sockets["client"][0]
          /\ \A t \in Socket : v.ready["client"][t] = w.ready["client"][t]
      BY <1>1, <2>2, NodeIs
    <3>2. GoingIn(w, ev, "client", 0) => GoingIn(v, ev, "client", 0)
      BY <1>5, NodeIs
    <3>3. w.sockets["client"][0] \in {NoSocket} \cup Socket
      BY NodeIs DEF Inv, Typed, TypedSockets, SocketAt
    <3>4. QED
      BY <1>1, <1>3, <3>1, <3>2, <3>3 DEF Inv, ClientSound, HasSocket, OpenAt
  <2>3. QED
    BY <2>1, <2>2
<1>9. ServerSound(v, ev, h)
  <2>1. SUFFICES ASSUME NEW s \in Socket
                 PROVE  /\ s \in h /\ OpenAt(v, "server", s) => v.sockets["server"][s] = s
                        /\ \/ GoingIn(v, ev, "server", s) \/ OpenAt(v, "server", s)
                           \/ /\ v.peers["server"][s].status # "connected"
                              /\ \/ v.peers["server"][s].challenge = 0
                                 \/ ~AskWire(v, s) /\ ~AskEvent(ev, s) /\ ~Answered(v, ev, s)
    BY DEF ServerSound
  <2>2. s \in Index("server") /\ "server" \in Node
    BY NodeIs
  <2>3. OpenAt(v, "server", s) => OpenAt(w, "server", s)
    BY <1>1, <1>4, <2>2 DEF OpenAt
  <2>4. OpenAt(w, "server", s) => OpenAt(v, "server", s) \/ GoingIn(v, ev, "server", s)
    BY <1>1, <1>4, <2>2 DEF OpenAt, GoingIn, ClosingAt, IndexOf
  <2>5. s \in h /\ OpenAt(v, "server", s) => v.sockets["server"][s] = s
    <3>1. CASE n = "server" /\ i = s
      <4>1. s \in h /\ OpenAt(v, "server", s) => k = s
        BY <2>3, <3>1 DEF Inv, ServerSound, k
      <4>2. k = s => ~OpenAt(v, "server", s)
        BY <1>1, <1>4, <2>2, <3>1 DEF OpenAt
      <4>3. QED
        BY <4>1, <4>2
    <3>2. CASE ~(n = "server" /\ i = s)
      BY <1>1, <2>2, <2>3, <3>2 DEF Inv, ServerSound
    <3>3. QED
      BY <3>1, <3>2
  <2>6. GoingIn(w, ev, "server", s) => GoingIn(v, ev, "server", s)
    BY <1>5, <2>2
  <2>7. QED
    BY <1>1, <1>3, <2>4, <2>5, <2>6 DEF Inv, ServerSound
<1>10. QED
  BY <1>1, <1>7, <1>8, <1>9 DEF Inv, v

\* What the invariant asks of a client's peer p, and of the server's peer p of socket s.
ClientPeerSound(w, ev, h, p) ==
  \/ GoingIn(w, ev, "client", 0)
  \/ /\ p.status = "connected" => HasSocket(w, "client", 0)
     /\ \A s \in Socket :
          /\ p.challenge = s /\ Answered(w, ev, s) =>
               /\ p.status # "disconnected"
               /\ w.sockets["client"][0] = s /\ OpenAt(w, "client", s)
          /\ /\ w.sockets["client"][0] = s /\ OpenAt(w, "client", s) /\ Fresh(w, ev, h, s)
             /\ p.status # "connecting"
             => WakesFirst(ev, s)

ServerPeerSound(w, ev, h, s, p) ==
  /\ s \notin h => p = NoPeer
  /\ \/ GoingIn(w, ev, "server", s) \/ OpenAt(w, "server", s)
     \/ /\ p.status # "connected"
        /\ \/ p.challenge = 0
           \/ ~AskWire(w, s) /\ ~AskEvent(ev, s) /\ ~Answered(w, ev, s)

LEMMA PeersSound ==
  ASSUME NEW w, NEW ev, NEW h, Inv(w, ev, h)
  PROVE  /\ ClientPeerSound(w, ev, h, w.peers["client"][0])
         /\ \A s \in Socket : ServerPeerSound(w, ev, h, s, w.peers["server"][s])
BY DEF Inv, ClientSound, ServerSound, Begun, ClientPeerSound, ServerPeerSound

LEMMA ReplacedSound ==
  ASSUME NEW w, NEW ev, NEW h, Inv(w, ev, h), NEW n \in Node, NEW i \in Index(n),
         NEW p \in PeerAt(n, i),
         n = "client" => ClientPeerSound(w, ev, h, p),
         n = "server" => ServerPeerSound(w, ev, h, i, p)
  PROVE  Inv(Replaced(w, n, i, p), ev, h)
<1> DEFINE v == Replaced(w, n, i, p)
<1>0. v = Replaced(w, n, i, p)
  OBVIOUS
<1> HIDE DEF v
<1>1. /\ Typed(v, ev, h)
      /\ v.ready = w.ready /\ v.sockets = w.sockets /\ v.wire = w.wire /\ v.pending = w.pending
      /\ v.peers[n][i] = p
      /\ \A m \in Node : \A j \in Index(m) : ~(m = n /\ j = i) => v.peers[m][j] = w.peers[m][j]
  BY <1>0, ReplacedView, InvIsTyped
<1>2. \A s : /\ AskWire(v, s) <=> AskWire(w, s)
             /\ Answered(v, ev, s) <=> Answered(w, ev, s)
             /\ Fresh(v, ev, h, s) <=> Fresh(w, ev, h, s)
             /\ OnceOf(v, ev, h, s) <=> OnceOf(w, ev, h, s)
  BY <1>1, SameTokens
<1>3. /\ \A m, j : GoingIn(v, ev, m, j) <=> GoingIn(w, ev, m, j)
      /\ \A m, j : OpenAt(v, m, j) <=> OpenAt(w, m, j)
      /\ \A m, j : HasSocket(v, m, j) <=> HasSocket(w, m, j)
  BY <1>1 DEF GoingIn, ClosingAt, OpenAt, HasSocket
<1>4. ClientPeerSound(w, ev, h, v.peers["client"][0])
  BY <1>1, NodeIs, PeersSound
<1>5. \A s \in Socket : ServerPeerSound(w, ev, h, s, v.peers["server"][s])
  BY <1>1, NodeIs, PeersSound
<1>6. ClientSound(v, ev, h)
  BY <1>1, <1>2, <1>3, <1>4 DEF ClientSound, ClientPeerSound
<1>7. ServerSound(v, ev, h)
  BY <1>1, <1>2, <1>3, <1>5 DEF ServerSound, ServerPeerSound, Inv
<1>8. \A s \in Socket : OnceOf(v, ev, h, s) /\ Begun(v, ev, h, s)
  BY <1>1, <1>2, <1>5 DEF Inv, Begun, ServerPeerSound
<1>9. QED
  BY <1>1, <1>6, <1>7, <1>8 DEF Inv, v

LEMMA PeerIs ==
  ASSUME NEW w, NEW ev, NEW h, Inv(w, ev, h), NEW n \in Node, NEW i \in Index(n)
  PROVE  /\ w.peers[n][i] \in PeerAt(n, i)
         /\ w = [f \in Field |-> w[f]]
         /\ IsTable(w.peers)
BY DEF Inv, Typed, TypedPeers, IsWorld

LEMMA TypedBook ==
  ASSUME NEW w, NEW ev, NEW h, Inv(w, ev, h) PROVE IsWorld(w) /\ IsBook(w)
<1>1. \A n \in Node : \A i \in Index(n) : w.peers[n][i] \in PeerAt(n, i)
  BY PeerIs
<1>2. \A n \in Node : \A i \in Index(n) : IsPeer(w.peers[n][i])
  BY <1>1 DEF PeerAt, IsPeer, PeerField
<1>3. QED
  BY <1>2 DEF Inv, Typed, TypedPeers, IsTable, IsPair, IsBook

LEMMA MarkedIs ==
  ASSUME NEW w, NEW ev, NEW h, Inv(w, ev, h), NEW n \in Node, NEW i \in Index(n)
  PROVE  Marked(w, n, i) = Replaced(w, n, i, [w.peers[n][i] EXCEPT !.status = "disconnected",
                                                                  !.challenge = 0])
<1>1. IsWorld(w) /\ IsBook(w)
  BY TypedBook
<1>2. IsPeer(w.peers[n][i])
  BY <1>1 DEF IsBook
<1>3. QED
  BY <1>1, <1>2 DEF Marked, Replaced, IsWorld, IsPeer, PeerField, IsBook, Field

\* A peer is lost: of the client, when it has no socket or is past its handshake.
LEMMA MarkedSound ==
  ASSUME NEW w, NEW ev, NEW h, Inv(w, ev, h), NEW n \in Node, NEW i \in Index(n),
         n = "client" => w.sockets["client"][0] = NoSocket \/ w.peers["client"][0].status # "connecting",
         w.peers[n][i] # NoPeer
  PROVE  /\ Inv(Marked(w, n, i), ev, h)
         /\ Marked(w, n, i) = Replaced(w, n, i, [w.peers[n][i] EXCEPT !.status = "disconnected",
                                                                      !.challenge = 0])
<1> DEFINE q == w.peers[n][i]
           p == [q EXCEPT !.status = "disconnected", !.challenge = 0]
<1>1. q \in PeerAt(n, i)
  BY PeerIs
<1>2. p \in PeerAt(n, i) /\ p.status = "disconnected" /\ p.challenge = 0
  BY <1>1 DEF PeerAt
<1>3. Marked(w, n, i) = Replaced(w, n, i, p)
  BY MarkedIs
<1> HIDE DEF p, q
<1>4. \A s \in Socket : s # 0 /\ s # NoSocket
  BY NodeIs DEF NoSocket
<1>5. n = "client" => ClientPeerSound(w, ev, h, p)
  BY <1>2, <1>4, PeersSound DEF ClientPeerSound, q
<1>6. n = "server" => ServerPeerSound(w, ev, h, i, p)
  <2>1. CASE n = "server"
    <3>1. ServerPeerSound(w, ev, h, i, q)
      BY <2>1, NodeIs, PeersSound DEF q
    <3>2. i \in h
      BY <3>1 DEF ServerPeerSound, q
    <3>3. QED
      BY <1>2, <3>1, <3>2 DEF ServerPeerSound
  <2>2. QED
    BY <2>1
<1>7. Inv(Replaced(w, n, i, p), ev, h)
  BY <1>2, <1>5, <1>6, ReplacedSound
<1>8. QED
  BY <1>3, <1>7 DEF p, q

\* removeSocket and mark_as_disconnected touch different fields.
LEMMA MarkedRemoved ==
  ASSUME NEW w, NEW ev, NEW h, Inv(w, ev, h), NEW n \in Node, NEW i \in Index(n),
         w.peers[n][i] # NoPeer
  PROVE  /\ Inv(Removed(Marked(w, n, i), n, i), ev, h)
         /\ Inv(Marked(Removed(w, n, i), n, i), ev, h)
<1> DEFINE u == Removed(w, n, i)
           p == [w.peers[n][i] EXCEPT !.status = "disconnected", !.challenge = 0]
           x == Replaced(w, n, i, p)
<1>0. u = Removed(w, n, i)
  OBVIOUS
<1> HIDE DEF u
<1>1. Inv(u, ev, h) /\ u.peers = w.peers /\ u.sockets[n][i] = NoSocket
  BY <1>0, RemovedSound, RemovedView, InvIsTyped
<1>2. /\ Inv(Marked(u, n, i), ev, h)
      /\ Marked(u, n, i) = Replaced(u, n, i, p)
  <2>1. n = "client" => u.sockets["client"][0] = NoSocket
    BY <1>1, NodeIs
  <2>2. u.peers[n][i] # NoPeer
    BY <1>1
  <2>3. Inv(Marked(u, n, i), ev, h)
    BY <1>1, <2>1, <2>2, MarkedSound
  <2>4. Marked(u, n, i) = Replaced(u, n, i, [u.peers[n][i] EXCEPT !.status = "disconnected",
                                                                  !.challenge = 0])
    BY <1>1, MarkedIs
  <2>5. QED
    BY <1>1, <2>3, <2>4
<1>3. Marked(w, n, i) = x
  BY MarkedIs
<1>4. Removed(x, n, i) = Replaced(u, n, i, p)
  <2>1. IsWorld(w)
    BY DEF Inv, Typed
  <2>2. x.sockets = w.sockets /\ x.ready = w.ready
    BY <2>1 DEF Replaced, IsWorld, Field
  <2>3. CASE w.sockets[n][i] = NoSocket
    BY <1>0, <2>2, <2>3 DEF Removed
  <2>4. CASE w.sockets[n][i] # NoSocket
    <3> DEFINE S == [w.sockets EXCEPT ![n][i] = NoSocket]
               R == [w.ready EXCEPT ![n][w.sockets[n][i]] = Closing(@)]
               P == [w.peers EXCEPT ![n][i] = p]
    <3>1. Removed(x, n, i) = [x EXCEPT !.sockets = S, !.ready = R]
      BY <2>2, <2>4 DEF Removed
    <3>2. u = [w EXCEPT !.sockets = S, !.ready = R]
      BY <1>0, <2>4 DEF Removed
    <3>3. x = [w EXCEPT !.peers = P]
      BY DEF Replaced
    <3>4. Replaced(u, n, i, p) = [u EXCEPT !.peers = P]
      BY <1>1 DEF Replaced
    <3> HIDE DEF S, R, P, x
    <3>5. [[w EXCEPT !.peers = P] EXCEPT !.sockets = S, !.ready = R]
            = [[w EXCEPT !.sockets = S, !.ready = R] EXCEPT !.peers = P]
      BY <2>1 DEF IsWorld, Field
    <3>6. QED
      BY <3>1, <3>2, <3>3, <3>4, <3>5
  <2>5. QED
    BY <2>3, <2>4
<1>5. QED
  BY <1>0, <1>2, <1>3, <1>4

-----------------------------------------------------------------------------
(* The list of those that wait, and the address book.                      *)

\* The state is the same but for the list that waits, in which no response is new.
LEMMA PendingSound ==
  ASSUME NEW w, NEW ev, NEW h, Inv(w, ev, h), NEW n \in Node, NEW q \in Seq(WaitsFor(n)),
         \A s \in Socket :
           /\ n = "server" /\ In(q, Waits(s, ToServer(s))) => Answered(w, ev, s)
           /\ n = "client" /\ In(q, Waits(0, ToClient(s))) => Answered(w, ev, s)
  PROVE  Inv(Listed(w, n, q), ev, h)
<1> DEFINE v == Listed(w, n, q)
<1>0. v = Listed(w, n, q)
  OBVIOUS
<1> HIDE DEF v
<1>1. /\ Typed(v, ev, h)
      /\ v.ready = w.ready /\ v.sockets = w.sockets /\ v.wire = w.wire
      /\ v.peers = w.peers /\ v.address = w.address
      /\ v.pending[n] = q /\ \A m \in Node \ {n} : v.pending[m] = w.pending[m]
  BY <1>0, PendingView, InvIsTyped
<1>2. n = "client" \/ n = "server"
  BY NodeIs
<1>3. \A s \in Socket : /\ AskWire(v, s) <=> AskWire(w, s)
                        /\ Fresh(v, ev, h, s) <=> Fresh(w, ev, h, s)
  BY <1>1 DEF AskWire, Fresh
<1>4. \A s \in Socket : Answered(v, ev, s) => Answered(w, ev, s)
  <2>1. CASE n = "client"
    <3>1. v.pending["client"] = q /\ v.pending["server"] = w.pending["server"]
      BY <1>1, <2>1, NodeIs
    <3>2. QED
      BY <1>1, <2>1, <3>1 DEF Answered
  <2>2. CASE n = "server"
    <3>1. v.pending["server"] = q /\ v.pending["client"] = w.pending["client"]
      BY <1>1, <2>2, NodeIs
    <3>2. QED
      BY <1>1, <2>2, <3>1 DEF Answered
  <2>3. QED
    BY <1>2, <2>1, <2>2
<1>5. /\ \A m, j : GoingIn(v, ev, m, j) <=> GoingIn(w, ev, m, j)
      /\ \A m, j : OpenAt(v, m, j) <=> OpenAt(w, m, j)
      /\ \A m, j : HasSocket(v, m, j) <=> HasSocket(w, m, j)
  BY <1>1 DEF GoingIn, ClosingAt, OpenAt, HasSocket
<1>6. ClientSound(v, ev, h)
  BY <1>1, <1>3, <1>4, <1>5 DEF Inv, ClientSound
<1>7. ServerSound(v, ev, h)
  BY <1>1, <1>3, <1>4, <1>5 DEF Inv, ServerSound
<1>8. \A s \in Socket : OnceOf(v, ev, h, s) /\ Begun(v, ev, h, s)
  BY <1>1, <1>3, <1>4 DEF Inv, OnceOf, Begun
<1>9. QED
  BY <1>1, <1>6, <1>7, <1>8 DEF Inv, v

LEMMA ReaddressedSound ==
  ASSUME NEW w, NEW ev, NEW h, Inv(w, ev, h), NEW n \in Node, NEW a \in {NoIndex} \cup Index(n)
  PROVE  Inv(Readdressed(w, n, a), ev, h)
<1> DEFINE v == Readdressed(w, n, a)
<1>0. v = Readdressed(w, n, a)
  OBVIOUS
<1> HIDE DEF v
<1>1. /\ Typed(v, ev, h)
      /\ v.ready = w.ready /\ v.sockets = w.sockets /\ v.wire = w.wire
      /\ v.peers = w.peers /\ v.pending = w.pending
  BY <1>0, ReaddressedView, InvIsTyped
<1>2. \A s : /\ AskWire(v, s) <=> AskWire(w, s)
             /\ Answered(v, ev, s) <=> Answered(w, ev, s)
             /\ Fresh(v, ev, h, s) <=> Fresh(w, ev, h, s)
             /\ OnceOf(v, ev, h, s) <=> OnceOf(w, ev, h, s)
  BY <1>1, SameTokens
<1>3. /\ \A m, j : GoingIn(v, ev, m, j) <=> GoingIn(w, ev, m, j)
      /\ \A m, j : OpenAt(v, m, j) <=> OpenAt(w, m, j)
      /\ \A m, j : HasSocket(v, m, j) <=> HasSocket(w, m, j)
  BY <1>1 DEF GoingIn, ClosingAt, OpenAt, HasSocket
<1>4. ClientSound(v, ev, h)
  BY <1>1, <1>2, <1>3 DEF Inv, ClientSound
<1>5. ServerSound(v, ev, h)
  BY <1>1, <1>2, <1>3 DEF Inv, ServerSound
<1>6. \A s \in Socket : OnceOf(v, ev, h, s) /\ Begun(v, ev, h, s)
  BY <1>1, <1>2 DEF Inv, Begun
<1>7. QED
  BY <1>1, <1>4, <1>5, <1>6 DEF Inv, v

-----------------------------------------------------------------------------
(* What is sent.                                                           *)

\* A ping or a pong is no part of a handshake.
LEMMA PingSound ==
  ASSUME NEW w, NEW ev, NEW h, Inv(w, ev, h), NEW n \in Node, NEW i \in Index(n),
         NEW m \in {Ping, Pong}
  PROVE  Inv(Sent(w, n, i, m), ev, h)
<1> DEFINE v == Sent(w, n, i, m)
           s == w.sockets[n][i]
           o == Other(n)
<1>0. v = Sent(w, n, i, m)
  OBVIOUS
<1> HIDE DEF v
<1>1. m \in OnWire(o, i)
  BY DEF OnWire, MessageTo
<1>2. /\ Typed(v, ev, h)
      /\ v.ready = w.ready /\ v.sockets = w.sockets /\ v.peers = w.peers /\ v.pending = w.pending
      /\ \/ v = w
         \/ /\ s \in Socket /\ (n = "server" => s = i)
            /\ \A k \in Node, t \in Socket :
                 v.wire[k][t] = IF k = o /\ t = s THEN Append(w.wire[k][t], m) ELSE w.wire[k][t]
  BY <1>0, <1>1, SentView, InvIsTyped
<1> HIDE DEF s, o
<1>3. CASE v = w
  BY <1>3 DEF v
<1>4. CASE v # w
  <2>1. \A k \in Node, t \in Socket :
          v.wire[k][t] = IF k = o /\ t = s THEN Append(w.wire[k][t], m) ELSE w.wire[k][t]
    BY <1>2, <1>4
  <2>2. \A k \in Node, t \in Socket : w.wire[k][t] \in Seq(OnWire(k, t)) /\ m \in OnWire(k, t)
    BY NodeIs DEF Inv, Typed, TypedWire, OnWire, MessageTo
  <2>3. \A k \in Node, t \in Socket :
          /\ \A e : In(v.wire[k][t], e) => In(w.wire[k][t], e) \/ e = m
          /\ \A e : In(w.wire[k][t], e) => In(v.wire[k][t], e)
          /\ \A e : Single(w.wire[k][t], e) /\ e # m => Single(v.wire[k][t], e)
    BY <2>1, <2>2, InAppend
  <2>4. \A t : m # Ask(t) /\ m # ToClient(t) /\ m # ToServer(t)
    BY MessagesDiffer
  <2>5. \A t \in Socket :
          /\ AskWire(v, t) <=> AskWire(w, t)
          /\ In(v.wire["server"][t], ToServer(t)) <=> In(w.wire["server"][t], ToServer(t))
          /\ In(v.wire["client"][t], ToClient(t)) <=> In(w.wire["client"][t], ToClient(t))
          /\ Single(w.wire["client"][t], Ask(t)) => Single(v.wire["client"][t], Ask(t))
    BY <2>3, <2>4, NodeIs DEF AskWire
  <2>6. \A t \in Socket : /\ Answered(v, ev, t) <=> Answered(w, ev, t)
                          /\ Fresh(v, ev, h, t) <=> Fresh(w, ev, h, t)
    BY <1>2, <2>5 DEF Answered, Fresh
  <2>7. /\ \A k, j : GoingIn(v, ev, k, j) <=> GoingIn(w, ev, k, j)
        /\ \A k, j : OpenAt(v, k, j) <=> OpenAt(w, k, j)
        /\ \A k, j : HasSocket(v, k, j) <=> HasSocket(w, k, j)
    BY <1>2 DEF GoingIn, ClosingAt, OpenAt, HasSocket
  <2>8. ClientSound(v, ev, h)
    BY <1>2, <2>6, <2>7 DEF Inv, ClientSound
  <2>9. ServerSound(v, ev, h)
    BY <1>2, <2>5, <2>6, <2>7 DEF Inv, ServerSound
  <2>10. \A t \in Socket : OnceOf(v, ev, h, t) /\ Begun(v, ev, h, t)
    BY <1>2, <2>5, <2>6 DEF Inv, OnceOf, Begun
  <2>11. QED
    BY <1>2, <2>8, <2>9, <2>10 DEF Inv, v
<1>5. QED
  BY <1>3, <1>4

\* The server answers a response again, as long as it has it.
LEMMA AnswerSound ==
  ASSUME NEW w, NEW ev, NEW h, Inv(w, ev, h), NEW i \in Socket, Answered(w, ev, i)
  PROVE  Inv(Sent(w, "server", i, ToClient(i)), ev, h)
<1> DEFINE v == Sent(w, "server", i, ToClient(i))
           m == ToClient(i)
<1>0. v = Sent(w, "server", i, m)
  OBVIOUS
<1> HIDE DEF v
<1>1. "server" \in Node /\ "client" \in Node /\ i \in Index("server") /\ Other("server") = "client"
  BY NodeIs DEF Other
<1>2. m \in OnWire("client", i)
  BY DEF OnWire
<1>3. /\ Typed(v, ev, h)
      /\ v.ready = w.ready /\ v.sockets = w.sockets /\ v.peers = w.peers /\ v.pending = w.pending
      /\ \/ v = w
         \/ \A k \in Node, t \in Socket :
              v.wire[k][t] = IF k = "client" /\ t = i THEN Append(w.wire[k][t], m) ELSE w.wire[k][t]
  BY <1>0, <1>1, <1>2, SentView, InvIsTyped
<1>4. CASE v = w
  BY <1>4 DEF v
<1>5. CASE v # w
  <2>1. /\ \A t \in Socket : v.wire["server"][t] = w.wire["server"][t]
        /\ \A t \in Socket : t # i => v.wire["client"][t] = w.wire["client"][t]
        /\ v.wire["client"][i] = Append(w.wire["client"][i], m)
    BY <1>1, <1>3, <1>5
  <2>2. w.wire["client"][i] \in Seq(OnWire("client", i))
    BY <1>1 DEF Inv, Typed, TypedWire
  <2>3. /\ \A e : In(v.wire["client"][i], e) <=> In(w.wire["client"][i], e) \/ e = m
        /\ \A e : Single(w.wire["client"][i], e) /\ e # m => Single(v.wire["client"][i], e)
    BY <1>2, <2>1, <2>2, InAppend
  <2>4. \A t : m # Ask(t)
    BY MessagesDiffer
  <2> HIDE DEF m
  <2>5. \A t \in Socket :
          /\ AskWire(v, t) <=> AskWire(w, t)
          /\ Single(w.wire["client"][t], Ask(t)) => Single(v.wire["client"][t], Ask(t))
    BY <2>1, <2>3, <2>4 DEF AskWire
  <2>6. \A t \in Socket : /\ Answered(v, ev, t) <=> Answered(w, ev, t)
                          /\ Fresh(v, ev, h, t) <=> Fresh(w, ev, h, t)
    <3>1. \A t \in Socket : t # i => (Answered(v, ev, t) <=> Answered(w, ev, t))
      BY <1>3, <2>1 DEF Answered
    <3>2. Answered(v, ev, i)
      BY <1>3, <2>1, <2>3 DEF Answered
    <3>3. QED
      BY <2>5, <3>1, <3>2 DEF Fresh
  <2>7. /\ \A k, j : GoingIn(v, ev, k, j) <=> GoingIn(w, ev, k, j)
        /\ \A k, j : OpenAt(v, k, j) <=> OpenAt(w, k, j)
        /\ \A k, j : HasSocket(v, k, j) <=> HasSocket(w, k, j)
    BY <1>3 DEF GoingIn, ClosingAt, OpenAt, HasSocket
  <2>8. ClientSound(v, ev, h)
    BY <1>3, <2>6, <2>7 DEF Inv, ClientSound
  <2>9. ServerSound(v, ev, h)
    BY <1>3, <2>5, <2>6, <2>7 DEF Inv, ServerSound
  <2>10. \A t \in Socket : OnceOf(v, ev, h, t) /\ Begun(v, ev, h, t)
    BY <1>3, <2>5, <2>6 DEF Inv, OnceOf, Begun
  <2>11. QED
    BY <1>3, <2>8, <2>9, <2>10 DEF Inv, v
<1>6. QED
  BY <1>4, <1>5

-----------------------------------------------------------------------------
(* Events are queued and handled.                                          *)

Requeued(ev, n, q) == [ev EXCEPT ![n] = q]

LEMMA RequeuedView ==
  ASSUME NEW w, NEW ev, NEW h, Typed(w, ev, h), NEW n \in Node, NEW q \in Seq(EventOf(n)),
         NEW fv, fv = Requeued(ev, n, q)
  PROVE  Typed(w, fv, h) /\ fv[n] = q /\ \A m \in Node \ {n} : fv[m] = ev[m]
<1>1. ev = [m \in Node |-> ev[m]]
  BY DEF Typed, TypedEvents, IsPair
<1>2. fv = [m \in Node |-> IF m = n THEN q ELSE ev[m]]
  BY <1>1 DEF Requeued
<1>3. \A m \in Node : fv[m] = IF m = n THEN q ELSE ev[m]
  BY <1>2
<1>4. IsPair(fv)
  BY <1>2, <1>3 DEF IsPair
<1>5. TypedEvents(fv)
  BY <1>3, <1>4 DEF TypedEvents, Typed
<1>6. QED
  BY <1>3, <1>5 DEF Typed

\* What is queued for node n is not yet a handshake of its own.
LEMMA QueueSound ==
  ASSUME NEW w, NEW ev, NEW h, Inv(w, ev, h), NEW n \in Node, NEW e \in EventOf(n),
         \A s \in Socket :
           /\ n = "server" => e # Wake("server", s) /\ (e = Told(s, ToServer(s)) => Answered(w, ev, s))
           /\ n = "client" => e # Told(0, Ask(s)) /\ (e = Told(0, ToClient(s)) => Answered(w, ev, s))
  PROVE  Inv(w, Requeued(ev, n, Append(ev[n], e)), h)
<1> DEFINE q == Append(ev[n], e)
           fv == Requeued(ev, n, q)
<1>0. fv = Requeued(ev, n, q)
  OBVIOUS
<1> HIDE DEF fv
<1>1. ev[n] \in Seq(EventOf(n))
  BY DEF Inv, Typed, TypedEvents
<1>2. /\ q \in Seq(EventOf(n))
      /\ \A x : In(q, x) <=> In(ev[n], x) \/ x = e
      /\ \A x : Single(ev[n], x) /\ x # e => Single(q, x)
      /\ \A a, x : Before(ev[n], a, x) /\ In(ev[n], a) => Before(q, a, x)
  BY <1>1, InAppend
<1> HIDE DEF q
<1>3. Typed(w, fv, h) /\ fv[n] = q /\ \A m \in Node \ {n} : fv[m] = ev[m]
  BY <1>0, <1>2, RequeuedView, InvIsTyped
<1>4. \A s \in Socket : /\ Woken(fv, s) <=> Woken(ev, s)
                        /\ AskEvent(fv, s) <=> AskEvent(ev, s)
                        /\ Single(ev["server"], Wake("server", s)) => Single(fv["server"], Wake("server", s))
                        /\ Single(ev["client"], Told(0, Ask(s))) => Single(fv["client"], Told(0, Ask(s)))
                        /\ Answered(w, fv, s) <=> Answered(w, ev, s)
                        /\ WakesFirst(ev, s) => WakesFirst(fv, s)
  <2>1. CASE n = "client"
    <3>1. fv["client"] = q /\ fv["server"] = ev["server"]
      BY <1>3, <2>1, NodeIs
    <3>2. QED
      BY <1>2, <2>1, <3>1 DEF Woken, AskEvent, Answered, WakesFirst
  <2>2. CASE n = "server"
    <3>1. fv["server"] = q /\ fv["client"] = ev["client"]
      BY <1>3, <2>2, NodeIs
    <3>2. QED
      BY <1>2, <2>2, <3>1 DEF Woken, AskEvent, Answered, WakesFirst
  <2>3. QED
    BY <2>1, <2>2, NodeIs
<1>5. \A m \in Node : \A j : GoingIn(w, ev, m, j) => GoingIn(w, fv, m, j)
  BY <1>2, <1>3 DEF GoingIn
<1>6. \A s \in Socket : Fresh(w, fv, h, s) <=> Fresh(w, ev, h, s)
  BY <1>4 DEF Fresh
<1>7. GoingIn(w, ev, "client", 0) => GoingIn(w, fv, "client", 0)
  BY <1>5, NodeIs
<1>8. ClientSound(w, fv, h)
  BY <1>4, <1>6, <1>7 DEF Inv, ClientSound
<1>9. \A s : GoingIn(w, ev, "server", s) => GoingIn(w, fv, "server", s)
  BY <1>5, NodeIs
<1>10. ServerSound(w, fv, h)
  BY <1>4, <1>9 DEF Inv, ServerSound
<1>11. \A s \in Socket : OnceOf(w, fv, h, s) /\ Begun(w, fv, h, s)
  BY <1>4, <1>6 DEF Inv, OnceOf, Begun
<1>12. QED
  BY <1>3, <1>8, <1>10, <1>11 DEF Inv, fv, q

\* The news of a socket's loss may be queued at any time.
LEMMA GoneQueued ==
  ASSUME NEW w, NEW ev, NEW h, Inv(w, ev, h), NEW n \in Node, NEW i \in Index(n)
  PROVE  /\ Inv(w, Requeued(ev, n, Append(ev[n], Gone(n, i))), h)
         /\ In(Requeued(ev, n, Append(ev[n], Gone(n, i)))[n], Gone(n, i))
<1>1. Gone(n, i) \in EventOf(n)
  BY DEF EventOf
<1>2. \A m, s : Gone(n, i) # Wake(m, s)
  BY EventsDiffer
<1>3. \A j, m : Gone(n, i) # Told(j, m)
  BY EventsDiffer
<1> DEFINE e == Gone(n, i)
<1> HIDE DEF e
<1>4. e = Gone(n, i)
  BY DEF e
<1>5. Inv(w, Requeued(ev, n, Append(ev[n], e)), h)
  <2>1. \A s \in Socket :
           /\ n = "server" => e # Wake("server", s) /\ (e = Told(s, ToServer(s)) => Answered(w, ev, s))
           /\ n = "client" => e # Told(0, Ask(s)) /\ (e = Told(0, ToClient(s)) => Answered(w, ev, s))
    BY <1>2, <1>3, <1>4
  <2>2. e \in EventOf(n)
    BY <1>1, <1>4
  <2>3. QED
    BY <2>1, <2>2, QueueSound
<1>6. ev[n] \in Seq(EventOf(n))
  BY DEF Inv, Typed, TypedEvents
<1>7. Append(ev[n], e) \in Seq(EventOf(n)) /\ In(Append(ev[n], e), e)
  BY <1>1, <1>4, <1>6, InAppend
<1>8. Requeued(ev, n, Append(ev[n], e))[n] = Append(ev[n], e)
  <2> DEFINE q == Append(ev[n], e)
             fv == Requeued(ev, n, q)
  <2>1. fv = Requeued(ev, n, q) /\ q \in Seq(EventOf(n)) /\ Typed(w, ev, h)
    BY <1>7 DEF Inv
  <2> HIDE DEF q, fv
  <2>2. fv[n] = q
    BY <2>1, RequeuedView
  <2>3. QED
    BY <2>2 DEF q, fv
<1>9. QED
  BY <1>4, <1>5, <1>7, <1>8

\* The first of the events is done with: if a loss, when the peer is lost; if an opening,
\* when the client is in its handshake.
LEMMA PopSound ==
  ASSUME NEW w, NEW ev, NEW h, Inv(w, ev, h), NEW n \in Node, ev[n] # <<>>,
         \A i \in Index(n) : Head(ev[n]) = Gone(n, i) =>
           /\ w.peers[n][i].status # "connected" /\ w.peers[n][i].challenge = 0
           /\ n = "client" => w.sockets[n][i] = NoSocket,
         n = "client" /\ Head(ev[n]) = Wake("client", 0) =>
           w.peers["client"][0].status = "connecting"
  PROVE  Inv(w, Requeued(ev, n, Tail(ev[n])), h)
<1> DEFINE q == Tail(ev[n])
           e == Head(ev[n])
           fv == Requeued(ev, n, q)
<1>0. fv = Requeued(ev, n, q)
  OBVIOUS
<1> HIDE DEF fv
<1>1. ev[n] \in Seq(EventOf(n))
  BY DEF Inv, Typed, TypedEvents
<1>2. /\ q \in Seq(EventOf(n))
      /\ \A x : In(ev[n], x) <=> In(q, x) \/ x = e
      /\ \A x : Single(ev[n], x) => Single(q, x)
      /\ \A a, x : Before(ev[n], a, x) /\ e # a => Before(q, a, x)
  BY <1>1, InTail
<1> HIDE DEF q, e
<1>3. Typed(w, fv, h) /\ fv[n] = q /\ \A m \in Node \ {n} : fv[m] = ev[m]
  BY <1>0, <1>2, RequeuedView, InvIsTyped
<1>4. \A s \in Socket : /\ Woken(fv, s) => Woken(ev, s)
                        /\ AskEvent(fv, s) => AskEvent(ev, s)
                        /\ Single(ev["server"], Wake("server", s)) => Single(fv["server"], Wake("server", s))
                        /\ Single(ev["client"], Told(0, Ask(s))) => Single(fv["client"], Told(0, Ask(s)))
                        /\ Answered(w, fv, s) => Answered(w, ev, s)
  <2>1. CASE n = "client"
    <3>1. fv["client"] = q /\ fv["server"] = ev["server"]
      BY <1>3, <2>1, NodeIs
    <3>2. QED
      BY <1>2, <2>1, <3>1 DEF Woken, AskEvent, Answered
  <2>2. CASE n = "server"
    <3>1. fv["server"] = q /\ fv["client"] = ev["client"]
      BY <1>3, <2>2, NodeIs
    <3>2. QED
      BY <1>2, <2>2, <3>1 DEF Woken, AskEvent, Answered
  <2>3. QED
    BY <2>1, <2>2, NodeIs
<1>5. \A s \in Socket : Fresh(w, fv, h, s) => Fresh(w, ev, h, s)
  BY <1>4 DEF Fresh
<1>6. \A m \in Node : \A j : GoingIn(w, ev, m, j) /\ ~(m = n /\ e = Gone(n, j)) => GoingIn(w, fv, m, j)
  BY <1>2, <1>3 DEF GoingIn
<1>7. ClientSound(w, fv, h)
  <2>1. CASE n = "client" /\ e = Gone("client", 0)
    <3>1. /\ w.peers["client"][0].status # "connected" /\ w.peers["client"][0].challenge = 0
          /\ w.sockets["client"][0] = NoSocket
      BY <2>1, NodeIs DEF e
    <3>2. \A s \in Socket : s # 0 /\ s # NoSocket
      BY NodeIs DEF NoSocket
    <3>3. QED
      BY <3>1, <3>2 DEF ClientSound
  <2>2. CASE ~(n = "client" /\ e = Gone("client", 0))
    <3>1. GoingIn(w, ev, "client", 0) => GoingIn(w, fv, "client", 0)
      BY <1>6, <2>2, NodeIs
    <3>2. \A s \in Socket : WakesFirst(ev, s) =>
            WakesFirst(fv, s) \/ w.peers["client"][0].status = "connecting"
      <4>1. CASE n = "server"
        BY <1>3, <4>1, NodeIs DEF WakesFirst
      <4>2. CASE n = "client"
        <5>1. fv["client"] = q
          BY <1>3, <4>2
        <5>2. e = Wake("client", 0) => w.peers["client"][0].status = "connecting"
          BY <4>2 DEF e
        <5>3. QED
          BY <1>2, <4>2, <5>1, <5>2 DEF WakesFirst
      <4>3. QED
        BY <4>1, <4>2, NodeIs
    <3>3. QED
      BY <1>4, <1>5, <3>1, <3>2 DEF Inv, ClientSound
  <2>3. QED
    BY <2>1, <2>2
<1>8. ServerSound(w, fv, h)
  <2>1. ASSUME NEW s \in Socket
        PROVE  \/ GoingIn(w, ev, "server", s) => GoingIn(w, fv, "server", s)
               \/ w.peers["server"][s].status # "connected" /\ w.peers["server"][s].challenge = 0
    <3>1. CASE n = "server" /\ e = Gone("server", s)
      BY <3>1, NodeIs DEF e
    <3>2. CASE ~(n = "server" /\ e = Gone("server", s))
      BY <1>6, <3>2, NodeIs
    <3>3. QED
      BY <3>1, <3>2
  <2>2. QED
    BY <1>4, <2>1 DEF Inv, ServerSound
<1>9. \A s \in Socket : OnceOf(w, fv, h, s) /\ Begun(w, fv, h, s)
  BY <1>4, <1>5 DEF Inv, OnceOf, Begun
<1>10. QED
  BY <1>3, <1>7, <1>8, <1>9 DEF Inv, fv, q

LEMMA BeforeAppend ==
  ASSUME NEW S, NEW q \in Seq(S), NEW x \in S
  PROVE  /\ \A e : Single(Append(q, x), e) => Single(q, e)
         /\ \A a, e : Before(Append(q, x), a, e) => Before(q, a, e)
<1> DEFINE r == Append(q, x)
<1>1. /\ Len(r) = Len(q) + 1 /\ Len(q) \in Nat
      /\ \A k \in 1..Len(q) : r[k] = q[k]
  OBVIOUS
<1>2. \A k \in 1..Len(q) : k \in 1..Len(r)
  BY <1>1
<1> HIDE DEF r
<1>3. \A e : Single(r, e) => Single(q, e)
  BY <1>1, <1>2 DEF Single
<1>4. ASSUME NEW a, NEW e, Before(r, a, e), NEW k \in 1..Len(q), q[k] = e
      PROVE  \E j \in 1..k - 1 : q[j] = a
  <2>1. PICK j \in 1..k - 1 : r[j] = a
    BY <1>1, <1>2, <1>4 DEF Before
  <2>2. j \in 1..Len(q)
    BY <1>1, <2>1
  <2>3. QED
    BY <1>1, <2>1, <2>2
<1>5. QED
  BY <1>3, <1>4 DEF Before, r

\* A response that is taken from the list is as if it came last: without it, the state is
\* sound if it is with it.
LEMMA DropSound ==
  ASSUME NEW w, NEW ev, NEW h, TypedEvents(ev), NEW n \in Node, NEW i \in Index(n),
         NEW m \in ResponseTo(n),
         Inv(w, Requeued(ev, n, Append(ev[n], Told(i, m))), h)
  PROVE  Inv(w, ev, h)
<1> DEFINE e == Told(i, m)
           q == Append(ev[n], e)
           fv == Requeued(ev, n, q)
<1>1. fv = Requeued(ev, n, q) /\ Inv(w, fv, h)
  OBVIOUS
<1>2. e \in EventOf(n) /\ ev[n] \in Seq(EventOf(n))
  BY DEF EventOf, MessageTo, TypedEvents
<1>3. \A j, k : e # Wake(j, k) /\ e # Gone(j, k)
  BY EventsDiffer
<1>4. /\ q \in Seq(EventOf(n))
      /\ \A x : In(ev[n], x) => In(q, x)
      /\ \A x : In(q, x) /\ x # e => In(ev[n], x)
      /\ \A x : Single(q, x) => Single(ev[n], x)
      /\ \A a, x : Before(q, a, x) => Before(ev[n], a, x)
  <2> HIDE DEF e
  <2> QED BY <1>2, InAppend, BeforeAppend
<1> HIDE DEF e, q, fv
<1>5. Typed(w, ev, h)
  BY <1>1 DEF Inv, Typed
<1>6. fv[n] = q /\ \A k \in Node \ {n} : fv[k] = ev[k]
  BY <1>1, <1>4, <1>5, RequeuedView
<1>7. \A s \in Socket : /\ Woken(ev, s) => Woken(fv, s)
                        /\ AskEvent(ev, s) => AskEvent(fv, s)
                        /\ Single(fv["server"], Wake("server", s)) => Single(ev["server"], Wake("server", s))
                        /\ Single(fv["client"], Told(0, Ask(s))) => Single(ev["client"], Told(0, Ask(s)))
                        /\ Answered(w, ev, s) => Answered(w, fv, s)
                        /\ WakesFirst(fv, s) => WakesFirst(ev, s)
  <2>1. CASE n = "client"
    <3>1. fv["client"] = q /\ fv["server"] = ev["server"]
      BY <1>6, <2>1, NodeIs
    <3>2. QED
      BY <1>3, <1>4, <2>1, <3>1 DEF Woken, AskEvent, Answered, WakesFirst
  <2>2. CASE n = "server"
    <3>1. fv["server"] = q /\ fv["client"] = ev["client"]
      BY <1>6, <2>2, NodeIs
    <3>2. QED
      BY <1>3, <1>4, <2>2, <3>1 DEF Woken, AskEvent, Answered, WakesFirst
  <2>3. QED
    BY <2>1, <2>2, NodeIs
<1>8. \A s \in Socket : Fresh(w, ev, h, s) => Fresh(w, fv, h, s)
  BY <1>7 DEF Fresh
<1>9. \A k \in Node : \A j : GoingIn(w, fv, k, j) => GoingIn(w, ev, k, j)
  BY <1>3, <1>4, <1>6 DEF GoingIn
<1>10. GoingIn(w, fv, "client", 0) => GoingIn(w, ev, "client", 0)
  BY <1>9, NodeIs
<1>11. ClientSound(w, ev, h)
  BY <1>1, <1>7, <1>8, <1>10 DEF Inv, ClientSound
<1>12. \A s : GoingIn(w, fv, "server", s) => GoingIn(w, ev, "server", s)
  BY <1>9, NodeIs
<1>13. ServerSound(w, ev, h)
  BY <1>1, <1>7, <1>12 DEF Inv, ServerSound
<1>14. \A s \in Socket : OnceOf(w, ev, h, s) /\ Begun(w, ev, h, s)
  BY <1>1, <1>7, <1>8 DEF Inv, OnceOf, Begun
<1>15. QED
  BY <1>5, <1>11, <1>13, <1>14 DEF Inv

-----------------------------------------------------------------------------
(* The wires                                                               *)

\* The wire to socket s of node n is replaced.
Rewired(w, n, s, q) == [w EXCEPT !.wire[n][s] = q]

LEMMA RewiredView ==
  ASSUME NEW w, NEW ev, NEW h, Typed(w, ev, h), NEW n \in Node, NEW s \in Socket,
         NEW q \in Seq(OnWire(n, s)), NEW v, v = Rewired(w, n, s, q)
  PROVE  /\ Typed(v, ev, h)
         /\ v.ready = w.ready /\ v.sockets = w.sockets /\ v.peers = w.peers
         /\ v.address = w.address /\ v.pending = w.pending
         /\ \A m \in Node, t \in Socket :
              v.wire[m][t] = IF m = n /\ t = s THEN q ELSE w.wire[m][t]
<1>1. /\ IsWorld(v) /\ v.ready = w.ready /\ v.sockets = w.sockets /\ v.peers = w.peers
      /\ v.address = w.address /\ v.pending = w.pending
      /\ v.wire = [w.wire EXCEPT ![n][s] = q]
  BY DEF Rewired, Typed, IsWorld, Field
<1>2. /\ IsSocketTable(v.wire)
      /\ \A m \in Node, t \in Socket :
           v.wire[m][t] = IF m = n /\ t = s THEN q ELSE w.wire[m][t]
  <2>1. w.wire = [m \in Node |-> [t \in Socket |-> w.wire[m][t]]]
    BY DEF Typed, TypedWire, IsSocketTable
  <2>2. v.wire = [m \in Node |-> [t \in Socket |-> IF m = n /\ t = s THEN q ELSE w.wire[m][t]]]
    BY <1>1, <2>1
  <2>3. \A m \in Node, t \in Socket : v.wire[m][t] = IF m = n /\ t = s THEN q ELSE w.wire[m][t]
    BY <2>2
  <2>4. QED
    BY <2>2, <2>3 DEF IsSocketTable
<1>3. \A m \in Node, t \in Socket : v.wire[m][t] \in Seq(OnWire(m, t))
  BY <1>2 DEF Typed, TypedWire
<1>4. Typed(v, ev, h)
  BY <1>1, <1>2, <1>3 DEF Typed, TypedSockets, TypedWire, TypedPeers, TypedPending
<1>5. QED
  BY <1>1, <1>2, <1>4

\* The first message comes off a wire.
LEMMA TakenSound ==
  ASSUME NEW w, NEW ev, NEW h, Inv(w, ev, h), NEW n \in Node, NEW s \in Socket,
         w.wire[n][s] # <<>>
  PROVE  Inv(Rewired(w, n, s, Tail(w.wire[n][s])), ev, h)
<1> DEFINE q == Tail(w.wire[n][s])
           v == Rewired(w, n, s, q)
<1>0. v = Rewired(w, n, s, q)
  OBVIOUS
<1> HIDE DEF v
<1>1. w.wire[n][s] \in Seq(OnWire(n, s))
  BY DEF Inv, Typed, TypedWire
<1>2. /\ q \in Seq(OnWire(n, s))
      /\ \A x : In(q, x) => In(w.wire[n][s], x)
      /\ \A x : Single(w.wire[n][s], x) => Single(q, x)
  BY <1>1, InTail
<1> HIDE DEF q
<1>3. /\ Typed(v, ev, h)
      /\ v.ready = w.ready /\ v.sockets = w.sockets /\ v.peers = w.peers
      /\ v.address = w.address /\ v.pending = w.pending
      /\ \A m \in Node, t \in Socket :
           v.wire[m][t] = IF m = n /\ t = s THEN q ELSE w.wire[m][t]
  BY <1>0, <1>2, RewiredView, InvIsTyped
<1>4. \A m \in Node, t \in Socket :
        /\ \A x : In(v.wire[m][t], x) => In(w.wire[m][t], x)
        /\ \A x : Single(w.wire[m][t], x) => Single(v.wire[m][t], x)
  BY <1>2, <1>3
<1>5. \A t \in Socket :
        /\ AskWire(v, t) => AskWire(w, t)
        /\ Single(w.wire["client"][t], Ask(t)) => Single(v.wire["client"][t], Ask(t))
        /\ Answered(v, ev, t) => Answered(w, ev, t)
        /\ Fresh(v, ev, h, t) => Fresh(w, ev, h, t)
  BY <1>3, <1>4, NodeIs DEF AskWire, Answered, Fresh
<1>6. /\ \A m, j : GoingIn(v, ev, m, j) <=> GoingIn(w, ev, m, j)
      /\ \A m, j : OpenAt(v, m, j) <=> OpenAt(w, m, j)
      /\ \A m, j : HasSocket(v, m, j) <=> HasSocket(w, m, j)
  BY <1>3 DEF GoingIn, ClosingAt, OpenAt, HasSocket
<1>7. ClientSound(v, ev, h)
  BY <1>3, <1>5, <1>6 DEF Inv, ClientSound
<1>8. ServerSound(v, ev, h)
  BY <1>3, <1>5, <1>6 DEF Inv, ServerSound
<1>9. \A t \in Socket : OnceOf(v, ev, h, t) /\ Begun(v, ev, h, t)
  BY <1>3, <1>5 DEF Inv, OnceOf, Begun
<1>10. QED
  BY <1>3, <1>7, <1>8, <1>9 DEF Inv, v, q

\* A socket may fail once the news of it is queued, or when nobody hears of it.
LEMMA FailedSound ==
  ASSUME NEW w, NEW ev, NEW h, Inv(w, ev, h), NEW n \in Node, NEW s \in Socket,
         In(ev[n], Gone(n, IndexOf(n, s))) \/ (n = "server" /\ s \notin h)
  PROVE  Inv(Failed(w, n, s), ev, h)
<1> DEFINE v == Failed(w, n, s)
<1>0. v = Failed(w, n, s)
  OBVIOUS
<1> HIDE DEF v
<1>1. /\ Typed(v, ev, h)
      /\ v.sockets = w.sockets /\ v.peers = w.peers /\ v.address = w.address
      /\ v.pending = w.pending
      /\ \A m \in Node, t \in Socket :
           v.ready[m][t] = IF m = n /\ t = s THEN "closed" ELSE w.ready[m][t]
      /\ \A m \in Node, t \in Socket :
           v.wire[m][t] = IF m = n /\ t = s THEN <<>> ELSE w.wire[m][t]
  BY <1>0, FailedView, InvIsTyped
<1>2. \A m \in Node, t \in Socket :
        /\ \A x : In(v.wire[m][t], x) => In(w.wire[m][t], x)
        /\ \A x : Single(w.wire[m][t], x) => Single(v.wire[m][t], x)
  BY <1>1, InEmpty
<1>3. \A t \in Socket :
        /\ AskWire(v, t) => AskWire(w, t)
        /\ Single(w.wire["client"][t], Ask(t)) => Single(v.wire["client"][t], Ask(t))
        /\ Answered(v, ev, t) => Answered(w, ev, t)
        /\ Fresh(v, ev, h, t) => Fresh(w, ev, h, t)
  BY <1>1, <1>2, NodeIs DEF AskWire, Answered, Fresh
<1>4. \A m \in Node, j \in Socket : OpenAt(v, m, j) => OpenAt(w, m, j)
  BY <1>1 DEF OpenAt
<1>5. \A m \in Node : \A j :
        GoingIn(w, ev, m, j) => GoingIn(v, ev, m, j) \/ (n = "server" /\ m = n /\ s \notin h /\ j = s)
  <2>1. SUFFICES ASSUME NEW m \in Node, NEW j, GoingIn(w, ev, m, j),
                        ~(n = "server" /\ m = n /\ s \notin h /\ j = s)
                 PROVE  GoingIn(v, ev, m, j)
    OBVIOUS
  <2>2. CASE In(ev[m], Gone(m, j))
    BY <2>2 DEF GoingIn
  <2>3. ASSUME NEW t \in Socket, IndexOf(m, t) = j, w.ready[m][t] \in {"closing", "aborting"}
        PROVE  GoingIn(v, ev, m, j)
    <3>1. CASE m = n /\ t = s
      BY <2>1, <2>3, <3>1 DEF GoingIn, IndexOf
    <3>2. CASE ~(m = n /\ t = s)
      BY <1>1, <2>3, <3>2 DEF GoingIn, ClosingAt
    <3>3. QED
      BY <3>1, <3>2
  <2>4. QED
    BY <2>1, <2>2, <2>3 DEF GoingIn, ClosingAt
<1>6. ClientSound(v, ev, h)
  <2>1. CASE n = "client"
    BY <2>1 DEF ClientSound, GoingIn, IndexOf
  <2>2. CASE n = "server"
    <3>1. \A t \in Socket : OpenAt(v, "client", t) <=> OpenAt(w, "client", t)
      BY <1>1, <2>2, NodeIs DEF OpenAt
    <3>2. w.sockets["client"][0] \in {NoSocket} \cup Socket
      BY NodeIs DEF Inv, Typed, TypedSockets, SocketAt
    <3>3. HasSocket(v, "client", 0) <=> HasSocket(w, "client", 0)
      BY <1>1, <3>1, <3>2 DEF HasSocket
    <3>4. GoingIn(w, ev, "client", 0) => GoingIn(v, ev, "client", 0)
      BY <1>5, <2>2, NodeIs
    <3>5. QED
      BY <1>1, <1>3, <3>1, <3>3, <3>4 DEF Inv, ClientSound
  <2>3. QED
    BY <2>1, <2>2, NodeIs
<1>7. ServerSound(v, ev, h)
  <2>1. SUFFICES ASSUME NEW t \in Socket
                 PROVE  /\ t \in h /\ OpenAt(v, "server", t) => v.sockets["server"][t] = t
                        /\ \/ GoingIn(v, ev, "server", t) \/ OpenAt(v, "server", t)
                           \/ /\ v.peers["server"][t].status # "connected"
                              /\ \/ v.peers["server"][t].challenge = 0
                                 \/ ~AskWire(v, t) /\ ~AskEvent(ev, t) /\ ~Answered(v, ev, t)
    BY DEF ServerSound
  <2>2. t \in h /\ OpenAt(v, "server", t) => v.sockets["server"][t] = t
    BY <1>1, <1>4, NodeIs DEF Inv, ServerSound
  <2>3. CASE n = "server" /\ t = s
    <3>1. CASE In(ev[n], Gone(n, IndexOf(n, s)))
      BY <2>2, <2>3, <3>1 DEF GoingIn, IndexOf
    <3>2. CASE s \notin h
      <4>1. w.peers["server"][s] = NoPeer
        BY <3>2 DEF Inv, Begun
      <4>2. QED
        BY <1>1, <2>2, <2>3, <4>1 DEF NoPeer
    <3>3. QED
      BY <3>1, <3>2
  <2>4. CASE ~(n = "server" /\ t = s)
    <3>1. OpenAt(v, "server", t) <=> OpenAt(w, "server", t)
      BY <1>1, <2>4, NodeIs DEF OpenAt
    <3>2. GoingIn(w, ev, "server", t) => GoingIn(v, ev, "server", t)
      BY <1>5, <2>4, NodeIs
    <3>3. QED
      BY <1>1, <1>3, <2>2, <3>1, <3>2 DEF Inv, ServerSound
  <2>5. QED
    BY <2>3, <2>4
<1>8. \A t \in Socket : OnceOf(v, ev, h, t) /\ Begun(v, ev, h, t)
  <2>1. \A t \in Socket : w.ready["client"][t] \notin {"none", "connecting"}
          => v.ready["client"][t] \notin {"none", "connecting"}
    BY <1>1, NodeIs
  <2>2. \A t \in Socket : w.ready["server"][t] # "none" => v.ready["server"][t] # "none"
    BY <1>1, NodeIs
  <2>3. QED
    BY <1>1, <1>3, <2>1, <2>2 DEF Inv, OnceOf, Begun
<1>9. QED
  BY <1>1, <1>6, <1>7, <1>8 DEF Inv, v

-----------------------------------------------------------------------------
(* A handshake goes from one place to the next.                            *)

\* The handshake of s, which the server knows, is in hand: at none of its places.
InHand(w, ev, h, s) ==
  s \in h /\ ~Woken(ev, s) /\ ~AskWire(w, s) /\ ~AskEvent(ev, s) /\ ~Answered(w, ev, s)

\* The client has not heard of its socket s, or is in the handshake that follows it.
ClientAwaits(w, ev, s) ==
  \/ GoingIn(w, ev, "client", 0)
  \/ /\ w.sockets["client"][0] = s /\ OpenAt(w, "client", s)
     /\ w.peers["client"][0].status # "connecting"
     => WakesFirst(ev, s)

\* The server's peer of socket s, if it may be connected, has it open or will hear of its loss.
ServerAwaits(w, ev, s) ==
  \/ GoingIn(w, ev, "server", s) \/ OpenAt(w, "server", s)
  \/ w.peers["server"][s].status # "connected" /\ w.peers["server"][s].challenge = 0

LEMMA ClientDoesAwait ==
  ASSUME NEW w, NEW ev, NEW h, Inv(w, ev, h), NEW s \in Socket, Fresh(w, ev, h, s)
  PROVE  ClientAwaits(w, ev, s)
BY DEF Inv, ClientSound, ClientAwaits

\* The server sends its challenge.
LEMMA AskSound ==
  ASSUME NEW w, NEW ev, NEW h, Inv(w, ev, h), NEW i \in Socket,
         InHand(w, ev, h, i), ClientAwaits(w, ev, i)
  PROVE  Inv(Sent(w, "server", i, Ask(i)), ev, h)
<1> DEFINE m == Ask(i)
           v == Sent(w, "server", i, m)
<1>0. v = Sent(w, "server", i, m)
  OBVIOUS
<1> HIDE DEF v
<1>1. "server" \in Node /\ "client" \in Node /\ i \in Index("server") /\ Other("server") = "client"
  BY NodeIs DEF Other
<1>2. m \in OnWire("client", i)
  BY DEF OnWire
<1>3. /\ Typed(v, ev, h)
      /\ v.ready = w.ready /\ v.sockets = w.sockets /\ v.peers = w.peers /\ v.pending = w.pending
      /\ \/ v = w
         \/ /\ w.sockets["server"][i] = i /\ w.ready["server"][w.sockets["server"][i]] = "open"
            /\ \A k \in Node, t \in Socket :
                 v.wire[k][t] = IF k = "client" /\ t = w.sockets["server"][i]
                                THEN Append(w.wire[k][t], m) ELSE w.wire[k][t]
  BY <1>0, <1>1, <1>2, SentView, InvIsTyped
<1>4. CASE v = w
  BY <1>4 DEF v
<1>5. CASE v # w
  <2>1. /\ OpenAt(w, "server", i)
        /\ \A t \in Socket : v.wire["server"][t] = w.wire["server"][t]
        /\ \A t \in Socket : t # i => v.wire["client"][t] = w.wire["client"][t]
        /\ v.wire["client"][i] = Append(w.wire["client"][i], m)
    BY <1>1, <1>3, <1>5 DEF OpenAt
  <2>2. w.wire["client"][i] \in Seq(OnWire("client", i))
    BY <1>1 DEF Inv, Typed, TypedWire
  <2>3. /\ \A e : In(v.wire["client"][i], e) <=> In(w.wire["client"][i], e) \/ e = m
        /\ \A e : Single(w.wire["client"][i], e) /\ ~(In(w.wire["client"][i], e) /\ e = m)
                  => Single(v.wire["client"][i], e)
    BY <1>2, <2>1, <2>2, InAppend
  <2>4. m = Ask(i) /\ \A t : m # ToClient(t)
    BY MessagesDiffer
  <2> HIDE DEF m
  <2>5. \A t \in Socket :
          /\ AskWire(v, t) <=> AskWire(w, t) \/ t = i
          /\ Single(w.wire["client"][t], Ask(t)) => Single(v.wire["client"][t], Ask(t))
    <3>1. AskWire(v, i)
      BY <2>3, <2>4 DEF AskWire
    <3>2. Single(w.wire["client"][i], Ask(i)) => Single(v.wire["client"][i], Ask(i))
      BY <2>3, <2>4 DEF InHand, AskWire
    <3>3. QED
      BY <2>1, <3>1, <3>2 DEF AskWire
  <2>6. \A t \in Socket : /\ Answered(v, ev, t) <=> Answered(w, ev, t)
                          /\ t # i => (Fresh(v, ev, h, t) <=> Fresh(w, ev, h, t))
    <3>1. \A t \in Socket : In(v.wire["client"][t], ToClient(t)) <=> In(w.wire["client"][t], ToClient(t))
      BY <2>1, <2>3, <2>4
    <3>2. QED
      BY <1>3, <2>1, <2>5, <3>1 DEF Answered, Fresh
  <2>7. /\ \A k, j : GoingIn(v, ev, k, j) <=> GoingIn(w, ev, k, j)
        /\ \A k, j : OpenAt(v, k, j) <=> OpenAt(w, k, j)
        /\ \A k, j : HasSocket(v, k, j) <=> HasSocket(w, k, j)
    BY <1>3 DEF GoingIn, ClosingAt, OpenAt, HasSocket
  <2>8. ClientSound(v, ev, h)
    <3>1. CASE GoingIn(w, ev, "client", 0)
      BY <2>7, <3>1 DEF ClientSound
    <3>2. CASE ~GoingIn(w, ev, "client", 0)
      BY <1>3, <2>6, <2>7, <3>2 DEF Inv, ClientSound, ClientAwaits
    <3>3. QED
      BY <3>1, <3>2
  <2>9. ServerSound(v, ev, h)
    BY <1>3, <2>1, <2>5, <2>6, <2>7 DEF Inv, ServerSound
  <2>10. \A t \in Socket : OnceOf(v, ev, h, t) /\ Begun(v, ev, h, t)
    BY <1>3, <2>5, <2>6 DEF Inv, OnceOf, Begun, InHand
  <2>11. QED
    BY <1>3, <2>8, <2>9, <2>10 DEF Inv, v, m
<1>6. QED
  BY <1>4, <1>5

\* The challenge comes to the client.
LEMMA AskQueued ==
  ASSUME NEW w, NEW ev, NEW h, Inv(w, ev, h), NEW i \in Socket,
         InHand(w, ev, h, i), ClientAwaits(w, ev, i), ServerAwaits(w, ev, i),
         w.ready["client"][i] \notin {"none", "connecting"}
  PROVE  Inv(w, Requeued(ev, "client", Append(ev["client"], Told(0, Ask(i)))), h)
<1> DEFINE e == Told(0, Ask(i))
           q == Append(ev["client"], e)
           fv == Requeued(ev, "client", q)
<1>0. fv = Requeued(ev, "client", q)
  OBVIOUS
<1> HIDE DEF fv
<1>1. "client" \in Node /\ ev["client"] \in Seq(EventOf("client")) /\ 0 \in Index("client")
  BY NodeIs DEF Inv, Typed, TypedEvents
<1>2. e \in EventOf("client")
  BY <1>1 DEF EventOf, MessageTo
<1>3. /\ e = Told(0, Ask(i)) /\ \A j : e # Gone("client", j) /\ e # Wake("client", j)
      /\ \A s : e # Told(0, ToClient(s))
      /\ \A s : e = Told(0, Ask(s)) => s = i
  BY EventsDiffer, MessagesDiffer
<1> HIDE DEF e
<1>4. /\ q \in Seq(EventOf("client"))
      /\ \A x : In(q, x) <=> In(ev["client"], x) \/ x = e
      /\ \A x : Single(ev["client"], x) /\ ~(In(ev["client"], x) /\ x = e) => Single(q, x)
      /\ \A a, x : Before(ev["client"], a, x) /\ In(ev["client"], a) => Before(q, a, x)
  BY <1>1, <1>2, InAppend
<1> HIDE DEF q
<1>5. Typed(w, fv, h) /\ fv["client"] = q /\ fv["server"] = ev["server"]
  BY <1>0, <1>1, <1>4, RequeuedView, NodeIs DEF Inv
<1>6. \A s \in Socket : /\ Woken(fv, s) <=> Woken(ev, s)
                        /\ AskEvent(fv, s) <=> AskEvent(ev, s) \/ s = i
                        /\ Single(ev["client"], Told(0, Ask(s))) => Single(fv["client"], Told(0, Ask(s)))
                        /\ Answered(w, fv, s) <=> Answered(w, ev, s)
                        /\ WakesFirst(ev, s) => WakesFirst(fv, s)
  <2>1. \A s \in Socket : Woken(fv, s) <=> Woken(ev, s)
    BY <1>5 DEF Woken
  <2>2. \A s \in Socket : AskEvent(fv, s) <=> AskEvent(ev, s) \/ s = i
    BY <1>3, <1>4, <1>5 DEF AskEvent
  <2>3. \A s \in Socket : Single(ev["client"], Told(0, Ask(s))) => Single(fv["client"], Told(0, Ask(s)))
    <3>1. \A s \in Socket : ~(In(ev["client"], Told(0, Ask(s))) /\ Told(0, Ask(s)) = e)
      BY <1>3 DEF InHand, AskEvent
    <3>2. QED
      BY <1>4, <1>5, <3>1
  <2>4. \A s \in Socket : Answered(w, fv, s) <=> Answered(w, ev, s)
    BY <1>3, <1>4, <1>5 DEF Answered
  <2>5. \A s \in Socket : WakesFirst(ev, s) => WakesFirst(fv, s)
    BY <1>4, <1>5 DEF WakesFirst
  <2>6. QED
    BY <2>1, <2>2, <2>3, <2>4, <2>5
<1>7. \A s \in Socket : s # i => (Fresh(w, fv, h, s) <=> Fresh(w, ev, h, s))
  BY <1>6 DEF Fresh
<1>8. /\ GoingIn(w, ev, "client", 0) => GoingIn(w, fv, "client", 0)
      /\ \A s : GoingIn(w, ev, "server", s) => GoingIn(w, fv, "server", s)
  BY <1>4, <1>5 DEF GoingIn
<1>9. ClientSound(w, fv, h)
  <2>1. CASE GoingIn(w, ev, "client", 0)
    BY <1>8, <2>1 DEF ClientSound
  <2>2. CASE ~GoingIn(w, ev, "client", 0)
    BY <1>6, <1>7, <2>2 DEF Inv, ClientSound, ClientAwaits
  <2>3. QED
    BY <2>1, <2>2
<1>10. ServerSound(w, fv, h)
  BY <1>6, <1>8 DEF Inv, ServerSound, ServerAwaits
<1>11. \A s \in Socket : OnceOf(w, fv, h, s) /\ Begun(w, fv, h, s)
  <2>1. \A s \in Socket : s # i => OnceOf(w, fv, h, s) /\ Begun(w, fv, h, s)
    BY <1>5, <1>6, <1>7 DEF Inv, OnceOf, Begun
  <2>2. OnceOf(w, fv, h, i) /\ Begun(w, fv, h, i)
    BY <1>5, <1>6 DEF Inv, OnceOf, Begun, InHand
  <2>3. QED
    BY <2>1, <2>2
<1>12. QED
  BY <1>5, <1>9, <1>10, <1>11 DEF Inv, fv, q, e

\* The client sends its response, on whatever socket it has.
LEMMA ToServerSound ==
  ASSUME NEW w, NEW ev, NEW h, Inv(w, ev, h), NEW c \in Socket,
         InHand(w, ev, h, c), ServerAwaits(w, ev, c),
         \/ GoingIn(w, ev, "client", 0)
         \/ w.sockets["client"][0] = c /\ OpenAt(w, "client", c)
            => w.peers["client"][0].status = "connecting"
  PROVE  Inv(Sent(w, "client", 0, ToServer(c)), ev, h)
<1> DEFINE m == ToServer(c)
           v == Sent(w, "client", 0, m)
           s == w.sockets["client"][0]
<1>0. v = Sent(w, "client", 0, m)
  OBVIOUS
<1> HIDE DEF v
<1>1. "server" \in Node /\ "client" \in Node /\ 0 \in Index("client") /\ Other("client") = "server"
  BY NodeIs DEF Other
<1>2. m \in OnWire("server", 0) /\ m \in MessageTo("server")
  BY DEF OnWire, MessageTo, ResponseTo
<1>3. /\ Typed(v, ev, h)
      /\ v.ready = w.ready /\ v.sockets = w.sockets /\ v.peers = w.peers /\ v.pending = w.pending
      /\ \/ v = w
         \/ /\ s \in Socket /\ w.ready["client"][s] = "open"
            /\ \A k \in Node, t \in Socket :
                 v.wire[k][t] = IF k = "server" /\ t = s
                                THEN Append(w.wire[k][t], m) ELSE w.wire[k][t]
  BY <1>0, <1>1, <1>2, SentView, InvIsTyped
<1>4. CASE v = w
  BY <1>4 DEF v
<1>5. CASE v # w
  <2> HIDE DEF s
  <2>1. /\ s \in Socket /\ OpenAt(w, "client", s)
        /\ \A t \in Socket : v.wire["client"][t] = w.wire["client"][t]
        /\ \A t \in Socket : t # s => v.wire["server"][t] = w.wire["server"][t]
        /\ v.wire["server"][s] = Append(w.wire["server"][s], m)
    BY <1>1, <1>3, <1>5 DEF OpenAt
  <2>2. w.wire["server"][s] \in Seq(MessageTo("server"))
    BY <1>1, <2>1 DEF Inv, Typed, TypedWire, OnWire
  <2>3. \A e : In(v.wire["server"][s], e) <=> In(w.wire["server"][s], e) \/ e = m
    BY <1>2, <2>1, <2>2, InAppend
  <2>4. \A t : m = ToServer(t) => t = c
    BY MessagesDiffer
  <2>5. \A t \in Socket : AskWire(v, t) <=> AskWire(w, t)
    BY <2>1 DEF AskWire
  <2>6. \A t \in Socket : Fresh(v, ev, h, t) <=> Fresh(w, ev, h, t)
    BY <2>5 DEF Fresh
  <2> HIDE DEF m
  <2>7. \A t \in Socket : Answered(v, ev, t) => Answered(w, ev, t) \/ (t = c /\ s = c)
    <3>1. \A t \in Socket : In(v.wire["server"][t], ToServer(t))
                              => In(w.wire["server"][t], ToServer(t)) \/ (t = c /\ s = c)
      BY <2>1, <2>3, <2>4
    <3>2. QED
      BY <1>3, <2>1, <3>1 DEF Answered
  <2>8. /\ \A k, j : GoingIn(v, ev, k, j) <=> GoingIn(w, ev, k, j)
        /\ \A k, j : OpenAt(v, k, j) <=> OpenAt(w, k, j)
        /\ \A k, j : HasSocket(v, k, j) <=> HasSocket(w, k, j)
    BY <1>3 DEF GoingIn, ClosingAt, OpenAt, HasSocket
  <2>9. ClientSound(v, ev, h)
    <3>1. CASE GoingIn(w, ev, "client", 0)
      BY <2>8, <3>1 DEF ClientSound
    <3>2. CASE ~GoingIn(w, ev, "client", 0)
      <4>1. s = c => w.peers["client"][0].status = "connecting"
        BY <2>1, <3>2 DEF s
      <4>2. s = w.sockets["client"][0]
        BY DEF s
      <4>3. \A t \in Socket :
              w.peers["client"][0].challenge = t /\ Answered(v, ev, t) =>
               /\ w.peers["client"][0].status # "disconnected"
               /\ w.sockets["client"][0] = t /\ OpenAt(w, "client", t)
        BY <2>1, <2>7, <3>2, <4>1, <4>2 DEF Inv, ClientSound
      <4>4. QED
        BY <1>3, <2>6, <2>8, <3>2, <4>3 DEF Inv, ClientSound
    <3>3. QED
      BY <3>1, <3>2
  <2>10. ServerSound(v, ev, h)
    BY <1>3, <2>5, <2>7, <2>8 DEF Inv, ServerSound, ServerAwaits
  <2>11. \A t \in Socket : OnceOf(v, ev, h, t) /\ Begun(v, ev, h, t)
    <3>1. ~Fresh(v, ev, h, c)
      BY <2>6 DEF InHand, Fresh
    <3>2. \A t \in Socket : Single(w.wire["client"][t], Ask(t)) => Single(v.wire["client"][t], Ask(t))
      BY <2>1
    <3>3. QED
      BY <1>3, <2>5, <2>6, <2>7, <3>1, <3>2 DEF Inv, OnceOf, Begun
  <2>12. QED
    BY <1>3, <2>9, <2>10, <2>11 DEF Inv, v, m
<1>6. QED
  BY <1>4, <1>5

-----------------------------------------------------------------------------
(* The handlers of the core                                                *)

LEMMA DisconnectedSound ==
  ASSUME NEW w, NEW ev, NEW h, Inv(w, ev, h), NEW n \in Node, NEW i \in Index(n)
  PROVE  LET v == Disconnected(w, n, i) IN
         /\ Inv(v, ev, h) /\ v.sockets[n][i] = NoSocket
         /\ v.peers[n][i].status # "connected" /\ v.peers[n][i].challenge = 0
<1> DEFINE u == Removed(w, n, i)
           p == [w.peers[n][i] EXCEPT !.status = "disconnected", !.challenge = 0]
           v == Disconnected(w, n, i)
<1>1. Inv(u, ev, h) /\ u.peers = w.peers /\ u.sockets[n][i] = NoSocket
  <2> DEFINE x == Removed(w, n, i)
  <2>1. x = Removed(w, n, i)
    OBVIOUS
  <2> HIDE DEF x
  <2>2. Inv(x, ev, h) /\ x.peers = w.peers /\ x.sockets[n][i] = NoSocket
    BY <2>1, RemovedSound, RemovedView, InvIsTyped
  <2>3. QED
    BY <2>2 DEF x
<1>2. CASE w.peers[n][i] = NoPeer
  <2>1. v = u
    BY <1>1, <1>2 DEF Disconnected, IsKnown
  <2>2. QED
    BY <1>1, <1>2, <2>1 DEF NoPeer
<1>3. CASE w.peers[n][i] # NoPeer
  <2>1. v = Marked(u, n, i)
    BY <1>1, <1>3 DEF Disconnected, IsKnown
  <2>2. Inv(Marked(u, n, i), ev, h)
    BY <1>3, MarkedRemoved
  <2> HIDE DEF u
  <2>3. Marked(u, n, i) = Replaced(u, n, i, p)
    BY <1>1, MarkedIs
  <2>4. w.peers[n][i] \in PeerAt(n, i)
    BY PeerIs
  <2>5. p \in PeerAt(n, i) /\ p.status = "disconnected" /\ p.challenge = 0
    BY <2>4 DEF PeerAt
  <2> HIDE DEF p, v
  <2>6. v.sockets = u.sockets /\ v.peers[n][i] = p
    BY <1>1, <2>1, <2>3, <2>5, ReplacedView, InvIsTyped
  <2>7. QED
    BY <1>1, <2>1, <2>2, <2>5, <2>6 DEF v
<1>4. QED
  BY <1>2, <1>3

LEMMA GreetedClientSound ==
  ASSUME NEW w, NEW ev, NEW h, Inv(w, ev, h)
  PROVE  /\ Inv(Greeted(w, "client", 0), ev, h)
         /\ Greeted(w, "client", 0).peers["client"][0].status = "connecting"
<1> DEFINE q == w.peers["client"][0]
           p == [(IF q = NoPeer THEN NewPeer ELSE q) EXCEPT !.status = "connecting"]
           v == Replaced(w, "client", 0, p)
<1>1. "client" \in Node /\ 0 \in Index("client")
  BY NodeIs
<1>2. q \in PeerAt("client", 0)
  BY <1>1, PeerIs
<1>3. p \in PeerAt("client", 0) /\ p.status = "connecting" /\ p.challenge = q.challenge
  <2> DEFINE r == IF q = NoPeer THEN NewPeer ELSE q
  <2>1. r \in PeerAt("client", 0) /\ r.challenge = q.challenge
    BY <1>2 DEF PeerAt, NoPeer, NewPeer
  <2> HIDE DEF r
  <2>2. [r EXCEPT !.status = "connecting"] \in PeerAt("client", 0)
        /\ [r EXCEPT !.status = "connecting"].status = "connecting"
        /\ [r EXCEPT !.status = "connecting"].challenge = r.challenge
    BY <2>1 DEF PeerAt
  <2>3. QED
    BY <2>1, <2>2 DEF r
<1>4. Greeted(w, "client", 0) = v
  BY DEF Greeted, Replaced
<1> HIDE DEF p
<1>5. ClientPeerSound(w, ev, h, p)
  BY <1>3, PeersSound DEF ClientPeerSound
<1>6. Inv(v, ev, h)
  BY <1>1, <1>3, <1>5, ReplacedSound
<1>7. v.peers["client"][0] = p
  <2> DEFINE x == Replaced(w, "client", 0, p)
  <2>1. x = Replaced(w, "client", 0, p)
    OBVIOUS
  <2> HIDE DEF x
  <2>2. x.peers["client"][0] = p
    BY <1>1, <1>3, <2>1, ReplacedView, InvIsTyped
  <2>3. QED
    BY <2>2 DEF x
<1>8. QED
  BY <1>3, <1>4, <1>6, <1>7

LEMMA GreetedServerSound ==
  ASSUME NEW w, NEW ev, NEW h, Inv(w, ev, h), NEW i \in Socket,
         InHand(w, ev, h, i), ClientAwaits(w, ev, i)
  PROVE  Inv(Greeted(w, "server", i), ev, h)
<1> DEFINE o == w.peers["server"][i]
           p == [(IF o = NoPeer THEN NewPeer ELSE o) EXCEPT !.status = "connecting"]
           q == [p EXCEPT !.challenge = i]
           v == Replaced(w, "server", i, q)
<1>1. "server" \in Node /\ i \in Index("server")
  BY NodeIs
<1>2. o \in PeerAt("server", i)
  BY <1>1, PeerIs
<1>3. q \in PeerAt("server", i) /\ q.status = "connecting"
  BY <1>2 DEF PeerAt, NoPeer, NewPeer
<1>4. Greeted(w, "server", i) = Sent(v, "server", i, Ask(i))
  <2>1. IsWorld(w) /\ IsBook(w)
    BY TypedBook
  <2>2. IsPeer(p)
    BY <1>2 DEF PeerAt, IsPeer, PeerField, NoPeer, NewPeer
  <2> DEFINE known == Replaced(w, "server", i, p)
  <2>3. Asked(known, "server", i, i) = v
    <3> HIDE DEF p
    <3> QED BY <1>1, <2>1, <2>2, ReplacedTwice
  <2>4. QED
    BY <2>3 DEF Greeted, Replaced, Asked, Ask
<1> HIDE DEF q
<1>5. ServerPeerSound(w, ev, h, i, q)
  BY <1>3 DEF ServerPeerSound, InHand
<1>6. Inv(v, ev, h)
  BY <1>1, <1>3, <1>5, ReplacedSound
<1>7. v = Replaced(w, "server", i, q)
  OBVIOUS
<1> HIDE DEF v
<1>8. /\ v.ready = w.ready /\ v.sockets = w.sockets /\ v.wire = w.wire /\ v.pending = w.pending
      /\ v.peers["client"][0] = w.peers["client"][0]
  BY <1>1, <1>3, <1>7, ReplacedView, NodeIs DEF Inv
<1>9. InHand(v, ev, h, i)
  BY <1>8 DEF InHand, AskWire, Answered
<1>10. ClientAwaits(v, ev, i)
  BY <1>8 DEF ClientAwaits, GoingIn, ClosingAt, OpenAt
<1>11. QED
  BY <1>4, <1>6, <1>9, <1>10, AskSound

LEMMA ChallengedSound ==
  ASSUME NEW w, NEW ev, NEW h, Inv(w, ev, h), NEW c \in Socket,
         InHand(w, ev, h, c), ServerAwaits(w, ev, c),
         \/ GoingIn(w, ev, "client", 0)
         \/ w.sockets["client"][0] = c /\ OpenAt(w, "client", c)
            => w.peers["client"][0].status = "connecting"
  PROVE  Inv(Challenged(w, "client", 0, c), ev, h)
<1> DEFINE o == w.peers["client"][0]
           q == [o EXCEPT !.challenge = c]
           v == Replaced(w, "client", 0, q)
<1>1. "client" \in Node /\ 0 \in Index("client")
  BY NodeIs
<1>2. o \in PeerAt("client", 0)
  BY <1>1, PeerIs
<1>3. q \in PeerAt("client", 0) /\ q.status = o.status /\ q.challenge = c
  BY <1>2 DEF PeerAt
<1>4. \/ Challenged(w, "client", 0, c) = w
      \/ Challenged(w, "client", 0, c) = Sent(v, "client", 0, ToServer(c))
  <2>1. [w EXCEPT !.peers["client"][0].challenge = c] = v
    BY DEF Replaced
  <2>2. QED
    BY <2>1 DEF Challenged, ToServer
<1> HIDE DEF q
<1>5. ClientPeerSound(w, ev, h, q)
  <2>1. ~Answered(w, ev, c)
    BY DEF InHand
  <2>2. ClientPeerSound(w, ev, h, o)
    BY PeersSound
  <2>3. QED
    BY <1>3, <2>1, <2>2 DEF ClientPeerSound
<1>6. Inv(v, ev, h)
  BY <1>1, <1>3, <1>5, ReplacedSound
<1>7. v = Replaced(w, "client", 0, q)
  OBVIOUS
<1> HIDE DEF v
<1>8. /\ v.ready = w.ready /\ v.sockets = w.sockets /\ v.wire = w.wire /\ v.pending = w.pending
      /\ v.peers["client"][0] = q
      /\ \A s \in Socket : v.peers["server"][s] = w.peers["server"][s]
  BY <1>1, <1>3, <1>7, ReplacedView, NodeIs DEF Inv
<1>9. InHand(v, ev, h, c)
  BY <1>8 DEF InHand, AskWire, Answered
<1>10. ServerAwaits(v, ev, c)
  BY <1>8 DEF ServerAwaits, GoingIn, ClosingAt, OpenAt
<1>11. \/ GoingIn(v, ev, "client", 0)
       \/ v.sockets["client"][0] = c /\ OpenAt(v, "client", c)
          => v.peers["client"][0].status = "connecting"
  BY <1>3, <1>8 DEF GoingIn, ClosingAt, OpenAt
<1>12. QED
  BY <1>4, <1>6, <1>9, <1>10, <1>11, ToServerSound

\* Without the peer that had the key.
LEMMA WithoutOldSound ==
  ASSUME NEW w, NEW ev, NEW h, Inv(w, ev, h), NEW n \in Node, NEW i \in Index(n)
  PROVE  Inv(WithoutOld(w, n, i), ev, h)
<1> DEFINE old == {j \in Index(n) \ {i} : w.peers[n][j].key}
           k == CHOOSE j \in old : TRUE
           u == Replaced(w, n, k, NoPeer)
<1>1. CASE old = {}
  BY <1>1 DEF WithoutOld
<1>2. CASE old # {}
  <2>1. k \in Index(n) \ {i}
    BY <1>2
  <2>2. WithoutOld(w, n, i) = Readdressed(u, n, NoIndex)
    BY <1>2 DEF WithoutOld, Readdressed, Replaced
  <2> HIDE DEF k, old
  <2>3. n = "server"
    BY <2>1, NodeIs
  <2>4. NoPeer \in PeerAt(n, k) /\ NoPeer.status = "none" /\ NoPeer.challenge = 0
    BY DEF NoPeer, PeerAt
  <2>5. ServerPeerSound(w, ev, h, k, NoPeer)
    BY <2>4 DEF ServerPeerSound
  <2>6. Inv(u, ev, h)
    BY <2>1, <2>3, <2>4, <2>5, ReplacedSound
  <2>7. Inv(Readdressed(u, n, NoIndex), ev, h)
    BY <2>6, ReaddressedSound
  <2>8. QED
    BY <2>2, <2>7
<1>3. QED
  BY <1>1, <1>2

\* A response that is among the events, or as if it were.
LEMMA RespondedSound ==
  ASSUME NEW w, NEW ev, NEW h, Inv(w, ev, h), NEW n \in Node, NEW i \in Index(n),
         NEW m \in ResponseTo(n), In(ev[n], Told(i, m))
  PROVE  Inv(Responded(w, n, i, m), ev, h)
<1> DEFINE connected == [status |-> "connected", key |-> TRUE, challenge |-> 0]
           verified == Replaced(w, n, i, connected)
           response == [type |-> "response", signs |-> m.challenge, challenge |-> 0]
           answered == IF n = "client" THEN verified ELSE Sent(verified, n, i, response)
           refused == Removed(Marked(w, n, i), n, i)
           single == WithoutOld(answered, n, i)
           known == Readdressed(single, n, i)
           peer == w.peers[n][i]
<1>1. \/ Responded(w, n, i, m) = w
      \/ /\ peer # NoPeer
         /\ \/ Responded(w, n, i, m) = refused
            \/ /\ Responded(w, n, i, m) = known
               /\ peer.challenge # 0 /\ peer.challenge = m.signs
  BY DEF Responded, Replaced, Readdressed, IsKnown
<1>2. ASSUME peer # NoPeer
      PROVE  Inv(refused, ev, h)
  BY <1>2, MarkedRemoved
<1>3. ASSUME peer # NoPeer, peer.challenge # 0, peer.challenge = m.signs
      PROVE  Inv(known, ev, h)
  <2>1. connected \in PeerAt(n, i) /\ connected.status = "connected" /\ connected.challenge = 0
    BY DEF PeerAt
  <2>2. PICK c \in Socket : m = IF n = "client" THEN ToClient(c) ELSE ToServer(c)
    BY DEF ResponseTo
  <2>3. m.signs = c /\ (n = "server" => m.challenge = c)
    BY <2>2 DEF ToClient, ToServer
  <2>4. peer \in PeerAt(n, i)
    BY PeerIs
  <2>5. n = "server" => c = i
    <3>1. CASE n = "server"
      <4>1. peer.challenge \in {0, i}
        BY <2>4, <3>1 DEF PeerAt
      <4>2. QED
        BY <1>3, <2>3, <4>1
    <3>2. QED
      BY <3>1
  <2>6. Answered(w, ev, c)
    <3>1. CASE n = "client"
      BY <2>2, <3>1, NodeIs DEF Answered
    <3>2. CASE n = "server"
      BY <2>2, <2>5, <3>2 DEF Answered
    <3>3. QED
      BY <3>1, <3>2, NodeIs
  <2>7. ~Fresh(w, ev, h, c)
    BY <2>6 DEF Inv, OnceOf
  <2> HIDE DEF connected
  <2>8. n = "client" => ClientPeerSound(w, ev, h, connected)
    <3>1. CASE n = "client"
      <4>1. i = 0
        BY <3>1, NodeIs
      <4>2. \/ GoingIn(w, ev, "client", 0)
            \/ w.sockets["client"][0] = c /\ OpenAt(w, "client", c)
        BY <1>3, <2>3, <2>6, <3>1, <4>1 DEF Inv, ClientSound
      <4>3. \A s \in Socket : s # 0 /\ s # NoSocket
        BY NodeIs DEF NoSocket
      <4>4. QED
        BY <2>1, <2>7, <4>2, <4>3 DEF ClientPeerSound, HasSocket
    <3>2. QED
      BY <3>1
  <2>9. n = "server" => ServerPeerSound(w, ev, h, i, connected)
    <3>1. CASE n = "server"
      <4>1. i \in Socket
        BY <3>1, NodeIs
      <4>2. GoingIn(w, ev, "server", i) \/ OpenAt(w, "server", i)
        BY <1>3, <2>5, <2>6, <3>1, <4>1 DEF Inv, ServerSound
      <4>3. i \in h
        BY <1>3, <3>1, <4>1 DEF Inv, Begun
      <4>4. QED
        BY <4>2, <4>3 DEF ServerPeerSound
    <3>2. QED
      BY <3>1
  <2>10. Inv(verified, ev, h)
    BY <2>1, <2>8, <2>9, ReplacedSound
  <2>11. Inv(answered, ev, h)
    <3>1. CASE n = "client"
      BY <2>10, <3>1
    <3>2. CASE n = "server"
      <4>1. response = ToClient(i)
        BY <2>3, <2>5, <3>2 DEF ToClient
      <4>2. verified = Replaced(w, n, i, connected) /\ i \in Socket
        BY <3>2, NodeIs
      <4> HIDE DEF verified
      <4>3. verified.wire = w.wire /\ verified.pending = w.pending
        BY <2>1, <4>2, ReplacedView, InvIsTyped
      <4>4. Answered(verified, ev, i)
        BY <2>5, <2>6, <3>2, <4>3 DEF Answered
      <4>5. Inv(Sent(verified, "server", i, ToClient(i)), ev, h)
        BY <2>10, <4>2, <4>4, AnswerSound
      <4>6. QED
        BY <3>2, <4>1, <4>5
    <3>3. QED
      BY <3>1, <3>2, NodeIs
  <2> HIDE DEF answered
  <2>12. Inv(single, ev, h)
    BY <2>11, WithoutOldSound
  <2> HIDE DEF single
  <2>13. QED
    BY <2>12, ReaddressedSound
<1>4. QED
  BY <1>1, <1>2, <1>3

-----------------------------------------------------------------------------
(* A message is handled.                                                   *)

\* What is done with the first event, a message.
LEMMA PopTold ==
  ASSUME NEW w, NEW ev, NEW h, Inv(w, ev, h), NEW n \in Node, ev[n] # <<>>,
         NEW i, NEW m, Head(ev[n]) = Told(i, m)
  PROVE  Inv(w, Requeued(ev, n, Tail(ev[n])), h)
<1>1. /\ \A j \in Index(n) : Head(ev[n]) # Gone(n, j)
      /\ Head(ev[n]) # Wake("client", 0)
  BY EventsDiffer
<1>2. QED
  BY <1>1, PopSound

\* What is among the events when the first is gone.
LEMMA PoppedView ==
  ASSUME NEW w, NEW ev, NEW h, Inv(w, ev, h), NEW n \in Node, ev[n] # <<>>,
         NEW fv, fv = Requeued(ev, n, Tail(ev[n]))
  PROVE  /\ In(ev[n], Head(ev[n]))
         /\ \A m \in Node : \A e : In(fv[m], e) => In(ev[m], e)
         /\ \A m \in Node : \A e : In(ev[m], e) => In(fv[m], e) \/ (m = n /\ e = Head(ev[n]))
         /\ Single(ev[n], Head(ev[n])) => ~In(fv[n], Head(ev[n]))
<1>1. Typed(w, ev, h) /\ ev[n] \in Seq(EventOf(n))
  BY DEF Inv, Typed, TypedEvents
<1>2. /\ Tail(ev[n]) \in Seq(EventOf(n))
      /\ \A e : In(ev[n], e) <=> In(Tail(ev[n]), e) \/ e = Head(ev[n])
      /\ \A e : Single(ev[n], e) => ~(In(Tail(ev[n]), e) /\ e = Head(ev[n]))
  BY <1>1, InTail
<1>3. fv[n] = Tail(ev[n]) /\ \A m \in Node \ {n} : fv[m] = ev[m]
  <2> DEFINE q == Tail(ev[n])
  <2>1. q \in Seq(EventOf(n)) /\ fv = Requeued(ev, n, q)
    BY <1>2
  <2> HIDE DEF q
  <2>2. fv[n] = q /\ \A m \in Node \ {n} : fv[m] = ev[m]
    BY <1>1, <2>1, RequeuedView
  <2>3. QED
    BY <2>2 DEF q
<1> DEFINE x == Head(ev[n])
           t == Tail(ev[n])
<1>4. /\ \A e : In(ev[n], e) <=> In(t, e) \/ e = x
      /\ Single(ev[n], x) => ~In(t, x)
      /\ fv[n] = t /\ \A m \in Node \ {n} : fv[m] = ev[m]
  BY <1>2, <1>3
<1> HIDE DEF x, t
<1>5. /\ In(ev[n], x)
      /\ \A m \in Node : \A e : In(fv[m], e) => In(ev[m], e)
      /\ \A m \in Node : \A e : In(ev[m], e) => In(fv[m], e) \/ (m = n /\ e = x)
      /\ Single(ev[n], x) => ~In(fv[n], x)
  BY <1>4
<1>6. QED
  BY <1>5 DEF x

LEMMA AskHandled ==
  ASSUME NEW w, NEW ev, NEW h, Inv(w, ev, h), ev["client"] # <<>>,
         NEW c \in Socket, Head(ev["client"]) = Told(0, Ask(c)),
         NEW fv, fv = Requeued(ev, "client", Tail(ev["client"]))
  PROVE  Inv(Challenged(w, "client", 0, c), fv, h)
<1>1. Inv(w, fv, h)
  BY PopTold, NodeIs
<1>2. /\ In(ev["client"], Told(0, Ask(c)))
      /\ \A m \in Node : \A e : In(fv[m], e) => In(ev[m], e)
      /\ \A m \in Node : \A e :
           In(ev[m], e) => In(fv[m], e) \/ (m = "client" /\ e = Told(0, Ask(c)))
      /\ Single(ev["client"], Told(0, Ask(c))) => ~In(fv["client"], Told(0, Ask(c)))
  <2> DEFINE n == "client"
  <2>1. n \in Node /\ ev[n] # <<>> /\ fv = Requeued(ev, n, Tail(ev[n]))
    BY NodeIs
  <2> HIDE DEF n
  <2>2. /\ In(ev[n], Head(ev[n]))
        /\ \A m \in Node : \A e : In(fv[m], e) => In(ev[m], e)
        /\ \A m \in Node : \A e : In(ev[m], e) => In(fv[m], e) \/ (m = n /\ e = Head(ev[n]))
        /\ Single(ev[n], Head(ev[n])) => ~In(fv[n], Head(ev[n]))
    BY <2>1, PoppedView
  <2>3. QED
    BY <2>2 DEF n
<1>3. OnceOf(w, ev, h, c) /\ AskEvent(ev, c)
  BY <1>2 DEF Inv, AskEvent
<1>4. Fresh(w, ev, h, c)
  BY <1>3 DEF Fresh
<1>5. InHand(w, fv, h, c)
  <2>1. c \in h /\ ~Woken(ev, c) /\ ~AskWire(w, c) /\ ~Answered(w, ev, c)
    BY <1>3, <1>4 DEF OnceOf
  <2>2. ~AskEvent(fv, c)
    BY <1>2, <1>3 DEF OnceOf, AskEvent
  <2>3. ~Woken(fv, c)
    BY <1>2, <2>1, NodeIs DEF Woken
  <2>4. ~Answered(w, fv, c)
    BY <1>2, <2>1, NodeIs DEF Answered
  <2>5. QED
    BY <2>1, <2>2, <2>3, <2>4 DEF InHand
<1>6. \A m \in Node : \A i : GoingIn(w, ev, m, i) => GoingIn(w, fv, m, i)
  BY <1>2, EventsDiffer DEF GoingIn
<1>7. ServerAwaits(w, fv, c)
  <2>1. \/ GoingIn(w, ev, "server", c) \/ OpenAt(w, "server", c)
        \/ /\ w.peers["server"][c].status # "connected"
           /\ w.peers["server"][c].challenge = 0
    BY <1>3 DEF Inv, ServerSound
  <2>2. QED
    BY <1>6, <2>1, NodeIs DEF ServerAwaits
<1>8. \/ GoingIn(w, fv, "client", 0)
      \/ w.sockets["client"][0] = c /\ OpenAt(w, "client", c)
         => w.peers["client"][0].status = "connecting"
  <2>1. ClientAwaits(w, ev, c)
    BY <1>4, ClientDoesAwait
  <2>2. ev["client"] \in Seq(EventOf("client"))
    BY NodeIs DEF Inv, Typed, TypedEvents
  <2>3. ~Before(ev["client"], Wake("client", 0), Told(0, Ask(c)))
    BY <2>2, InTail
  <2>4. QED
    BY <1>6, <2>1, <2>3, NodeIs DEF ClientAwaits, WakesFirst
<1>9. QED
  BY <1>1, <1>5, <1>7, <1>8, ChallengedSound

LEMMA ReceivedSound ==
  ASSUME NEW w, NEW ev, NEW h, Inv(w, ev, h), NEW n \in Node, ev[n] # <<>>,
         NEW i \in Index(n), NEW m \in MessageTo(n), Head(ev[n]) = Told(i, m),
         NEW pinged \in BOOLEAN
  PROVE  Inv(Received(w, n, i, m, pinged), Requeued(ev, n, Tail(ev[n])), h)
<1> DEFINE kept == Retained(w.pending[n], i)
           timed == IF w.peers[n][i].key THEN Listed(w, n, kept) ELSE w
           longer == Append(timed.pending[n], Waits(i, m))
           waiting == Listed(timed, n, longer)
           a == timed.address[n]
           fv == Requeued(ev, n, Tail(ev[n]))
           v == Received(w, n, i, m, pinged)
<1>1. Inv(timed, ev, h)
  <2>1. w.pending[n] \in Seq(WaitsFor(n))
    BY DEF Inv, Typed, TypedPending
  <2>2. kept \in Seq(WaitsFor(n)) /\ \A e : In(kept, e) => In(w.pending[n], e)
    BY <2>1, RetainedIsPart
  <2> HIDE DEF kept
  <2>3. \A s \in Socket :
          /\ n = "server" /\ In(kept, Waits(s, ToServer(s))) => Answered(w, ev, s)
          /\ n = "client" /\ In(kept, Waits(0, ToClient(s))) => Answered(w, ev, s)
    BY <2>2 DEF Answered
  <2>4. Inv(Listed(w, n, kept), ev, h)
    BY <2>2, <2>3, PendingSound
  <2>5. QED
    BY <2>4
<1>2. /\ m.type = "challenge" => v = Challenged(timed, n, i, m.challenge)
      /\ m.type = "response" =>
           \/ v = waiting \/ v = Responded(timed, n, i, m)
           \/ a \in Index(n) /\ v = Sent(waiting, n, a, Ping)
      /\ m.type \notin {"challenge", "response"} => v = timed \/ v = Sent(timed, n, i, Pong)
  BY DEF Received, Listed, Waits, Ping, Pong, IsConnected
<1> HIDE DEF timed
<1>3. In(ev[n], Told(i, m))
  BY PoppedView
<1>4. ASSUME m \in ResponseTo(n)
      PROVE  Inv(waiting, ev, h) /\ Inv(Responded(timed, n, i, m), ev, h)
  <2>1. timed.pending[n] \in Seq(WaitsFor(n)) /\ Waits(i, m) \in WaitsFor(n)
    BY <1>1, <1>4 DEF Inv, Typed, TypedPending, WaitsFor
  <2>2. longer \in Seq(WaitsFor(n)) /\ \A e : In(longer, e) <=> In(timed.pending[n], e) \/ e = Waits(i, m)
    BY <2>1, InAppend
  <2> HIDE DEF longer
  <2>3. \A s \in Socket :
          /\ n = "server" /\ In(longer, Waits(s, ToServer(s))) => Answered(timed, ev, s)
          /\ n = "client" /\ In(longer, Waits(0, ToClient(s))) => Answered(timed, ev, s)
    BY <1>3, <2>2, EventsDiffer DEF Answered
  <2>4. QED
    BY <1>1, <1>3, <1>4, <2>2, <2>3, PendingSound, RespondedSound
<1> HIDE DEF longer
<1>5. m.type = "response" => m \in ResponseTo(n)
  BY DEF MessageTo, Ask, Ping, Pong
<1>6. m.type = "challenge" => n = "client" /\ \E c \in Socket : m = Ask(c)
  <2>1. \A s : ToClient(s).type = "response" /\ ToServer(s).type = "response"
    BY DEF ToClient, ToServer
  <2>2. Ping.type = "ping" /\ Pong.type = "pong"
    BY DEF Ping, Pong
  <2>3. m.type = "challenge" => m \notin ResponseTo(n)
    BY <2>1 DEF ResponseTo
  <2>4. QED
    BY <2>2, <2>3 DEF MessageTo
<1> HIDE DEF waiting, a
<1>7. Inv(Sent(timed, n, i, Pong), ev, h)
  BY <1>1, PingSound
<1>8. ASSUME m \in ResponseTo(n), a \in Index(n)
      PROVE  Inv(Sent(waiting, n, a, Ping), ev, h)
  BY <1>4, <1>8, PingSound
<1>9. CASE m.type = "challenge"
  <2>1. PICK c \in Socket : m = Ask(c)
    BY <1>6, <1>9
  <2>2. n = "client" /\ i = 0 /\ m.challenge = c
    BY <1>6, <1>9, <2>1, NodeIs DEF Ask
  <2>3. fv = Requeued(ev, "client", Tail(ev["client"])) /\ ev["client"] # <<>>
        /\ Head(ev["client"]) = Told(0, Ask(c))
    BY <2>1, <2>2
  <2> HIDE DEF fv
  <2>4. Inv(Challenged(timed, "client", 0, c), fv, h)
    BY <1>1, <2>3, AskHandled
  <2>5. QED
    BY <1>2, <1>9, <2>2, <2>4 DEF fv
<1>10. CASE m.type # "challenge"
  <2> HIDE DEF v
  <2>1. Inv(v, ev, h)
    <3>1. CASE m.type = "response"
      <4>1. m \in ResponseTo(n)
        BY <1>5, <3>1
      <4>2. Inv(waiting, ev, h) /\ Inv(Responded(timed, n, i, m), ev, h)
        BY <1>4, <4>1
      <4>3. a \in Index(n) => Inv(Sent(waiting, n, a, Ping), ev, h)
        BY <1>8, <4>1
      <4>4. QED
        BY <1>2, <3>1, <4>2, <4>3
    <3>2. CASE m.type # "response"
      BY <1>1, <1>2, <1>7, <1>10, <3>2
    <3>3. QED
      BY <3>1, <3>2
  <2>2. Inv(v, Requeued(ev, n, Tail(ev[n])), h)
    BY <2>1, PopTold
  <2>3. QED
    BY <2>2 DEF v
<1>11. QED
  BY <1>9, <1>10

-----------------------------------------------------------------------------
(* The steps of the core                                                   *)

InvNow == Inv(World, events, handled)

LEMMA PrimedInv ==
  ASSUME Inv(World', events', handled') PROVE InvNow'
BY DEF InvNow, Inv, Typed, IsWorld, TypedSockets, TypedWire, TypedPeers, TypedPending, TypedEvents,
       IsTable, IsSocketTable, IsPair, OnceOf, Begun, ClientSound, ServerSound, GoingIn, ClosingAt, HasSocket,
       OpenAt, Fresh, Woken, AskWire, AskEvent, Answered, Single, In, WakesFirst, Before

LEMMA InvBecomes ==
  ASSUME NEW w, Becomes(w), Inv(w, events', handled') PROVE InvNow'
<1>1. World' = [ready |-> w.ready, wire |-> w.wire, sockets |-> w.sockets,
                peers |-> w.peers, address |-> w.address, pending |-> w.pending]
  BY DEF World, Becomes
<1>2. w = [f \in Field |-> w[f]]
  BY DEF Inv, Typed, IsWorld
<1>3. World' = w
  BY <1>1, <1>2 DEF Field
<1>4. QED
  BY <1>3, PrimedInv

\* The world is made of the variables.
LEMMA WorldIs ==
  /\ World.ready = ready /\ World.wire = wire /\ World.sockets = sockets
  /\ World.peers = peers /\ World.address = address /\ World.pending = pending
BY DEF World

LEMMA WakeHandled ==
  ASSUME NEW w, NEW ev, NEW h, Inv(w, ev, h), NEW n \in Node, ev[n] # <<>>,
         NEW i \in Index(n), Head(ev[n]) = Wake(n, i),
         NEW fv, fv = Requeued(ev, n, Tail(ev[n]))
  PROVE  Inv(Greeted(w, n, i), fv, h)
<1>1. CASE n = "client"
  <2> DEFINE v == Greeted(w, "client", 0)
  <2>1. i = 0 /\ Inv(v, ev, h) /\ v.peers["client"][0].status = "connecting"
    BY <1>1, NodeIs, GreetedClientSound
  <2> HIDE DEF v
  <2>2. \A j \in Index(n) : Head(ev[n]) # Gone(n, j)
    BY EventsDiffer
  <2>3. Inv(v, Requeued(ev, n, Tail(ev[n])), h)
    BY <2>1, <2>2, PopSound
  <2>4. QED
    BY <1>1, <2>1, <2>3 DEF v
<1>2. CASE n = "server"
  <2>1. i \in Socket
    BY <1>2, NodeIs
  <2>2. Inv(w, fv, h)
    <3>1. \A j \in Index(n) : Head(ev[n]) # Gone(n, j)
      BY EventsDiffer
    <3>2. n # "client"
      BY <1>2
    <3>3. QED
      BY <3>1, <3>2, PopSound
  <2>3. /\ In(ev["server"], Wake("server", i))
        /\ \A m \in Node : \A e : In(fv[m], e) => In(ev[m], e)
        /\ \A m \in Node : \A e :
             In(ev[m], e) => In(fv[m], e) \/ (m = "server" /\ e = Wake("server", i))
        /\ Single(ev["server"], Wake("server", i)) => ~In(fv["server"], Wake("server", i))
    <3>1. /\ In(ev[n], Head(ev[n]))
          /\ \A m \in Node : \A e : In(fv[m], e) => In(ev[m], e)
          /\ \A m \in Node : \A e : In(ev[m], e) => In(fv[m], e) \/ (m = n /\ e = Head(ev[n]))
          /\ Single(ev[n], Head(ev[n])) => ~In(fv[n], Head(ev[n]))
      BY PoppedView
    <3>2. QED
      BY <1>2, <3>1
  <2>4. OnceOf(w, ev, h, i) /\ Woken(ev, i)
    BY <2>1, <2>3 DEF Inv, Woken
  <2>5. Fresh(w, ev, h, i)
    BY <2>4 DEF Fresh
  <2>6. InHand(w, fv, h, i)
    <3>1. i \in h /\ ~AskWire(w, i) /\ ~AskEvent(ev, i) /\ ~Answered(w, ev, i)
      BY <2>4, <2>5 DEF OnceOf
    <3>2. ~Woken(fv, i)
      BY <2>3, <2>4 DEF OnceOf, Woken
    <3>3. ~AskEvent(fv, i)
      BY <2>3, <3>1, NodeIs DEF AskEvent
    <3>4. ~Answered(w, fv, i)
      BY <2>3, <3>1, NodeIs DEF Answered
    <3>5. QED
      BY <3>1, <3>2, <3>3, <3>4 DEF InHand
  <2>7. ClientAwaits(w, fv, i)
    <3>1. ClientAwaits(w, ev, i)
      BY <2>1, <2>5, ClientDoesAwait
    <3>2. fv["client"] = ev["client"]
      <4> DEFINE q == Tail(ev[n])
      <4>1. q \in Seq(EventOf(n)) /\ fv = Requeued(ev, n, q)
        BY InTail DEF Inv, Typed, TypedEvents
      <4> HIDE DEF q
      <4>2. \A m \in Node \ {n} : fv[m] = ev[m]
        BY <4>1, RequeuedView, InvIsTyped
      <4>3. QED
        BY <1>2, <4>2, NodeIs
    <3>3. QED
      BY <3>1, <3>2 DEF ClientAwaits, GoingIn, WakesFirst
  <2>8. Inv(Greeted(w, "server", i), fv, h)
    BY <2>1, <2>2, <2>6, <2>7, GreetedServerSound
  <2>9. QED
    BY <1>2, <2>8
<1>3. QED
  BY <1>1, <1>2, NodeIs

LEMMA GoneHandled ==
  ASSUME NEW w, NEW ev, NEW h, Inv(w, ev, h), NEW n \in Node, ev[n] # <<>>,
         NEW i \in Index(n), Head(ev[n]) = Gone(n, i)
  PROVE  Inv(Disconnected(w, n, i), Requeued(ev, n, Tail(ev[n])), h)
<1> DEFINE v == Disconnected(w, n, i)
<1>1. /\ Inv(v, ev, h) /\ v.sockets[n][i] = NoSocket
      /\ v.peers[n][i].status # "connected" /\ v.peers[n][i].challenge = 0
  BY DisconnectedSound
<1> HIDE DEF v
<1>2. Head(ev[n]) # Wake("client", 0) /\ \A j \in Index(n) : Head(ev[n]) = Gone(n, j) => j = i
  BY EventsDiffer
<1>3. Inv(v, Requeued(ev, n, Tail(ev[n])), h)
  BY <1>1, <1>2, PopSound
<1>4. QED
  BY <1>3 DEF v

LEMMA HandleEventSound ==
  ASSUME InvNow, NEW n \in Node, HandleEvent(n) PROVE InvNow'
<1> DEFINE e == Head(events[n])
           fv == Requeued(events, n, Tail(events[n]))
<1>1. /\ Inv(World, events, handled) /\ events[n] # <<>>
      /\ events' = fv /\ handled' = handled
  BY DEF InvNow, HandleEvent, Requeued
<1>2. e \in EventOf(n)
  <2>1. events[n] \in Seq(EventOf(n))
    BY <1>1 DEF Inv, Typed, TypedEvents
  <2>2. QED
    BY <1>1, <2>1, InTail
<1> HIDE DEF fv
<1>3. ASSUME NEW i \in Index(n), e = Wake(n, i)
      PROVE  InvNow'
  <2>1. e.type = "new" /\ e.index = i
    BY <1>3 DEF Wake
  <2>2. Becomes(Greeted(World, n, i))
    BY <2>1 DEF HandleEvent
  <2>3. Inv(Greeted(World, n, i), fv, handled)
    BY <1>1, <1>3, WakeHandled DEF fv
  <2>4. QED
    BY <1>1, <2>2, <2>3, InvBecomes
<1>4. ASSUME NEW i \in Index(n), e = Gone(n, i)
      PROVE  InvNow'
  <2>1. e.type = "gone" /\ e.index = i
    BY <1>4 DEF Gone
  <2>2. Becomes(Disconnected(World, n, i))
    BY <2>1 DEF HandleEvent
  <2>3. Inv(Disconnected(World, n, i), fv, handled)
    BY <1>1, <1>4, GoneHandled DEF fv
  <2>4. QED
    BY <1>1, <2>2, <2>3, InvBecomes
<1>5. ASSUME NEW i \in Index(n), NEW m \in MessageTo(n), e = Told(i, m)
      PROVE  InvNow'
  <2>1. e.type = "message" /\ e.index = i /\ e.message = m
    BY <1>5 DEF Told
  <2>2. PICK pinged \in BOOLEAN : Becomes(Received(World, n, i, m, pinged))
    BY <2>1 DEF HandleEvent
  <2>3. Inv(Received(World, n, i, m, pinged), fv, handled)
    BY <1>1, <1>5, ReceivedSound DEF fv
  <2>4. QED
    BY <1>1, <2>2, <2>3, InvBecomes
<1>6. QED
  BY <1>2, <1>3, <1>4, <1>5 DEF EventOf

\* The peer whose place is taken is lost, with a response that is as if it came last.
LEMMA TakePlaceSound ==
  ASSUME InvNow, NEW n \in Node, TakePlace(n) PROVE InvNow'
<1> DEFINE p == Head(pending[n])
           rest == Tail(pending[n])
           popped == Listed(World, n, rest)
           old == address[n]
           freed == IF IsKnown(World, n, old) THEN Removed(Marked(popped, n, old), n, old)
                    ELSE popped
           i == p.index
           m == p.response
           queue == Append(events[n], Told(i, m))
           gv == Requeued(events, n, queue)
<1>1. Inv(World, events, handled) /\ pending[n] # <<>> /\ World.pending = pending
  BY WorldIs DEF InvNow, TakePlace
<1>2. pending[n] \in Seq(WaitsFor(n))
  BY <1>1 DEF Inv, Typed, TypedPending
<1>3. /\ rest \in Seq(WaitsFor(n)) /\ p \in WaitsFor(n)
      /\ \A x : In(pending[n], x) <=> In(rest, x) \/ x = p
  BY <1>1, <1>2, InTail
<1>4. /\ Becomes(Responded(freed, n, i, m))
      /\ events' = events /\ handled' = handled
  BY <1>1 DEF TakePlace, Listed
<1>5. i \in Index(n) /\ m \in ResponseTo(n) /\ p = Waits(i, m)
  BY <1>3 DEF WaitsFor, Waits
<1> HIDE DEF p, rest, i, m
<1>6. /\ TypedEvents(events) /\ events[n] \in Seq(EventOf(n)) /\ Told(i, m) \in EventOf(n)
  BY <1>1, <1>5 DEF Inv, Typed, TypedEvents, EventOf, MessageTo
<1>7. Inv(World, gv, handled)
  <2>1. \A s \in Socket :
          /\ n = "server" => /\ Told(i, m) # Wake("server", s)
                             /\ Told(i, m) = Told(s, ToServer(s)) => Answered(World, events, s)
          /\ n = "client" => /\ Told(i, m) # Told(0, Ask(s))
                             /\ Told(i, m) = Told(0, ToClient(s)) => Answered(World, events, s)
    <3>1. n = "client" => \A s : m # Ask(s)
      BY <1>5, MessagesDiffer DEF ResponseTo
    <3>2. In(World.pending[n], Waits(i, m))
      BY <1>1, <1>3, <1>5
    <3>3. QED
      BY <3>1, <3>2, EventsDiffer DEF Answered
  <2>2. QED
    BY <1>1, <1>6, <2>1, QueueSound
<1>8. In(gv[n], Told(i, m)) /\ TypedEvents(gv)
  <2>1. queue \in Seq(EventOf(n)) /\ In(queue, Told(i, m))
    BY <1>6, InAppend
  <2> HIDE DEF queue
  <2>2. gv[n] = queue
    <3>1. gv = Requeued(events, n, queue)
      OBVIOUS
    <3> HIDE DEF gv
    <3>2. QED
      BY <1>1, <2>1, <3>1, RequeuedView, InvIsTyped
  <2>3. QED
    BY <1>7, <2>1, <2>2 DEF Inv, Typed
<1> HIDE DEF gv
<1>9. Inv(popped, gv, handled) /\ popped.peers = World.peers
  <2>1. \A s \in Socket :
          /\ n = "server" /\ In(rest, Waits(s, ToServer(s))) => Answered(World, gv, s)
          /\ n = "client" /\ In(rest, Waits(0, ToClient(s))) => Answered(World, gv, s)
    BY <1>1, <1>3 DEF Answered
  <2>2. popped = Listed(World, n, rest)
    OBVIOUS
  <2> HIDE DEF popped
  <2>3. QED
    BY <1>3, <1>7, <2>1, <2>2, PendingSound, PendingView, InvIsTyped
<1> HIDE DEF popped, old
<1>10. Inv(freed, gv, handled)
  <2>1. CASE IsKnown(World, n, old)
    <3>1. old \in Index(n) /\ popped.peers[n][old] # NoPeer
      BY <1>9, <2>1 DEF IsKnown
    <3>2. QED
      BY <1>9, <2>1, <3>1, MarkedRemoved
  <2>2. CASE ~IsKnown(World, n, old)
    BY <1>9, <2>2
  <2>3. QED
    BY <2>1, <2>2
<1> HIDE DEF freed
<1>11. Inv(Responded(freed, n, i, m), gv, handled)
  BY <1>5, <1>8, <1>10, RespondedSound
<1>12. Inv(Responded(freed, n, i, m), events, handled)
  BY <1>5, <1>6, <1>11, DropSound DEF gv
<1>13. QED
  BY <1>4, <1>12, InvBecomes

LEMMA DisconnectStaleSound ==
  ASSUME InvNow, NEW n \in Node, NEW i \in Index(n), DisconnectStale(n, i) PROVE InvNow'
<1>1. Inv(World, events, handled) /\ World.peers[n][i].status = "connected"
  BY DEF InvNow, DisconnectStale, IsConnected
<1>2. World.peers[n][i] # NoPeer
  BY <1>1 DEF NoPeer
<1>3. n = "client" => World.peers["client"][0].status # "connecting"
  BY <1>1, NodeIs
<1>4. Inv(Marked(World, n, i), events, handled)
  BY <1>1, <1>2, <1>3, MarkedSound
<1>5. QED
  BY <1>4, InvBecomes DEF DisconnectStale

LEMMA SendPingSound ==
  ASSUME InvNow, NEW n \in Node, NEW i \in Index(n), SendPing(n, i) PROVE InvNow'
<1>1. Inv(Sent(World, n, i, Ping), events, handled)
  BY PingSound DEF InvNow
<1>2. Becomes(Sent(World, n, i, Ping)) /\ events' = events /\ handled' = handled
  BY DEF SendPing, Ping
<1>3. QED
  BY <1>1, <1>2, InvBecomes

LEMMA RemoveDisconnectedSound ==
  ASSUME InvNow, NEW i \in Socket, RemoveDisconnected(i) PROVE InvNow'
<1> DEFINE u == Replaced(World, "server", i, NoPeer)
           v == IF peers["server"][i].key THEN Readdressed(u, "server", NoIndex) ELSE u
<1>1. Inv(World, events, handled) /\ "server" \in Node /\ i \in Index("server")
  BY NodeIs DEF InvNow
<1>2. NoPeer \in PeerAt("server", i) /\ ServerPeerSound(World, events, handled, i, NoPeer)
  BY DEF NoPeer, PeerAt, ServerPeerSound
<1>3. Inv(u, events, handled)
  BY <1>1, <1>2, ReplacedSound
<1>4. /\ Becomes(v) /\ events' = events /\ handled' = handled
  BY DEF RemoveDisconnected, netVars, jsVars, Becomes, Replaced, Readdressed, World
<1> HIDE DEF u
<1>5. Inv(v, events, handled)
  BY <1>1, <1>3, ReaddressedSound
<1>6. QED
  BY <1>4, <1>5, InvBecomes

-----------------------------------------------------------------------------
(* The steps of the sockets                                                *)

Readied(w, n, s, x) == [w EXCEPT !.ready[n][s] = x]

LEMMA ReadiedView ==
  ASSUME NEW w, NEW ev, NEW h, Typed(w, ev, h), NEW n \in Node, NEW s \in Socket,
         NEW x \in ReadyState, NEW v, v = Readied(w, n, s, x)
  PROVE  /\ Typed(v, ev, h)
         /\ v.sockets = w.sockets /\ v.wire = w.wire /\ v.peers = w.peers
         /\ v.address = w.address /\ v.pending = w.pending
         /\ \A m \in Node, t \in Socket :
              v.ready[m][t] = IF m = n /\ t = s THEN x ELSE w.ready[m][t]
<1>1. /\ IsWorld(v) /\ v.sockets = w.sockets /\ v.wire = w.wire /\ v.peers = w.peers
      /\ v.address = w.address /\ v.pending = w.pending
      /\ v.ready = [w.ready EXCEPT ![n][s] = x]
  BY DEF Readied, Typed, IsWorld, Field
<1>2. w.ready = [m \in Node |-> [t \in Socket |-> w.ready[m][t]]]
  BY DEF Typed, TypedSockets, IsSocketTable
<1>3. v.ready = [m \in Node |-> [t \in Socket |-> IF m = n /\ t = s THEN x ELSE w.ready[m][t]]]
  BY <1>1, <1>2
<1>4. \A m \in Node : \A t \in Socket :
        v.ready[m][t] = IF m = n /\ t = s THEN x ELSE w.ready[m][t]
  BY <1>3
<1>5. IsSocketTable(v.ready)
  BY <1>3, <1>4 DEF IsSocketTable
<1>6. \A m \in Node : \A t \in Socket : v.ready[m][t] \in ReadyState
  BY <1>4 DEF Typed, TypedSockets
<1>7. TypedSockets(v)
  BY <1>1, <1>5, <1>6 DEF Typed, TypedSockets
<1>8. TypedWire(v) /\ TypedPeers(v) /\ TypedPending(v)
  BY <1>1 DEF Typed, TypedWire, TypedPeers, TypedPending
<1>9. QED
  BY <1>1, <1>4, <1>7, <1>8 DEF Typed

\* The server accepts a socket that it gives handlers later.
LEMMA AcceptedSound ==
  ASSUME NEW w, NEW ev, NEW h, Inv(w, ev, h), NEW s \in Socket, w.ready["server"][s] = "none",
         NEW v, v = Readied(w, "server", s, "open")
  PROVE  Inv(v, ev, h)
<1>1. "server" \in Node /\ "open" \in ReadyState /\ Typed(w, ev, h)
  BY NodeIs DEF ReadyState, Inv
<1>2. /\ Typed(v, ev, h)
      /\ v.sockets = w.sockets /\ v.wire = w.wire /\ v.peers = w.peers
      /\ v.address = w.address /\ v.pending = w.pending
      /\ \A m \in Node, t \in Socket :
           v.ready[m][t] = IF m = "server" /\ t = s THEN "open" ELSE w.ready[m][t]
  BY <1>1, ReadiedView
<1>3. \A t : /\ AskWire(v, t) <=> AskWire(w, t)
             /\ Answered(v, ev, t) <=> Answered(w, ev, t)
             /\ Fresh(v, ev, h, t) <=> Fresh(w, ev, h, t)
             /\ OnceOf(v, ev, h, t) <=> OnceOf(w, ev, h, t)
  BY <1>2, SameTokens
<1>4. s \notin h
  BY DEF Inv, Begun
<1>5. /\ \A t \in Socket : v.ready["client"][t] = w.ready["client"][t]
      /\ \A t \in Socket : t # s => v.ready["server"][t] = w.ready["server"][t]
      /\ v.ready["server"][s] = "open"
  BY <1>2, NodeIs
<1>6. /\ GoingIn(v, ev, "client", 0) <=> GoingIn(w, ev, "client", 0)
      /\ \A t \in Socket : t # s => (GoingIn(v, ev, "server", t) <=> GoingIn(w, ev, "server", t))
  BY <1>5 DEF GoingIn, ClosingAt, IndexOf
<1>7. \A t \in Socket : OnceOf(v, ev, h, t) /\ Begun(v, ev, h, t)
  BY <1>2, <1>3, <1>4, <1>5 DEF Inv, Begun
<1>8. ClientSound(v, ev, h)
  <2>1. w.sockets["client"][0] \in {NoSocket} \cup Socket
    BY NodeIs DEF Inv, Typed, TypedSockets, SocketAt
  <2>2. QED
    BY <1>2, <1>3, <1>5, <1>6, <2>1 DEF Inv, ClientSound, HasSocket, OpenAt
<1>9. ServerSound(v, ev, h)
  BY <1>2, <1>3, <1>4, <1>5, <1>6 DEF Inv, ServerSound, OpenAt
<1>10. QED
  BY <1>2, <1>7, <1>8, <1>9 DEF Inv

\* The client hears that its socket is open, before any challenge of it.
LEMMA OpenedSound ==
  ASSUME NEW w, NEW ev, NEW h, Inv(w, ev, h), NEW s \in Socket,
         w.ready["client"][s] = "connecting", In(ev["client"], Wake("client", 0)),
         NEW v, v = Readied(w, "client", s, "open")
  PROVE  Inv(v, ev, h)
<1>1. "client" \in Node /\ "open" \in ReadyState /\ Typed(w, ev, h)
  BY NodeIs DEF ReadyState, Inv
<1>2. /\ Typed(v, ev, h)
      /\ v.sockets = w.sockets /\ v.wire = w.wire /\ v.peers = w.peers
      /\ v.address = w.address /\ v.pending = w.pending
      /\ \A m \in Node, t \in Socket :
           v.ready[m][t] = IF m = "client" /\ t = s THEN "open" ELSE w.ready[m][t]
  BY <1>1, ReadiedView
<1>3. \A t : /\ AskWire(v, t) <=> AskWire(w, t)
             /\ Answered(v, ev, t) <=> Answered(w, ev, t)
             /\ Fresh(v, ev, h, t) <=> Fresh(w, ev, h, t)
             /\ OnceOf(v, ev, h, t) <=> OnceOf(w, ev, h, t)
  BY <1>2, SameTokens
<1>4. ~AskEvent(ev, s)
  BY DEF Inv, Begun
<1>5. /\ \A t \in Socket : v.ready["server"][t] = w.ready["server"][t]
      /\ \A t \in Socket : t # s => v.ready["client"][t] = w.ready["client"][t]
      /\ v.ready["client"][s] = "open"
  BY <1>2, NodeIs
<1>6. /\ GoingIn(v, ev, "client", 0) <=> GoingIn(w, ev, "client", 0)
      /\ \A t \in Socket : GoingIn(v, ev, "server", t) <=> GoingIn(w, ev, "server", t)
  BY <1>5 DEF GoingIn, ClosingAt, IndexOf
<1>7. \A t \in Socket : OnceOf(v, ev, h, t) /\ Begun(v, ev, h, t)
  BY <1>2, <1>3, <1>4, <1>5 DEF Inv, Begun
<1>8. ClientSound(v, ev, h)
  <2>1. w.sockets["client"][0] \in {NoSocket} \cup Socket
    BY NodeIs DEF Inv, Typed, TypedSockets, SocketAt
  <2>2. WakesFirst(ev, s)
    BY <1>4 DEF WakesFirst, Before, AskEvent, In
  <2>3. \A t \in Socket : /\ OpenAt(w, "client", t) => OpenAt(v, "client", t)
                          /\ OpenAt(v, "client", t) /\ t # s => OpenAt(w, "client", t)
    BY <1>5 DEF OpenAt
  <2>4. QED
    BY <1>2, <1>3, <1>6, <2>1, <2>2, <2>3 DEF Inv, ClientSound, HasSocket
<1>9. ServerSound(v, ev, h)
  BY <1>2, <1>3, <1>5, <1>6 DEF Inv, ServerSound, OpenAt
<1>10. QED
  BY <1>2, <1>7, <1>8, <1>9 DEF Inv

\* The client has another socket, and forgets the one it had.
Resocketed(w, n, i, s) == [w EXCEPT !.sockets[n][i] = s]

LEMMA ResocketedView ==
  ASSUME NEW w, NEW ev, NEW h, Typed(w, ev, h), NEW n \in Node, NEW i \in Index(n),
         NEW s \in SocketAt(n, i), NEW v, v = Resocketed(w, n, i, s)
  PROVE  /\ Typed(v, ev, h)
         /\ v.ready = w.ready /\ v.wire = w.wire /\ v.peers = w.peers
         /\ v.address = w.address /\ v.pending = w.pending
         /\ v.sockets[n][i] = s
         /\ \A m \in Node : \A j \in Index(m) :
              ~(m = n /\ j = i) => v.sockets[m][j] = w.sockets[m][j]
<1>1. /\ IsWorld(v) /\ v.ready = w.ready /\ v.wire = w.wire /\ v.peers = w.peers
      /\ v.address = w.address /\ v.pending = w.pending
      /\ v.sockets = [w.sockets EXCEPT ![n] = [@ EXCEPT ![i] = s]]
  BY DEF Resocketed, Typed, IsWorld, Field
<1>2. w.sockets = [m \in Node |-> [j \in Index(m) |-> w.sockets[m][j]]]
  BY DEF Typed, TypedSockets, IsTable
<1>3. v.sockets = [m \in Node |-> [j \in Index(m) |-> IF m = n /\ j = i THEN s ELSE w.sockets[m][j]]]
  BY <1>1, <1>2
<1>4. \A m \in Node : \A j \in Index(m) :
        v.sockets[m][j] = IF m = n /\ j = i THEN s ELSE w.sockets[m][j]
  BY <1>3
<1>5. IsTable(v.sockets)
  BY <1>3, <1>4 DEF IsTable
<1>6. \A m \in Node : \A j \in Index(m) : v.sockets[m][j] \in SocketAt(m, j)
  BY <1>4 DEF Typed, TypedSockets
<1>7. TypedSockets(v)
  BY <1>1, <1>5, <1>6 DEF Typed, TypedSockets
<1>8. TypedWire(v) /\ TypedPeers(v) /\ TypedPending(v)
  BY <1>1 DEF Typed, TypedWire, TypedPeers, TypedPending
<1>9. QED
  BY <1>1, <1>4, <1>7, <1>8 DEF Typed

LEMMA DialedSound ==
  ASSUME NEW w, NEW ev, NEW h, Inv(w, ev, h), NEW s \in Socket,
         w.ready["client"][s] = "none", w.peers["client"][0].status = "disconnected",
         NEW u, u = Readied(w, "client", s, "connecting"),
         NEW v, v = Resocketed(u, "client", 0, s)
  PROVE  Inv(v, ev, h)
<1>1. /\ "client" \in Node /\ 0 \in Index("client") /\ s \in SocketAt("client", 0)
      /\ "connecting" \in ReadyState /\ Typed(w, ev, h)
  BY NodeIs DEF ReadyState, Inv, SocketAt
<1>2. /\ Typed(u, ev, h)
      /\ u.sockets = w.sockets /\ u.wire = w.wire /\ u.peers = w.peers
      /\ u.address = w.address /\ u.pending = w.pending
      /\ \A m \in Node, t \in Socket :
           u.ready[m][t] = IF m = "client" /\ t = s THEN "connecting" ELSE w.ready[m][t]
  BY <1>1, ReadiedView
<1>3. /\ Typed(v, ev, h)
      /\ v.ready = u.ready /\ v.wire = u.wire /\ v.peers = u.peers
      /\ v.address = u.address /\ v.pending = u.pending
      /\ v.sockets["client"][0] = s
      /\ \A m \in Node : \A j \in Index(m) :
           ~(m = "client" /\ j = 0) => v.sockets[m][j] = u.sockets[m][j]
  <2> DEFINE n == "client"
             i == 0
  <2>1. n \in Node /\ i \in Index(n) /\ s \in SocketAt(n, i) /\ v = Resocketed(u, n, i, s)
    BY <1>1
  <2> HIDE DEF n, i
  <2>2. /\ Typed(v, ev, h)
        /\ v.ready = u.ready /\ v.wire = u.wire /\ v.peers = u.peers
        /\ v.address = u.address /\ v.pending = u.pending
        /\ v.sockets[n][i] = s
        /\ \A m \in Node : \A j \in Index(m) :
             ~(m = n /\ j = i) => v.sockets[m][j] = u.sockets[m][j]
    BY <1>2, <2>1, ResocketedView
  <2>3. QED
    BY <2>2 DEF n, i
<1>4. \A t : /\ AskWire(v, t) <=> AskWire(w, t)
             /\ Answered(v, ev, t) <=> Answered(w, ev, t)
             /\ Fresh(v, ev, h, t) <=> Fresh(w, ev, h, t)
             /\ OnceOf(v, ev, h, t) <=> OnceOf(w, ev, h, t)
  BY <1>2, <1>3, SameTokens
<1>5. /\ \A t \in Socket : v.ready["server"][t] = w.ready["server"][t]
      /\ \A t \in Socket : t # s => v.ready["client"][t] = w.ready["client"][t]
      /\ v.ready["client"][s] = "connecting"
      /\ \A t \in Socket : v.sockets["server"][t] = w.sockets["server"][t]
      /\ v.peers = w.peers
  BY <1>2, <1>3, NodeIs
<1>6. /\ GoingIn(w, ev, "client", 0) => GoingIn(v, ev, "client", 0)
      /\ \A t \in Socket : GoingIn(v, ev, "server", t) <=> GoingIn(w, ev, "server", t)
  BY <1>5 DEF GoingIn, ClosingAt, IndexOf
<1>7. \A t \in Socket : OnceOf(v, ev, h, t) /\ Begun(v, ev, h, t)
  BY <1>4, <1>5 DEF Inv, Begun
<1>8. ClientSound(v, ev, h)
  BY <1>3, <1>4, <1>5, <1>6 DEF Inv, ClientSound, OpenAt
<1>9. ServerSound(v, ev, h)
  BY <1>4, <1>5, <1>6 DEF Inv, ServerSound, OpenAt
<1>10. QED
  BY <1>3, <1>7, <1>8, <1>9 DEF Inv

\* The server gives a socket its index: its handshake begins.
LEMMA AssignedSound ==
  ASSUME NEW w, NEW ev, NEW h, Inv(w, ev, h), NEW s \in Socket, s \notin h,
         w.ready["server"][s] # "none",
         NEW v, v = Resocketed(w, "server", s, s),
         NEW fv, fv = Requeued(ev, "server", Append(ev["server"], Wake("server", s)))
  PROVE  Inv(v, fv, h \cup {s})
<1> DEFINE q == Append(ev["server"], Wake("server", s))
           g == h \cup {s}
<1>1. /\ "server" \in Node /\ s \in Index("server") /\ s \in SocketAt("server", s)
      /\ Wake("server", s) \in EventOf("server") /\ ev["server"] \in Seq(EventOf("server"))
      /\ Typed(w, ev, h)
  BY NodeIs DEF Inv, Typed, TypedEvents, EventOf, SocketAt
<1>2. /\ q \in Seq(EventOf("server"))
      /\ \A e : In(q, e) <=> In(ev["server"], e) \/ e = Wake("server", s)
      /\ \A e : Single(ev["server"], e) /\ ~(In(ev["server"], e) /\ e = Wake("server", s)) => Single(q, e)
  BY <1>1, InAppend
<1>3. fv = Requeued(ev, "server", q)
  OBVIOUS
<1> HIDE DEF q
<1>4. /\ Typed(v, ev, h)
      /\ v.ready = w.ready /\ v.wire = w.wire /\ v.peers = w.peers
      /\ v.address = w.address /\ v.pending = w.pending
      /\ v.sockets["server"][s] = s
      /\ \A m \in Node : \A j \in Index(m) :
           ~(m = "server" /\ j = s) => v.sockets[m][j] = w.sockets[m][j]
  BY <1>1, ResocketedView
<1>5. Typed(v, fv, h) /\ fv["server"] = q /\ \A m \in Node \ {"server"} : fv[m] = ev[m]
  BY <1>1, <1>2, <1>3, <1>4, RequeuedView
<1>6. Typed(v, fv, g)
  BY <1>5 DEF Typed
<1>7. /\ fv["client"] = ev["client"]
      /\ \A e : In(fv["server"], e) <=> In(ev["server"], e) \/ e = Wake("server", s)
  BY <1>2, <1>5, NodeIs
<1>8. \A t : /\ AskWire(v, t) <=> AskWire(w, t)
             /\ AskEvent(fv, t) <=> AskEvent(ev, t)
             /\ Answered(v, fv, t) <=> Answered(w, ev, t)
             /\ Woken(fv, t) <=> Woken(ev, t) \/ t = s
  BY <1>4, <1>7, EventsDiffer DEF AskWire, AskEvent, Answered, Woken
<1>9. ~Woken(ev, s) /\ ~AskWire(w, s) /\ ~AskEvent(ev, s) /\ Fresh(w, ev, h, s)
  BY DEF Inv, OnceOf, Fresh
<1>10. \A t \in Socket : Fresh(v, fv, g, t) <=> Fresh(w, ev, h, t)
  BY <1>8, <1>9 DEF Fresh
<1>11. \A t \in Socket : OnceOf(v, fv, g, t)
  <2>1. SUFFICES ASSUME NEW t \in Socket PROVE OnceOf(v, fv, g, t)
    OBVIOUS
  <2>2. OnceOf(w, ev, h, t)
    BY DEF Inv
  <2>3. Single(fv["server"], Wake("server", t))
    BY <1>2, <1>5, <1>9, <2>2, EventsDiffer DEF OnceOf, Woken
  <2>4. Single(v.wire["client"][t], Ask(t)) /\ Single(fv["client"], Told(0, Ask(t)))
    BY <1>4, <1>7, <2>2 DEF OnceOf
  <2>5. t \notin g => t \notin h /\ t # s
    OBVIOUS
  <2>6. QED
    BY <1>8, <1>9, <1>10, <2>2, <2>3, <2>4, <2>5 DEF OnceOf
<1>12. \A t \in Socket : Begun(v, fv, g, t)
  BY <1>4, <1>8 DEF Inv, Begun
<1>13. /\ GoingIn(v, fv, "client", 0) <=> GoingIn(w, ev, "client", 0)
       /\ \A t \in Socket : GoingIn(w, ev, "server", t) => GoingIn(v, fv, "server", t)
  BY <1>4, <1>7, EventsDiffer DEF GoingIn, ClosingAt
<1>14. ClientSound(v, fv, g)
  <2>1. v.sockets["client"][0] = w.sockets["client"][0]
    BY <1>4, NodeIs
  <2>2. \A t \in Socket : WakesFirst(fv, t) <=> WakesFirst(ev, t)
    BY <1>7 DEF WakesFirst
  <2>3. \A t : OpenAt(v, "client", t) <=> OpenAt(w, "client", t)
    BY <1>4 DEF OpenAt
  <2>4. HasSocket(v, "client", 0) <=> HasSocket(w, "client", 0)
    BY <2>1, <2>3 DEF HasSocket
  <2>5. QED
    BY <1>4, <1>8, <1>10, <1>13, <2>1, <2>2, <2>3, <2>4 DEF Inv, ClientSound
<1>15. ServerSound(v, fv, g)
  <2>1. SUFFICES ASSUME NEW t \in Socket
                 PROVE  /\ t \in g /\ OpenAt(v, "server", t) => v.sockets["server"][t] = t
                        /\ \/ GoingIn(v, fv, "server", t) \/ OpenAt(v, "server", t)
                           \/ /\ v.peers["server"][t].status # "connected"
                              /\ \/ v.peers["server"][t].challenge = 0
                                 \/ ~AskWire(v, t) /\ ~AskEvent(fv, t) /\ ~Answered(v, fv, t)
    BY DEF ServerSound
  <2>2. CASE t = s
    <3>1. w.peers["server"][s] = NoPeer
      BY DEF Inv, Begun
    <3>2. v.peers["server"][t].status # "connected" /\ v.peers["server"][t].challenge = 0
      BY <1>4, <2>2, <3>1 DEF NoPeer
    <3>3. QED
      BY <1>4, <2>2, <3>2
  <2>3. CASE t # s
    <3>1. v.sockets["server"][t] = w.sockets["server"][t] /\ (t \in g => t \in h)
      BY <1>1, <1>4, <2>3, NodeIs
    <3>2. OpenAt(v, "server", t) <=> OpenAt(w, "server", t)
      BY <1>4 DEF OpenAt
    <3>3. QED
      BY <1>4, <1>8, <1>13, <3>1, <3>2 DEF Inv, ServerSound
  <2>4. QED
    BY <2>2, <2>3
<1>16. QED
  BY <1>6, <1>11, <1>12, <1>14, <1>15 DEF Inv

\* A message that is not the challenge of its socket comes to node n.
LEMMA ToldSound ==
  ASSUME NEW w, NEW ev, NEW h, Inv(w, ev, h), NEW n \in Node, NEW s \in Socket,
         NEW m \in OnWire(n, s), In(w.wire[n][s], m), n = "client" => m # Ask(s)
  PROVE  Inv(w, Requeued(ev, n, Append(ev[n], Told(IndexOf(n, s), m))), h)
<1> DEFINE e == Told(IndexOf(n, s), m)
<1>1. e \in EventOf(n)
  <2>1. IndexOf(n, s) \in Index(n)
    BY NodeIs
  <2>2. m \in MessageTo(n)
    BY NodeIs DEF OnWire, MessageTo, ResponseTo
  <2>3. QED
    BY <2>1, <2>2 DEF EventOf
<1>2. \A t \in Socket :
        /\ n = "server" => e # Wake("server", t) /\ (e = Told(t, ToServer(t)) => Answered(w, ev, t))
        /\ n = "client" => e # Told(0, Ask(t)) /\ (e = Told(0, ToClient(t)) => Answered(w, ev, t))
  <2>1. SUFFICES ASSUME NEW t \in Socket
                 PROVE  /\ n = "server" => /\ e # Wake("server", t)
                                           /\ e = Told(t, ToServer(t)) => Answered(w, ev, t)
                        /\ n = "client" => /\ e # Told(0, Ask(t))
                                           /\ e = Told(0, ToClient(t)) => Answered(w, ev, t)
    OBVIOUS
  <2>2. CASE n = "server"
    <3>1. IndexOf(n, s) = s
      BY <2>2 DEF IndexOf
    <3>2. e = Told(t, ToServer(t)) => t = s /\ m = ToServer(t)
      BY <3>1, EventsDiffer
    <3>3. QED
      BY <2>2, <3>2, EventsDiffer DEF Answered
  <2>3. CASE n = "client"
    <3>1. m \in {ToClient(s), Ping, Pong}
      BY <2>3 DEF OnWire
    <3>2. m # Ask(t) /\ (m = ToClient(t) => t = s)
      BY <3>1, MessagesDiffer
    <3>3. QED
      BY <2>3, <3>2, EventsDiffer DEF Answered
  <2>4. QED
    BY <2>2, <2>3, NodeIs
<1> HIDE DEF e
<1>3. Inv(w, Requeued(ev, n, Append(ev[n], e)), h)
  BY <1>1, <1>2, QueueSound
<1>4. QED
  BY <1>3 DEF e

LEMMA AskDelivered ==
  ASSUME NEW w, NEW ev, NEW h, Inv(w, ev, h), NEW s \in Socket,
         w.wire["client"][s] # <<>>, Head(w.wire["client"][s]) = Ask(s), OpenAt(w, "client", s),
         NEW v, v = Rewired(w, "client", s, Tail(w.wire["client"][s]))
  PROVE  Inv(v, Requeued(ev, "client", Append(ev["client"], Told(0, Ask(s)))), h)
<1> DEFINE q == w.wire["client"][s]
           rest == Tail(q)
<1>1. "client" \in Node /\ q \in Seq(OnWire("client", s)) /\ Typed(w, ev, h)
  BY NodeIs DEF Inv, Typed, TypedWire
<1>2. /\ rest \in Seq(OnWire("client", s))
      /\ \A e : In(q, e) <=> In(rest, e) \/ e = Ask(s)
      /\ Single(q, Ask(s)) => ~In(rest, Ask(s))
  BY <1>1, InTail
<1>3. Inv(v, ev, h)
  <2> DEFINE n == "client"
  <2>1. n \in Node /\ w.wire[n][s] # <<>> /\ v = Rewired(w, n, s, Tail(w.wire[n][s]))
    BY <1>1
  <2> HIDE DEF n
  <2>2. QED
    BY <2>1, TakenSound
<1>4. /\ v.ready = w.ready /\ v.sockets = w.sockets /\ v.peers = w.peers
      /\ v.address = w.address /\ v.pending = w.pending
      /\ \A m \in Node, t \in Socket :
           v.wire[m][t] = IF m = "client" /\ t = s THEN rest ELSE w.wire[m][t]
  <2>1. v = Rewired(w, "client", s, rest)
    OBVIOUS
  <2> HIDE DEF rest, q
  <2>2. QED
    BY <1>1, <1>2, <2>1, RewiredView
<1>5. v.wire["client"][s] = rest /\ \A t \in Socket : v.wire["server"][t] = w.wire["server"][t]
  BY <1>1, <1>4, NodeIs
<1>6. AskWire(w, s) /\ OnceOf(w, ev, h, s)
  BY <1>2 DEF AskWire, Inv
<1>7. Fresh(w, ev, h, s)
  BY <1>6 DEF Fresh
<1>8. InHand(v, ev, h, s)
  <2>1. s \in h /\ ~Woken(ev, s) /\ ~AskEvent(ev, s) /\ ~Answered(w, ev, s)
    BY <1>6, <1>7 DEF OnceOf
  <2>2. ~AskWire(v, s)
    BY <1>2, <1>5, <1>6 DEF OnceOf, AskWire
  <2>3. ~Answered(v, ev, s)
    BY <1>2, <1>4, <1>5, <2>1 DEF Answered
  <2>4. QED
    BY <2>1, <2>2, <2>3 DEF InHand
<1>9. ClientAwaits(v, ev, s)
  <2>1. ClientAwaits(w, ev, s)
    BY <1>7, ClientDoesAwait
  <2>2. QED
    BY <1>4, <2>1 DEF ClientAwaits, GoingIn, ClosingAt, OpenAt
<1>10. ServerAwaits(v, ev, s)
  BY <1>4, <1>6 DEF Inv, ServerSound, ServerAwaits, GoingIn, ClosingAt, OpenAt
<1>11. v.ready["client"][s] \notin {"none", "connecting"}
  BY <1>4 DEF OpenAt
<1>12. QED
  BY <1>3, <1>8, <1>9, <1>10, <1>11, AskQueued

-----------------------------------------------------------------------------
\* What Queue does to the events.
LEMMA QueueIs ==
  ASSUME Inv(World, events, handled), NEW n \in Node
  PROVE  /\ Queue(n, <<>>) => events' = events
         /\ \A x : Queue(n, <<x>>) => events' = Requeued(events, n, Append(events[n], x))
         /\ \A x : Queue(n, <<x, x>>) =>
              events' = Requeued(events, n, Append(Append(events[n], x), x))
<1>1. /\ events = [m \in Node |-> events[m]] /\ events[n] \in Seq(EventOf(n))
  BY DEF Inv, Typed, TypedEvents, IsPair
<1>2. events[n] \o <<>> = events[n]
  BY <1>1
<1>3. [events EXCEPT ![n] = events[n]] = events
  BY <1>1
<1>4. Queue(n, <<>>) => events' = events
  BY <1>2, <1>3 DEF Queue
<1>5. ASSUME NEW x
      PROVE  /\ events[n] \o <<x>> = Append(events[n], x)
             /\ events[n] \o <<x, x>> = Append(Append(events[n], x), x)
  <2> DEFINE S == EventOf(n) \cup {x}
  <2>1. events[n] \in Seq(S) /\ x \in S
    BY <1>1
  <2> HIDE DEF S
  <2>2. QED
    BY <2>1
<1>6. \A x : Queue(n, <<x>>) => events' = Requeued(events, n, Append(events[n], x))
  BY <1>5 DEF Queue, Requeued
<1>7. \A x : Queue(n, <<x, x>>) =>
        events' = Requeued(events, n, Append(Append(events[n], x), x))
  BY <1>5 DEF Queue, Requeued
<1>8. QED
  BY <1>4, <1>6, <1>7

LEMMA DialSound ==
  ASSUME InvNow, Dial PROVE InvNow'
<1>1. PICK s \in Socket :
        /\ ready["client"][s] = "none"
        /\ ready' = [ready EXCEPT !["client"][s] = "connecting"]
        /\ sockets' = [sockets EXCEPT !["client"][0] = s]
  BY DEF Dial
<1> DEFINE u == Readied(World, "client", s, "connecting")
           v == Resocketed(u, "client", 0, s)
<1>2. Becomes(v) /\ events' = events /\ handled' = handled
  BY <1>1 DEF Dial, coreVars, Becomes, Readied, Resocketed, World
<1>3. Inv(World, events, handled) /\ World.peers["client"][0].status = "disconnected"
      /\ World.ready["client"][s] = "none"
  BY <1>1 DEF InvNow, Dial, World
<1>4. u = Readied(World, "client", s, "connecting") /\ v = Resocketed(u, "client", 0, s)
  OBVIOUS
<1> HIDE DEF u, v
<1>5. Inv(v, events, handled)
  BY <1>3, <1>4, DialedSound
<1>6. QED
  BY <1>2, <1>5, InvBecomes

LEMMA AcceptSound ==
  ASSUME InvNow, NEW s \in Socket, Accept(s) PROVE InvNow'
<1> DEFINE v == Readied(World, "server", s, "open")
<1>1. Becomes(v) /\ events' = events /\ handled' = handled
  BY DEF Accept, jsVars, coreVars, Becomes, Readied, World
<1>2. Inv(World, events, handled) /\ World.ready["server"][s] = "none"
  BY DEF InvNow, Accept, World
<1>3. v = Readied(World, "server", s, "open")
  OBVIOUS
<1> HIDE DEF v
<1>4. Inv(v, events, handled)
  BY <1>2, <1>3, AcceptedSound
<1>5. QED
  BY <1>1, <1>4, InvBecomes

LEMMA AssignIndexSound ==
  ASSUME InvNow, NEW s \in Socket, AssignIndex(s) PROVE InvNow'
<1> DEFINE v == Resocketed(World, "server", s, s)
           fv == Requeued(events, "server", Append(events["server"], Wake("server", s)))
<1>1. Becomes(v) /\ handled' = handled \cup {s}
  BY DEF AssignIndex, coreVars, Becomes, Resocketed, World
<1>2. Inv(World, events, handled) /\ World.ready["server"][s] # "none" /\ s \notin handled
  BY DEF InvNow, AssignIndex, World
<1>3. events' = fv
  BY <1>2, QueueIs, NodeIs DEF AssignIndex
<1>4. v = Resocketed(World, "server", s, s)
      /\ fv = Requeued(events, "server", Append(events["server"], Wake("server", s)))
  OBVIOUS
<1> HIDE DEF v, fv
<1>5. Inv(v, fv, handled \cup {s})
  BY <1>2, <1>4, AssignedSound
<1>6. QED
  BY <1>1, <1>3, <1>5, InvBecomes

LEMMA OpenedStepSound ==
  ASSUME InvNow, NEW s \in Socket, Opened(s) PROVE InvNow'
<1> DEFINE v == Readied(World, "client", s, "open")
           q == Append(events["client"], Wake("client", 0))
           fv == Requeued(events, "client", q)
<1>1. Becomes(v) /\ handled' = handled
  BY DEF Opened, coreVars, Becomes, Readied, World
<1>2. Inv(World, events, handled) /\ World.ready["client"][s] = "connecting"
  BY DEF InvNow, Opened, World
<1>3. events' = fv
  BY <1>2, QueueIs, NodeIs DEF Opened
<1>4. Wake("client", 0) \in EventOf("client") /\ "client" \in Node
      /\ events["client"] \in Seq(EventOf("client"))
  BY <1>2, NodeIs DEF EventOf, Inv, Typed, TypedEvents
<1>5. Inv(World, fv, handled)
  <2> DEFINE n == "client"
             e == Wake("client", 0)
  <2>1. n \in Node /\ e \in EventOf(n)
    BY <1>4
  <2>2. \A t \in Socket :
          /\ n = "server" => e # Wake("server", t) /\ (e = Told(t, ToServer(t)) => Answered(World, events, t))
          /\ n = "client" => e # Told(0, Ask(t)) /\ (e = Told(0, ToClient(t)) => Answered(World, events, t))
    BY EventsDiffer
  <2> HIDE DEF n, e
  <2>3. Inv(World, Requeued(events, n, Append(events[n], e)), handled)
    BY <1>2, <2>1, <2>2, QueueSound
  <2>4. QED
    BY <2>3 DEF n, e
<1>6. q \in Seq(EventOf("client")) /\ In(q, Wake("client", 0))
  BY <1>4, InAppend
<1>7. v = Readied(World, "client", s, "open") /\ fv = Requeued(events, "client", q)
  OBVIOUS
<1> HIDE DEF v, fv, q
<1>8. fv["client"] = q
  BY <1>2, <1>4, <1>6, <1>7, RequeuedView, InvIsTyped
<1>9. In(fv["client"], Wake("client", 0))
  BY <1>6, <1>8
<1>10. Inv(v, fv, handled)
  BY <1>2, <1>5, <1>7, <1>9, OpenedSound
<1>11. QED
  BY <1>1, <1>3, <1>10, InvBecomes

LEMMA DeliverSound ==
  ASSUME InvNow, NEW n \in Node, NEW s \in Socket, Deliver(n, s) PROVE InvNow'
<1> DEFINE q == wire[n][s]
           m == Head(q)
           v == Rewired(World, n, s, Tail(q))
           e == Told(IndexOf(n, s), m)
<1>1. /\ Inv(World, events, handled) /\ World.wire[n][s] = q /\ q # <<>>
      /\ Becomes(v) /\ handled' = handled
  BY DEF InvNow, Deliver, coreVars, Becomes, Rewired, World
<1>2. /\ HasHandlers(n, s) => Queue(n, <<e>>)
      /\ ~HasHandlers(n, s) => Queue(n, <<>>)
  BY DEF Deliver, Told
<1>3. q \in Seq(OnWire(n, s))
  BY <1>1 DEF Inv, Typed, TypedWire
<1>4. m \in OnWire(n, s) /\ In(q, m)
  BY <1>1, <1>3, InTail
<1>5. v = Rewired(World, n, s, Tail(World.wire[n][s])) /\ World.wire[n][s] # <<>>
  BY <1>1
<1>6. m = Head(World.wire[n][s]) /\ In(World.wire[n][s], m)
  BY <1>1, <1>4
<1> HIDE DEF v, m, q
<1>7. CASE ~HasHandlers(n, s)
  <2>1. events' = events
    BY <1>1, <1>2, <1>7, QueueIs
  <2>2. Inv(v, events, handled)
    BY <1>1, <1>5, TakenSound
  <2>3. QED
    BY <1>1, <2>1, <2>2, InvBecomes
<1>8. CASE HasHandlers(n, s) /\ ~(n = "client" /\ m = Ask(s))
  <2> DEFINE fv == Requeued(events, n, Append(events[n], e))
  <2>1. events' = fv
    BY <1>1, <1>2, <1>8, QueueIs
  <2>2. Inv(World, fv, handled)
    BY <1>1, <1>4, <1>6, <1>8, ToldSound
  <2> HIDE DEF fv
  <2>3. Inv(v, fv, handled)
    BY <1>5, <2>2, TakenSound
  <2>4. QED
    BY <1>1, <2>1, <2>3, InvBecomes
<1>9. CASE n = "client" /\ m = Ask(s)
  <2> DEFINE fv == Requeued(events, "client", Append(events["client"], Told(0, Ask(s))))
  <2>1. HasHandlers(n, s) /\ e = Told(0, Ask(s))
    BY <1>9 DEF HasHandlers, IndexOf
  <2>2. events' = fv
    BY <1>1, <1>2, <1>9, <2>1, QueueIs
  <2>3. OpenAt(World, "client", s)
    BY <1>9 DEF Deliver, OpenAt, World
  <2>4. /\ v = Rewired(World, "client", s, Tail(World.wire["client"][s]))
        /\ World.wire["client"][s] # <<>> /\ Head(World.wire["client"][s]) = Ask(s)
    BY <1>5, <1>6, <1>9
  <2>5. Inv(v, fv, handled)
    BY <1>1, <2>3, <2>4, AskDelivered
  <2>6. QED
    BY <1>1, <2>2, <2>5, InvBecomes
<1>10. QED
  BY <1>7, <1>8, <1>9

LEMMA CloseSound ==
  ASSUME InvNow, NEW n \in Node, NEW s \in Socket, Close(n, s) PROVE InvNow'
<1> DEFINE v == Failed(World, n, s)
           e == Gone(n, IndexOf(n, s))
<1>1. /\ Inv(World, events, handled) /\ Becomes(v) /\ handled' = handled
  BY DEF InvNow, Close, coreVars, Becomes, Failed, World
<1>2. /\ HasHandlers(n, s) => Queue(n, <<e>>)
      /\ ~HasHandlers(n, s) => Queue(n, <<>>)
  BY DEF Close
<1>3. CASE ~HasHandlers(n, s)
  <2>1. events' = events
    BY <1>1, <1>2, <1>3, QueueIs
  <2>2. Inv(v, events, handled)
    BY <1>1, <1>3, FailedSound, NodeIs DEF HasHandlers
  <2>3. QED
    BY <1>1, <2>1, <2>2, InvBecomes
<1>4. CASE HasHandlers(n, s)
  <2> DEFINE fv == Requeued(events, n, Append(events[n], e))
  <2>1. events' = fv
    BY <1>1, <1>2, <1>4, QueueIs
  <2>2. Inv(World, fv, handled) /\ In(fv[n], e)
    BY <1>1, GoneQueued, NodeIs
  <2> HIDE DEF fv
  <2>3. Inv(v, fv, handled)
    BY <2>2, FailedSound
  <2>4. QED
    BY <1>1, <2>1, <2>3, InvBecomes
<1>5. QED
  BY <1>3, <1>4

LEMMA ErrorSound ==
  ASSUME InvNow, NEW n \in Node, NEW s \in Socket, Error(n, s) PROVE InvNow'
<1> DEFINE u == Failed(World, n, s)
           v == IF n = "client" THEN Removed(u, n, IndexOf(n, s)) ELSE u
           e == Gone(n, IndexOf(n, s))
<1>1. /\ Inv(World, events, handled) /\ Becomes(v) /\ handled' = handled
  BY DEF InvNow, Error, Failed
<1>2. /\ n = "client" => Queue(n, <<e>>)
      /\ n # "client" /\ HasHandlers(n, s) => Queue(n, <<e, e>>)
      /\ ~HasHandlers(n, s) => Queue(n, <<>>)
  BY DEF Error, HasHandlers
<1>3. IndexOf(n, s) \in Index(n)
  BY NodeIs
<1>4. \A ev : Inv(u, ev, handled) => Inv(v, ev, handled)
  BY <1>3, RemovedSound
<1> HIDE DEF v
<1>5. CASE ~HasHandlers(n, s)
  <2>1. events' = events
    BY <1>1, <1>2, <1>5, QueueIs
  <2>2. Inv(u, events, handled)
    BY <1>1, <1>5, FailedSound, NodeIs DEF HasHandlers
  <2>3. QED
    BY <1>1, <1>4, <2>1, <2>2, InvBecomes
<1>6. CASE HasHandlers(n, s)
  <2> DEFINE fv == Requeued(events, n, Append(events[n], e))
             gv == Requeued(events, n, Append(Append(events[n], e), e))
             gw == Requeued(fv, n, Append(fv[n], e))
  <2>1. Inv(World, fv, handled) /\ In(fv[n], e)
    BY <1>1, <1>3, GoneQueued
  <2>2. gv = gw
    <3>1. events = [k \in Node |-> events[k]]
      BY <1>1 DEF Inv, Typed, TypedEvents, IsPair
    <3> DEFINE x == Append(events[n], e)
    <3>2. fv[n] = Append(events[n], e)
      <4> HIDE DEF x
      <4>1. fv[n] = x
        BY <3>1 DEF Requeued, x
      <4>2. QED
        BY <4>1 DEF x
    <3> DEFINE y == Append(x, e)
    <3> HIDE DEF x
    <3>3. gv = [events EXCEPT ![n] = y] /\ gw = [fv EXCEPT ![n] = y]
      BY <3>2 DEF Requeued, x
    <3> HIDE DEF y
    <3>4. fv = [events EXCEPT ![n] = x]
      BY DEF Requeued, x
    <3> HIDE DEF fv, gv, gw
    <3>5. QED
      BY <3>1, <3>3, <3>4
  <2>3. n = "client" => events' = fv
    BY <1>1, <1>2, QueueIs
  <2>4. n # "client" => events' = gv
    BY <1>1, <1>2, <1>6, QueueIs
  <2> HIDE DEF fv
  <2>5. Inv(World, gw, handled) /\ In(gw[n], e)
    BY <1>3, <2>1, GoneQueued
  <2> HIDE DEF gv, gw
  <2>6. Inv(u, fv, handled) /\ Inv(u, gw, handled)
    BY <2>1, <2>5, FailedSound
  <2>7. QED
    BY <1>1, <1>4, <2>2, <2>3, <2>4, <2>6, InvBecomes
<1>7. QED
  BY <1>5, <1>6

LEMMA InvInit == Init => InvNow
<1> SUFFICES ASSUME Init PROVE InvNow
  OBVIOUS
<1>1. /\ IsWorld(World) /\ World.ready = ready /\ World.wire = wire /\ World.sockets = sockets
      /\ World.peers = peers /\ World.address = address /\ World.pending = pending
  BY DEF World, IsWorld, Field
<1>2. /\ \A n \in Node : \A s \in Socket : ready[n][s] = "none" /\ wire[n][s] = <<>>
      /\ \A n \in Node : \A i \in Index(n) :
           sockets[n][i] = NoSocket /\ peers[n][i] = IF n = "client" THEN NewPeer ELSE NoPeer
      /\ \A n \in Node : events[n] = <<>> /\ pending[n] = <<>> /\ address[n] = NoIndex
      /\ handled = {}
  BY DEF Init
<1>0. \A S : <<>> \in Seq(S)
  OBVIOUS
<1>3. TypedSockets(World)
  <2>1. IsSocketTable(ready) /\ IsTable(sockets)
    BY DEF Init, IsSocketTable, IsTable
  <2>2. QED
    BY <1>1, <1>2, <2>1 DEF TypedSockets, ReadyState, SocketAt
<1>4. TypedWire(World)
  <2>1. IsSocketTable(wire)
    BY DEF Init, IsSocketTable
  <2>2. QED
    BY <1>0, <1>1, <1>2, <2>1 DEF TypedWire
<1>5. TypedPeers(World)
  <2>1. IsTable(peers) /\ IsPair(address)
    BY DEF Init, IsTable, IsPair
  <2>2. \A n \in Node : \A i \in Index(n) : NewPeer \in PeerAt(n, i) /\ NoPeer \in PeerAt(n, i)
    BY DEF NewPeer, NoPeer, PeerAt
  <2>3. QED
    BY <1>1, <1>2, <2>1, <2>2 DEF TypedPeers
<1>6. TypedPending(World) /\ TypedEvents(events)
  <2>1. IsPair(pending) /\ IsPair(events)
    BY DEF Init, IsPair
  <2>2. QED
    BY <1>0, <1>1, <1>2, <2>1 DEF TypedPending, TypedEvents
<1>7. Typed(World, events, handled)
  BY <1>1, <1>2, <1>3, <1>4, <1>5, <1>6 DEF Typed
<1>8. \A s \in Socket : /\ ~Woken(events, s) /\ ~AskWire(World, s) /\ ~AskEvent(events, s)
                        /\ ~Answered(World, events, s)
  <2>1. \A s \in Socket : World.wire["client"][s] = <<>> /\ World.wire["server"][s] = <<>>
    BY <1>1, <1>2, NodeIs
  <2>2. /\ events["client"] = <<>> /\ events["server"] = <<>>
        /\ World.pending["client"] = <<>> /\ World.pending["server"] = <<>>
    BY <1>1, <1>2, NodeIs
  <2>3. \A e : ~In(<<>>, e)
    BY InEmpty
  <2>4. QED
    BY <2>1, <2>2, <2>3 DEF Woken, AskWire, AskEvent, Answered
<1>9. \A s \in Socket : OnceOf(World, events, handled, s)
  <2>1. \A s \in Socket : /\ Single(events["server"], Wake("server", s))
                          /\ Single(World.wire["client"][s], Ask(s))
                          /\ Single(events["client"], Told(0, Ask(s)))
    BY <1>1, <1>2, NodeIs, InEmpty
  <2>2. QED
    BY <1>8, <2>1 DEF OnceOf
<1>10. \A s \in Socket : Begun(World, events, handled, s)
  BY <1>1, <1>2, <1>8, NodeIs DEF Begun
<1>11. ClientSound(World, events, handled)
  <2>1. /\ peers["client"][0].status = "disconnected" /\ peers["client"][0].challenge = 0
        /\ sockets["client"][0] = NoSocket
    BY <1>2, NodeIs DEF NewPeer
  <2>2. \A s \in Socket : s # 0 /\ s # NoSocket
    BY NodeIs DEF NoSocket
  <2>3. QED
    BY <1>1, <2>1, <2>2 DEF ClientSound
<1>12. ServerSound(World, events, handled)
  <2>1. \A s \in Socket : /\ peers["server"][s].status # "connected"
                          /\ peers["server"][s].challenge = 0
    BY <1>2, NodeIs DEF NoPeer
  <2>2. QED
    BY <1>1, <1>2, <2>1 DEF ServerSound
<1>13. QED
  BY <1>7, <1>9, <1>10, <1>11, <1>12 DEF InvNow, Inv

LEMMA InvNext == InvNow /\ [Next]_vars => InvNow'
<1> SUFFICES ASSUME InvNow, [Next]_vars PROVE InvNow'
  OBVIOUS
<1>1. CASE Dial
  BY <1>1, DialSound
<1>2. ASSUME NEW n \in Node, HandleEvent(n) \/ TakePlace(n) PROVE InvNow'
  BY <1>2, HandleEventSound, TakePlaceSound
<1>3. ASSUME NEW n \in Node, NEW i \in Index(n), DisconnectStale(n, i) \/ SendPing(n, i)
      PROVE  InvNow'
  BY <1>3, DisconnectStaleSound, SendPingSound
<1>4. ASSUME NEW s \in Socket, Accept(s) \/ AssignIndex(s) \/ Opened(s) PROVE InvNow'
  BY <1>4, AcceptSound, AssignIndexSound, OpenedStepSound
<1>5. ASSUME NEW s \in Socket, Abort(s) \/ RemoveDisconnected(s) PROVE InvNow'
  BY <1>5, ErrorSound, RemoveDisconnectedSound, NodeIs DEF Abort
<1>6. ASSUME NEW n \in Node, NEW s \in Socket, Deliver(n, s) \/ Close(n, s) PROVE InvNow'
  BY <1>6, DeliverSound, CloseSound
<1>7. ASSUME NEW n \in Node, NEW s \in Socket, Break(n, s) PROVE InvNow'
  BY <1>7, ErrorSound DEF Break
<1>8. CASE UNCHANGED vars
  <2>1. Becomes(World) /\ events' = events /\ handled' = handled
    BY <1>8 DEF vars, netVars, jsVars, coreVars, Becomes, World
  <2>2. Inv(World, events, handled)
    BY DEF InvNow
  <2>3. QED
    BY <2>1, <2>2, InvBecomes
<1>9. QED
  BY <1>1, <1>2, <1>3, <1>4, <1>5, <1>6, <1>7, <1>8 DEF Next

-----------------------------------------------------------------------------
(* The bounds of what the environment does.                                *)

Bounded ==
  failures \in 0..MaxFailures /\ stale \in 0..MaxStale /\ pings \in 0..MaxPings

LEMMA BoundedInit == Init => Bounded
BY PeersAssumption DEF Init, Bounded

LEMMA BoundedNext == Bounded /\ [Next]_vars => Bounded'
<1> SUFFICES ASSUME Bounded, [Next]_vars PROVE Bounded'
  OBVIOUS
<1>1. UNCHANGED envVars => Bounded'
  BY DEF envVars, Bounded
<1>2. CASE Dial
  BY <1>1, <1>2 DEF Dial
<1>3. ASSUME NEW n \in Node, HandleEvent(n) \/ TakePlace(n) PROVE Bounded'
  BY <1>1, <1>3 DEF HandleEvent, TakePlace
<1>4. ASSUME NEW n \in Node, NEW i \in Index(n), DisconnectStale(n, i) \/ SendPing(n, i)
      PROVE  Bounded'
  BY <1>4, PeersAssumption DEF DisconnectStale, SendPing, Bounded
<1>5. ASSUME NEW s \in Socket,
             Accept(s) \/ AssignIndex(s) \/ Opened(s) \/ Abort(s) \/ RemoveDisconnected(s)
      PROVE  Bounded'
  BY <1>1, <1>5 DEF Accept, AssignIndex, Opened, Abort, RemoveDisconnected
<1>6. ASSUME NEW n \in Node, NEW s \in Socket, Deliver(n, s) \/ Close(n, s) PROVE Bounded'
  BY <1>1, <1>6 DEF Deliver, Close
<1>7. ASSUME NEW n \in Node, NEW s \in Socket, Break(n, s) PROVE Bounded'
  BY <1>7, PeersAssumption DEF Break, Bounded
<1>8. CASE UNCHANGED vars
  BY <1>1, <1>8 DEF vars, envVars
<1>9. QED
  BY <1>2, <1>3, <1>4, <1>5, <1>6, <1>7, <1>8 DEF Next

-----------------------------------------------------------------------------
(* What the invariant implies.                                             *)

LEMMA MessagesAre ==
  ASSUME NEW n \in Node
  PROVE  /\ MessageTo(n) \subseteq Message /\ ResponseTo(n) \subseteq Message
         /\ \A s \in Socket : OnWire(n, s) \subseteq Message
<1>1. \A s \in Socket : /\ Ask(s) \in Message /\ ToServer(s) \in Message
                        /\ ToClient(s) \in Message
  BY DEF Ask, ToServer, ToClient, Message
<1>2. Ping \in Message /\ Pong \in Message
  BY DEF Ping, Pong, Message
<1>3. QED
  BY <1>1, <1>2, NodeIs DEF MessageTo, ResponseTo, OnWire

LEMMA PeersAreTyped == InvNow /\ Bounded => TypeOK
<1> SUFFICES ASSUME InvNow, Bounded PROVE TypeOK
  OBVIOUS
<1>1. Typed(World, events, handled)
  BY DEF InvNow, Inv
<1>2. /\ TypedSockets(World) /\ TypedWire(World) /\ TypedPeers(World) /\ TypedPending(World)
      /\ TypedEvents(events) /\ handled \subseteq Socket
  BY <1>1 DEF Typed
<1>3. ASSUME NEW n \in Node
      PROVE  /\ ready[n] \in [Socket -> {"none", "connecting", "aborting", "open", "closing", "closed"}]
             /\ sockets[n] \in [Index(n) -> {NoSocket} \cup Socket]
  <2>1. ready[n] = [s \in Socket |-> ready[n][s]] /\ sockets[n] = [i \in Index(n) |-> sockets[n][i]]
    BY <1>2, WorldIs DEF TypedSockets, IsSocketTable, IsTable
  <2>2. \A s \in Socket : ready[n][s] \in ReadyState
    BY <1>2, WorldIs DEF TypedSockets
  <2>3. \A i \in Index(n) : sockets[n][i] \in {NoSocket} \cup Socket
    BY <1>2, WorldIs, NodeIs DEF TypedSockets, SocketAt
  <2>4. QED
    BY <2>1, <2>2, <2>3 DEF ReadyState
<1>4. ASSUME NEW n \in Node
      PROVE  wire[n] \in [Socket -> Seq(Message)]
  <2>1. wire[n] = [s \in Socket |-> wire[n][s]]
    BY <1>2, WorldIs DEF TypedWire, IsSocketTable
  <2>2. \A s \in Socket : wire[n][s] \in Seq(Message)
    BY <1>2, WorldIs, MessagesAre DEF TypedWire
  <2>3. QED
    BY <2>1, <2>2
<1>5. ASSUME NEW n \in Node
      PROVE  /\ peers[n] \in [Index(n) -> PeerRecord]
             /\ address[n] \in {NoIndex} \cup Index(n)
  <2>1. peers[n] = [i \in Index(n) |-> peers[n][i]]
    BY <1>2, WorldIs DEF TypedPeers, IsTable
  <2>2. \A i \in Index(n) : peers[n][i] \in PeerRecord
    <3>1. \A i \in Index(n) : PeerAt(n, i) \subseteq PeerRecord
      BY NodeIs DEF PeerAt, PeerRecord
    <3>2. QED
      BY <1>2, <3>1, WorldIs DEF TypedPeers
  <2>3. QED
    BY <1>2, <2>1, <2>2, WorldIs DEF TypedPeers
<1>6. ASSUME NEW n \in Node
      PROVE  events[n] \in Seq(Event(n))
  <2>1. EventOf(n) \subseteq Event(n)
    BY MessagesAre DEF EventOf, Event, Wake, Gone, Told
  <2>2. QED
    BY <1>2, <2>1 DEF TypedEvents
<1>7. ASSUME NEW n \in Node
      PROVE  pending[n] \in Seq([index: Index(n), response: Message])
  <2>1. WaitsFor(n) \subseteq [index: Index(n), response: Message]
    BY MessagesAre DEF WaitsFor, Waits
  <2>2. pending[n] \in Seq(WaitsFor(n))
    BY <1>2, WorldIs DEF TypedPending
  <2> DEFINE S == [index: Index(n), response: Message]
  <2>3. WaitsFor(n) \subseteq S
    BY <2>1
  <2> HIDE DEF S
  <2>4. pending[n] \in Seq(S)
    BY <2>2, <2>3
  <2>5. QED
    BY <2>4 DEF S
<1>8. QED
  BY <1>2, <1>3, <1>4, <1>5, <1>6, <1>7 DEF TypeOK, Bounded

LEMMA ConnectedIsOpen == InvNow => ConnectedHasSocket
<1> SUFFICES ASSUME InvNow, NEW n \in Node, NEW i \in Index(n), IsConnected(World, n, i)
             PROVE  IsGoing(n, i) \/ (sockets[n][i] # NoSocket /\ ready[n][sockets[n][i]] = "open")
  BY DEF ConnectedHasSocket
<1>1. Inv(World, events, handled)
  BY DEF InvNow
<1>2. GoingIn(World, events, n, i) => IsGoing(n, i)
  BY WorldIs DEF GoingIn, ClosingAt, IsGoing, In
<1>3. World.peers[n][i].status = "connected"
  BY DEF IsConnected
<1>4. CASE n = "client"
  <2>1. i = 0
    BY <1>4, NodeIs
  <2>2. GoingIn(World, events, "client", 0) \/ HasSocket(World, "client", 0)
    BY <1>1, <1>3, <1>4, <2>1 DEF Inv, ClientSound
  <2>3. QED
    BY <1>2, <1>4, <2>1, <2>2, WorldIs DEF HasSocket, OpenAt
<1>5. CASE n = "server"
  <2>1. i \in Socket /\ i # NoSocket
    BY <1>5, NodeIs DEF NoSocket
  <2>2. GoingIn(World, events, "server", i) \/ OpenAt(World, "server", i)
    BY <1>1, <1>3, <1>5, <2>1 DEF Inv, ServerSound
  <2>3. i \in handled
    BY <1>1, <1>3, <1>5, <2>1 DEF Inv, Begun, NoPeer
  <2>4. OpenAt(World, "server", i) => World.sockets["server"][i] = i
    BY <1>1, <2>1, <2>3 DEF Inv, ServerSound
  <2>5. QED
    BY <1>2, <1>5, <2>1, <2>2, <2>4, WorldIs DEF OpenAt
<1>6. QED
  BY <1>4, <1>5, NodeIs

-----------------------------------------------------------------------------

\* Sockets, queues, peers and the list of those that wait hold what they should, however the
\* connections come and go; what is on a wire or waits names sockets that there are.
THEOREM PeersTypeCorrect == Spec => []TypeOK
<1>1. QED
  BY InvInit, InvNext, BoundedInit, BoundedNext, PeersAreTyped, PTL DEF Spec

\* A peer that counts as connected has an open socket to send on, unless the news of its loss
\* is on the way: through handshakes that overtake each other on sockets of one index, errors,
\* reconnections and peers that give way to those that waited.
THEOREM ConnectedHasSocketAlways == Spec => []ConnectedHasSocket
<1>1. QED
  BY InvInit, InvNext, ConnectedIsOpen, PTL DEF Spec

=============================================================================
