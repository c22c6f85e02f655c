------------------------------ MODULE Workers -------------------------------
(***************************************************************************)
(* The processes of NMinerProxy in cluster mode where the UDP port is not  *)
(* shareable: Fleet of src/js/fleet.ts hands the sockets it accepts to     *)
(* worker processes and starts a worker again when it exits; UdpRouter of  *)
(* src/js/edge.ts gives every UDP peer to one worker and relays its        *)
(* datagrams; the UdpEdge of the worker keeps the peers.                   *)
(*                                                                         *)
(* Primary and workers talk over two queues each that keep their order     *)
(* (the batches of FleetChild and WorkerLink are taken apart on arrival).  *)
(* Of a datagram only what it asks of UdpEdge is kept: a greeting with its *)
(* salt, a reset, or data.  Whatever goes to the peer ("u" to the primary) *)
(* changes nothing here and is left out.  Datagram has a module of its own *)
(* and is here only the moment a link gives up.                            *)
(***************************************************************************)
EXTENDS Integers, Sequences, FiniteSets

CONSTANTS
    Keys,           \* addresses of UDP peers
    Salts,          \* salts of handshakes
    Sockets,        \* TCP connections
    Size,           \* workers of the fleet
    PendingLimit,   \* PENDING_LIMIT
    MaxId,          \* bound: workers ever started
    MaxPeers,       \* bound: peers ever greeted
    MaxQueue        \* bound: messages on the way to or from a worker

ASSUME WorkersAssumption ==
    /\ Size \in Nat \ {0} /\ {PendingLimit, MaxId, MaxPeers, MaxQueue} \subseteq Nat
    /\ Size <= MaxId

Ids    == 1 .. MaxId
NoOne  == 0

Closed  == 0
New     == -1
Waiting == -2

NoPeer == [n |-> 0, salt |-> "none"]

VARIABLES
    sequence,   \* Fleet.sequence: the last id
    kid,        \* kid[w]: state ("up"; "dead": nobody knows; "cut": the channel
                \* is down; "gone": exit was handled), load, and the queues
    timers,     \* respawn timers that run
    pending,    \* Fleet.pending, in order
    socket,     \* socket[s]: New, Waiting, Closed, or the worker that has it
    routes,     \* UdpRouter.routes, NoOne for a key that has none
    peers,      \* peers[w][k]: UdpEdge.peers of worker w
    greeted,    \* number of the last peer
    stray,      \* stray[w]: peers, past or present, whose handler, kill timer or
                \* rearmed link may still drop their key
    crossed     \* history: keys whose route was in doubt, see Receive and StrayDrops

fleet == <<sequence, timers, pending, socket>>
vars  == <<sequence, kid, timers, pending, socket, routes, peers, greeted, stray, crossed>>

NoPeers == [k \in Keys |-> NoPeer]

Init ==
    /\ sequence = Size
    /\ kid = [w \in Ids |-> [state |-> IF w <= Size THEN "up" ELSE "new", load |-> 0,
                             down |-> <<>>, up |-> <<>>]]
    /\ timers = 0 /\ pending = <<>>
    /\ socket = [s \in Sockets |-> New]
    /\ routes = [k \in Keys |-> NoOne]
    /\ peers = [w \in Ids |-> NoPeers]
    /\ greeted = 0
    /\ stray = [w \in Ids |-> {}]
    /\ crossed = {}

-----------------------------------------------------------------------------
(* What the primary knows of its workers.                                  *)

\* all(): the workers whose exit has not been handled.
Roster == {w \in Ids : kid[w].state \in {"up", "dead", "cut"}}

\* alive: the channel is up as far as the primary knows.
Alive == {w \in Roster : kid[w].state # "cut"}

\* The first of those that carry least.
Least(ws) == CHOOSE w \in ws :
    \A v \in ws : kid[w].load < kid[v].load \/ (kid[w].load = kid[v].load /\ w <= v)

\* A message to a worker that has died is lost.
Sent(kids, w, message) ==
    IF kids[w].state = "up" THEN [kids EXCEPT ![w].down = Append(@, message)] ELSE kids

Loaded(kids, w, by) == [kids EXCEPT ![w].load = IF @ + by < 0 THEN 0 ELSE @ + by]

Room(w) == Len(kid[w].down) < MaxQueue

-----------------------------------------------------------------------------
(* Fleet                                                                   *)

\* mutant: one more waits
RefusedLate == Len(pending) > PendingLimit

\* No more sockets can wait.
Refused == Len(pending) >= PendingLimit

\* dispatch: the socket is handed over, waits, or is refused.  One that is handed
\* to a worker that has died is destroyed when the send fails.
Dispatch(s) ==
    /\ socket[s] = New
    /\ \/ /\ Alive # {}
          /\ LET w == Least(Alive)
             IN  IF kid[w].state = "up"
                 THEN kid' = Loaded(kid, w, 1) /\ socket' = [socket EXCEPT ![s] = w]
                 ELSE socket' = [socket EXCEPT ![s] = Closed] /\ UNCHANGED kid
          /\ UNCHANGED pending
       \/ /\ Alive = {}
          /\ IF Refused
             THEN socket' = [socket EXCEPT ![s] = Closed] /\ UNCHANGED pending
             ELSE socket' = [socket EXCEPT ![s] = Waiting] /\ pending' = Append(pending, s)
          /\ UNCHANGED kid
    /\ UNCHANGED <<sequence, timers, routes, peers, greeted, stray, crossed>>

\* A miner closes a socket that waits: it is cut out of the queue.
CloseWaiting(s) ==
    /\ socket[s] = Waiting
    /\ socket' = [socket EXCEPT ![s] = Closed]
    /\ \E i \in DOMAIN pending :
        /\ pending[i] = s
        /\ pending' = SubSeq(pending, 1, i - 1) \o SubSeq(pending, i + 1, Len(pending))
    /\ UNCHANGED <<sequence, kid, timers, routes, peers, greeted, stray, crossed>>

\* A miner closes a socket that a worker has: the worker tells.
CloseHeld(s) ==
    /\ socket[s] \in Ids /\ kid[socket[s]].state = "up" /\ Len(kid[socket[s]].up) < MaxQueue
    /\ socket' = [socket EXCEPT ![s] = Closed]
    /\ kid' = [kid EXCEPT ![socket[s]].up = Append(@, [t |-> "off"])]
    /\ UNCHANGED <<sequence, timers, pending, routes, peers, greeted, stray, crossed>>

\* mutant: the sockets go on waiting
SpawnAlone ==
    /\ timers > 0 /\ sequence < MaxId
    /\ timers' = timers - 1 /\ sequence' = sequence + 1
    /\ kid' = [kid EXCEPT ![sequence + 1].state = "up"]
    /\ UNCHANGED <<pending, socket, routes, peers, greeted, stray, crossed>>

\* The timer of a respawn: a worker is forked and is handed what waits.
Spawn ==
    /\ timers > 0 /\ sequence < MaxId
    /\ timers' = timers - 1 /\ sequence' = sequence + 1
    /\ kid' = [kid EXCEPT ![sequence + 1] = [@ EXCEPT !.state = "up", !.load = Len(pending)]]
    /\ socket' = [s \in Sockets |-> IF socket[s] = Waiting THEN sequence + 1 ELSE socket[s]]
    /\ pending' = <<>>
    /\ UNCHANGED <<routes, peers, greeted, stray, crossed>>

\* A worker dies with what it holds and what is on the way to it.  What it has
\* written is still read.
Die(w) ==
    /\ kid[w].state = "up"
    /\ kid' = [kid EXCEPT ![w].state = "dead", ![w].down = <<>>]
    /\ socket' = [s \in Sockets |-> IF socket[s] = w THEN Closed ELSE socket[s]]
    /\ peers' = [peers EXCEPT ![w] = NoPeers]
    /\ stray' = [stray EXCEPT ![w] = {}]
    /\ UNCHANGED <<sequence, timers, pending, routes, greeted, crossed>>

\* The primary sees the channel close ...
Disconnect(w) ==
    /\ kid[w].state = "dead"
    /\ kid' = [kid EXCEPT ![w].state = "cut"]
    /\ UNCHANGED <<fleet, routes, peers, greeted, stray, crossed>>

\* mutant: the worker is started again only if it was up for long
ExitQuietly(w) ==
    /\ kid[w].state = "cut"
    /\ kid' = [kid EXCEPT ![w].state = "gone"]
    /\ routes' = [k \in Keys |-> IF routes[k] = w THEN NoOne ELSE routes[k]]
    /\ UNCHANGED <<fleet, peers, greeted, stray, crossed>>

\* ... and the worker exit: its routes are forgotten (evict), a respawn follows.
Exit(w) ==
    /\ kid[w].state = "cut"
    /\ kid' = [kid EXCEPT ![w].state = "gone"]
    /\ routes' = [k \in Keys |-> IF routes[k] = w THEN NoOne ELSE routes[k]]
    /\ timers' = timers + 1
    /\ UNCHANGED <<sequence, pending, socket, peers, greeted, stray, crossed>>

-----------------------------------------------------------------------------
(* UdpRouter                                                               *)

\* mutant: whoever carries least
PickLeast(k) == Least(Alive)

\* pick: the owner of the route while it is alive.
Pick(k) == IF routes[k] \in Alive THEN routes[k] ELSE Least(Alive)

\* inbound.  Without a worker the peer is told to start again.
Inbound(k, datagram) ==
    /\ Alive # {}
    /\ LET w == Pick(k)
           routed == IF routes[k] = w THEN kid ELSE Loaded(kid, w, 1)
       IN  /\ Room(w)
           /\ routes' = [routes EXCEPT ![k] = w]
           /\ kid' = Sent(routed, w, [k |-> k, d |-> datagram])
    /\ UNCHANGED <<fleet, peers, greeted, stray, crossed>>

InboundNobody(k) ==
    /\ Alive = {} /\ routes[k] # NoOne
    /\ routes' = [routes EXCEPT ![k] = NoOne]
    /\ UNCHANGED <<fleet, kid, peers, greeted, stray, crossed>>

\* mutant: the load of the owner stays
ForgetOnly(kids, k) == kids

\* forget: the owner of the route carries one less, whoever sent the message.
Forget(kids, k) == IF routes[k] \in Roster THEN Loaded(kids, routes[k], -1) ELSE kids

\* The primary reads a message of a worker, which may have exited.
Read(w) ==
    /\ kid[w].up # <<>>
    /\ LET message == Head(kid[w].up)
           rest == [kid EXCEPT ![w].up = Tail(@)]
       IN  IF message.t = "off"
           THEN kid' = Loaded(rest, w, -1) /\ UNCHANGED routes
           ELSE /\ kid' = IF routes[message.k] = NoOne THEN rest ELSE Forget(rest, message.k)
                /\ routes' = [routes EXCEPT ![message.k] = NoOne]
    /\ UNCHANGED <<fleet, peers, greeted, stray, crossed>>

-----------------------------------------------------------------------------
(* UdpEdge                                                                 *)

Told(kids, w, k) == [kids EXCEPT ![w].up = Append(@, [t |-> "ux", k |-> k])]

\* The route of a key is in doubt at w: it was forgotten meanwhile, a message that
\* forgets it is on its way, or another worker has yet to read a datagram of it.
InDoubt(k, w) ==
    \/ routes[k] # w
    \/ \E v \in Ids : \E i \in DOMAIN kid[v].up : kid[v].up[i] = [t |-> "ux", k |-> k]
    \/ \E v \in Ids \ {w} : \E i \in DOMAIN kid[v].down : kid[v].down[i].k = k

\* drop.  A stopped link resends nothing more.
Drop(kids, w, k) ==
    /\ Len(kids[w].up) < MaxQueue
    /\ kid' = Told(kids, w, k)
    /\ peers' = [peers EXCEPT ![w][k] = NoPeer]

\* mutant: a new peer of the address replaces the old one by a drop
GreetedLoudly(kids, w, k) == IF peers[w][k] = NoPeer THEN kids ELSE Told(kids, w, k)

\* greet: discard says nothing to the primary.
Greeted(kids, w, k) == kids

\* receive.  A datagram of one peer may start a handler, which awaits (handle).
Receive(w) ==
    /\ kid[w].state = "up" /\ kid[w].down # <<>>
    /\ LET k    == Head(kid[w].down).k
           d    == Head(kid[w].down).d
           rest == [kid EXCEPT ![w].down = Tail(@)]
           peer == peers[w][k]
       IN  \/ /\ d \in Salts /\ peer.salt = d
              /\ kid' = rest /\ UNCHANGED <<peers, greeted, stray, crossed>>
           \/ /\ d \in Salts /\ peer.salt # d
              /\ greeted < MaxPeers /\ Len(kid[w].up) < MaxQueue
              /\ greeted' = greeted + 1
              /\ peers' = [peers EXCEPT ![w][k] = [n |-> greeted + 1, salt |-> d]]
              /\ kid' = Greeted(rest, w, k)
              /\ crossed' = IF InDoubt(k, w) THEN crossed \union {k} ELSE crossed
              /\ UNCHANGED stray
           \/ /\ d = "reset" \/ (d = "data" /\ peer = NoPeer)
              /\ Drop(rest, w, k)
              /\ UNCHANGED <<greeted, stray, crossed>>
           \/ /\ d = "data" /\ peer # NoPeer
              /\ kid' = rest
              /\ stray' = [stray EXCEPT ![w] = @ \union {[k |-> k, n |-> peer.n]}]
              /\ UNCHANGED <<peers, greeted, crossed>>
    /\ UNCHANGED <<fleet, routes>>

\* The link of a peer gives up, or nothing was heard of it for long (sweep).
PeerLost(w, k) ==
    /\ kid[w].state = "up" /\ peers[w][k] # NoPeer
    /\ Drop(kid, w, k)
    /\ UNCHANGED <<fleet, routes, greeted, stray, crossed>>

\* A handler has answered and all is well.
StrayEnds(w, x) ==
    /\ kid[w].state = "up" /\ x \in stray[w]
    /\ stray' = [stray EXCEPT ![w] = @ \ {x}]
    /\ UNCHANGED <<fleet, kid, routes, peers, greeted, crossed>>

\* A call fails before the login, kill has waited, or the answer of a handler was
\* never acknowledged: the key is dropped, whichever peer it now stands for.
StrayDrops(w, x) ==
    /\ kid[w].state = "up" /\ x \in stray[w]
    /\ stray' = [stray EXCEPT ![w] = @ \ {x}]
    /\ Drop(kid, w, x.k)
    /\ crossed' = IF peers[w][x.k].n # x.n THEN crossed \union {x.k} ELSE crossed
    /\ UNCHANGED <<fleet, routes, greeted>>

-----------------------------------------------------------------------------
Next ==
    \/ \E s \in Sockets : Dispatch(s) \/ CloseWaiting(s) \/ CloseHeld(s)
    \/ Spawn
    \/ \E w \in Ids : Die(w) \/ Disconnect(w) \/ Exit(w) \/ Read(w) \/ Receive(w)
    \/ \E k \in Keys : \E d \in Salts \union {"data", "reset"} : Inbound(k, d)
    \/ \E k \in Keys : InboundNobody(k)
    \/ \E w \in Ids : \E k \in Keys : PeerLost(w, k)
    \/ \E w \in Ids : \E x \in stray[w] : StrayEnds(w, x) \/ StrayDrops(w, x)

Spec == Init /\ [][Next]_vars

-----------------------------------------------------------------------------
\* Type invariant.
TypeOK ==
    /\ sequence \in Ids /\ timers \in Nat /\ greeted \in 0 .. MaxPeers /\ crossed \subseteq Keys
    /\ \A w \in Ids :
        /\ kid[w].state \in {"new", "up", "dead", "cut", "gone"} /\ kid[w].load \in Nat
        /\ kid[w].down \in Seq([k : Keys, d : Salts \union {"data", "reset"}])
        /\ kid[w].up \in Seq([t : {"off"}] \union [t : {"ux"}, k : Keys])
        /\ peers[w] \in [Keys -> [n : 0 .. MaxPeers, salt : Salts \union {"none"}]]
        /\ stray[w] \subseteq [k : Keys, n : 1 .. MaxPeers]
    /\ Len(pending) <= PendingLimit
    /\ {pending[i] : i \in DOMAIN pending} = {s \in Sockets : socket[s] = Waiting}
    /\ socket \in [Sockets -> {New, Waiting, Closed} \union Ids]
    /\ routes \in [Keys -> Ids \union {NoOne}]

Offs(w) == {i \in DOMAIN kid[w].up : kid[w].up[i].t = "off"}

\* What dispatch and pick balance by is true of every worker that lives: its load
\* is the routes it owns and the sockets it holds or has just closed, whichever
\* worker a message to forget a key comes from (dispatch, deliver, pick, forget).
LoadCounted ==
    \A w \in Ids : kid[w].state = "up" =>
        kid[w].load = Cardinality({k \in Keys : routes[k] = w})
                        + Cardinality({s \in Sockets : socket[s] = w}) + Cardinality(Offs(w))

\* A peer stays where it was greeted: its datagrams go to the worker that knows
\* it, so that no key has peers at two workers, through exits, drops of other
\* peers and a new handshake from the same address.  Not if a message to forget
\* the key, or a datagram of it that another worker had yet to read, was under way
\* when it was greeted, and not if something late dropped the key: a route is
\* forgotten by its key alone (pick, forget, greet, drop).
RouteKept ==
    \A w \in Ids : \A k \in Keys : peers[w][k] # NoPeer /\ k \notin crossed => routes[k] = w

\* No socket waits while a worker could have it (dispatch, spawn).
NoneWaitsInVain == pending # <<>> => Alive = {}

\* However many workers exit together, each is started again: those on the roster
\* and the respawns that are due are as many as the fleet is to have (spawn).
FleetWhole == Cardinality(Roster) + timers = Size

\* The fleet serves: its workers come back, and take what waits for them.
FleetServes == TypeOK /\ FleetWhole /\ NoneWaitsInVain
=============================================================================
