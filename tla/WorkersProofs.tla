--------------------------- MODULE WorkersProofs ----------------------------
(***************************************************************************)
(* Theorems about Workers, for any fleet, any addresses and any bounds.    *)
(***************************************************************************)
EXTENDS Workers, FiniteSetTheorems, TLAPS

-----------------------------------------------------------------------------
(* Types, as far as the routes need them; the loads follow below.          *)

States == {"new", "up", "dead", "cut", "gone"}
Down   == [k : Keys, d : Salts \union {"data", "reset"}]
Up     == [t : {"off"}] \union [t : {"ux"}, k : Keys]
Peer   == {NoPeer} \union [n : Nat \ {0}, salt : Salts]
Stray  == [k : Keys, n : Nat \ {0}]

IsKid(r) ==
    /\ r = [state |-> r.state, load |-> r.load, down |-> r.down, up |-> r.up]
    /\ r.state \in States /\ r.down \in Seq(Down) /\ r.up \in Seq(Up)

IsKids(f) == f = [w \in Ids |-> f[w]] /\ \A w \in Ids : IsKid(f[w])

Rest ==
    /\ sequence \in Nat /\ timers \in Nat /\ greeted \in Nat
    /\ routes = [k \in Keys |-> routes[k]]
    /\ peers \in [Ids -> [Keys -> Peer]]
    /\ stray \in [Ids -> SUBSET Stray]

\* The changes made to a worker.
SameBut(f, g, w) == \A v \in Ids \ {w} : g[v] = f[v]
Quiet(f, g)      == \A v \in Ids : /\ g[v].state = f[v].state
                                  /\ g[v].down = f[v].down /\ g[v].up = f[v].up

\* What worker w is, but for its load.
Holds(g, w, s, d, u) == g[w].state = s /\ g[w].down = d /\ g[w].up = u

LEMMA KidLoad ==
  ASSUME NEW f, IsKids(f), NEW w, NEW x, NEW g, g = [f EXCEPT ![w].load = x]
  PROVE  IsKids(g) /\ Quiet(f, g)
  <1>1. g = [v \in Ids |-> g[v]] /\ SameBut(f, g, w)
    BY DEF IsKids, SameBut
  <1>2. CASE w \in Ids
    <2>1. g[w].state = f[w].state /\ g[w].down = f[w].down /\ g[w].up = f[w].up /\ IsKid(g[w])
      BY <1>2 DEF IsKids, IsKid
    <2> QED
      BY <1>1, <1>2, <2>1 DEF IsKids, SameBut, Quiet
  <1>3. CASE w \notin Ids
    BY <1>1, <1>3 DEF IsKids, SameBut, Quiet
  <1> QED
    BY <1>2, <1>3

LEMMA KidDown ==
  ASSUME NEW f, IsKids(f), NEW w \in Ids, NEW x \in Seq(Down),
         NEW g, g = [f EXCEPT ![w].down = x]
  PROVE  /\ IsKids(g) /\ SameBut(f, g, w)
         /\ Holds(g, w, f[w].state, x, f[w].up)
  <1>1. g = [v \in Ids |-> g[v]] /\ SameBut(f, g, w)
    BY DEF IsKids, SameBut
  <1>2. g[w].state = f[w].state /\ g[w].down = x /\ g[w].up = f[w].up /\ IsKid(g[w])
    BY DEF IsKids, IsKid
  <1> QED
    BY <1>1, <1>2 DEF IsKids, SameBut, Holds

LEMMA KidUp ==
  ASSUME NEW f, IsKids(f), NEW w \in Ids, NEW x \in Seq(Up), NEW g, g = [f EXCEPT ![w].up = x]
  PROVE  /\ IsKids(g) /\ SameBut(f, g, w)
         /\ Holds(g, w, f[w].state, f[w].down, x)
  <1>1. g = [v \in Ids |-> g[v]] /\ SameBut(f, g, w)
    BY DEF IsKids, SameBut
  <1>2. g[w].state = f[w].state /\ g[w].down = f[w].down /\ g[w].up = x /\ IsKid(g[w])
    BY DEF IsKids, IsKid
  <1> QED
    BY <1>1, <1>2 DEF IsKids, SameBut, Holds

LEMMA KidState ==
  ASSUME NEW f, IsKids(f), NEW w \in Ids, NEW x \in States,
         NEW g, g = [f EXCEPT ![w].state = x]
  PROVE  /\ IsKids(g) /\ SameBut(f, g, w)
         /\ Holds(g, w, x, f[w].down, f[w].up)
  <1>1. g = [v \in Ids |-> g[v]] /\ SameBut(f, g, w)
    BY DEF IsKids, SameBut
  <1>2. g[w].state = x /\ g[w].down = f[w].down /\ g[w].up = f[w].up /\ IsKid(g[w])
    BY DEF IsKids, IsKid
  <1> QED
    BY <1>1, <1>2 DEF IsKids, SameBut, Holds

LEMMA InitShapes == Init => IsKids(kid) /\ Rest
  <1> SUFFICES ASSUME Init PROVE IsKids(kid) /\ Rest
    OBVIOUS
  <1> USE WorkersAssumption
  <1>1. kid = [w \in Ids |-> kid[w]]
    BY DEF Init
  <1>2. <<>> \in Seq(Down) /\ <<>> \in Seq(Up)
    OBVIOUS
  <1>3. ASSUME NEW w \in Ids PROVE IsKid(kid[w])
    <2>1. kid[w] = [state |-> IF w <= Size THEN "up" ELSE "new", load |-> 0,
                    down |-> <<>>, up |-> <<>>]
      BY DEF Init
    <2> QED
      BY <1>2, <2>1 DEF IsKid, States
  <1>4. /\ sequence \in Nat /\ timers \in Nat /\ greeted \in Nat
        /\ routes = [k \in Keys |-> routes[k]]
    BY DEF Init
  <1>5. peers \in [Ids -> [Keys -> Peer]]
    BY DEF Init, NoPeers, Peer
  <1>6. stray \in [Ids -> SUBSET Stray]
    BY DEF Init
  <1> QED
    BY <1>1, <1>3, <1>4, <1>5, <1>6 DEF Rest, IsKids

-----------------------------------------------------------------------------
(* What is on the way for a key.                                           *)

Leaving(f, k)   == \E v \in Ids : \E i \in DOMAIN f[v].up : f[v].up[i] = [t |-> "ux", k |-> k]
Coming(f, k, v) == \E i \in DOMAIN f[v].down : f[v].down[i].k = k

LEMMA DoubtIs ==
  ASSUME NEW k, NEW w
  PROVE  InDoubt(k, w) <=> \/ routes[k] # w \/ Leaving(kid, k)
                           \/ \E v \in Ids \ {w} : Coming(kid, k, v)
  BY DEF InDoubt, Leaving, Coming

LEMMA QuietWays ==
  ASSUME NEW f, NEW g, Quiet(f, g), NEW k
  PROVE  Leaving(g, k) <=> Leaving(f, k)
  BY DEF Quiet, Leaving

LEMMA QuietComing ==
  ASSUME NEW f, NEW g, Quiet(f, g), NEW k, NEW v \in Ids
  PROVE  Coming(g, k, v) <=> Coming(f, k, v)
  BY DEF Quiet, Coming

\* Nothing new is on the way to the primary, or in the queues of workers but w.
LEMMA FewerLeaving ==
  ASSUME NEW f, IsKids(f), NEW g, NEW w \in Ids, SameBut(f, g, w), NEW k,
         g[w].up = f[w].up \/ (f[w].up # <<>> /\ g[w].up = Tail(f[w].up)),
         Leaving(g, k)
  PROVE  Leaving(f, k)
  <1>1. PICK v \in Ids : \E i \in DOMAIN g[v].up : g[v].up[i] = [t |-> "ux", k |-> k]
    BY DEF Leaving
  <1>2. CASE v # w \/ g[w].up = f[w].up
    BY <1>1, <1>2 DEF SameBut, Leaving
  <1>3. CASE v = w /\ f[w].up # <<>> /\ g[w].up = Tail(f[w].up)
    <2>1. f[w].up \in Seq(Up)
      BY DEF IsKids, IsKid
    <2>2. PICK i \in DOMAIN Tail(f[w].up) : Tail(f[w].up)[i] = [t |-> "ux", k |-> k]
      BY <1>1, <1>3
    <2>3. i + 1 \in DOMAIN f[w].up /\ f[w].up[i + 1] = [t |-> "ux", k |-> k]
      BY <1>3, <2>1, <2>2
    <2> QED
      BY <2>3 DEF Leaving
  <1> QED
    BY <1>2, <1>3

LEMMA MoreLeaving ==
  ASSUME NEW f, IsKids(f), NEW g, NEW w \in Ids, SameBut(f, g, w), NEW m,
         g[w].up = Append(f[w].up, m), NEW k, Leaving(g, k)
  PROVE  Leaving(f, k) \/ m = [t |-> "ux", k |-> k]
  <1>1. PICK v \in Ids : \E i \in DOMAIN g[v].up : g[v].up[i] = [t |-> "ux", k |-> k]
    BY DEF Leaving
  <1>2. CASE v # w
    BY <1>1, <1>2 DEF SameBut, Leaving
  <1>3. CASE v = w
    <2>1. f[w].up \in Seq(Up)
      BY DEF IsKids, IsKid
    <2>2. PICK i \in DOMAIN Append(f[w].up, m) : Append(f[w].up, m)[i] = [t |-> "ux", k |-> k]
      BY <1>1, <1>3
    <2>3. CASE i = Len(f[w].up) + 1
      BY <2>1, <2>2, <2>3
    <2>4. CASE i # Len(f[w].up) + 1
      <3>1. i \in DOMAIN f[w].up /\ f[w].up[i] = [t |-> "ux", k |-> k]
        BY <2>1, <2>2, <2>4
      <3> QED
        BY <3>1 DEF Leaving
    <2> QED
      BY <2>3, <2>4
  <1> QED
    BY <1>2, <1>3

LEMMA FewerComing ==
  ASSUME NEW f, IsKids(f), NEW g, NEW w \in Ids, SameBut(f, g, w), NEW k, NEW v \in Ids,
         \/ g[w].down = f[w].down
         \/ g[w].down = <<>>
         \/ f[w].down # <<>> /\ g[w].down = Tail(f[w].down),
         Coming(g, k, v)
  PROVE  Coming(f, k, v)
  <1>1. CASE v # w \/ g[w].down = f[w].down
    BY <1>1 DEF SameBut, Coming
  <1>2. CASE v = w /\ g[w].down = <<>>
    BY <1>2 DEF Coming
  <1>3. CASE v = w /\ f[w].down # <<>> /\ g[w].down = Tail(f[w].down)
    <2>1. f[w].down \in Seq(Down)
      BY DEF IsKids, IsKid
    <2>2. PICK i \in DOMAIN Tail(f[w].down) : Tail(f[w].down)[i].k = k
      BY <1>3 DEF Coming
    <2>3. i + 1 \in DOMAIN f[w].down /\ f[w].down[i + 1].k = k
      BY <1>3, <2>1, <2>2
    <2> QED
      BY <1>3, <2>3 DEF Coming
  <1> QED
    BY <1>1, <1>2, <1>3

LEMMA MoreComing ==
  ASSUME NEW f, IsKids(f), NEW g, NEW w \in Ids, SameBut(f, g, w), NEW m,
         g[w].down = Append(f[w].down, m), NEW k, NEW v \in Ids, Coming(g, k, v)
  PROVE  Coming(f, k, v) \/ (v = w /\ m.k = k)
  <1>1. CASE v # w
    BY <1>1 DEF SameBut, Coming
  <1>2. CASE v = w
    <2>1. f[w].down \in Seq(Down)
      BY DEF IsKids, IsKid
    <2>2. PICK i \in DOMAIN Append(f[w].down, m) : Append(f[w].down, m)[i].k = k
      BY <1>2 DEF Coming
    <2>3. CASE i = Len(f[w].down) + 1
      BY <1>2, <2>1, <2>2, <2>3
    <2>4. CASE i # Len(f[w].down) + 1
      <3>1. i \in DOMAIN f[w].down /\ f[w].down[i].k = k
        BY <2>1, <2>2, <2>4
      <3> QED
        BY <1>2, <3>1 DEF Coming
    <2> QED
      BY <2>3, <2>4
  <1> QED
    BY <1>1, <1>2

LEMMA LoadedKids ==
  ASSUME NEW f, IsKids(f), NEW w, NEW by
  PROVE  IsKids(Loaded(f, w, by)) /\ Quiet(f, Loaded(f, w, by))
  <1> DEFINE x == IF f[w].load + by < 0 THEN 0 ELSE f[w].load + by
             g == [f EXCEPT ![w].load = x]
  <1>1. Loaded(f, w, by) = g
    BY DEF Loaded
  <1>2. g = [f EXCEPT ![w].load = x]
    OBVIOUS
  <1> HIDE DEF x, g
  <1> QED
    BY <1>1, <1>2, KidLoad

LEMMA QuietIs == \A f : Quiet(f, f)
  BY DEF Quiet

LEMMA ForgetKids ==
  ASSUME NEW f, IsKids(f), NEW k
  PROVE  IsKids(Forget(f, k)) /\ Quiet(f, Forget(f, k))
  BY LoadedKids, QuietIs DEF Forget

-----------------------------------------------------------------------------
(* The invariant.                                                          *)

\* Only a worker that lives has peers.
UpOnly == \A w \in Ids : kid[w].state # "up" => peers[w] = NoPeers

\* Nothing will take a peer that was greeted in peace from its worker.
Settled == \A w \in Ids : \A k \in Keys : peers[w][k] # NoPeer /\ k \notin crossed =>
    /\ routes[k] = w /\ ~ Leaving(kid, k)
    /\ \A v \in Ids \ {w} : ~ Coming(kid, k, v)

IInv == IsKids(kid) /\ Rest /\ UpOnly /\ Settled

\* All that a step has to show for the peers that are left.
LEMMA Kept ==
  ASSUME IInv, IsKids(kid'), Rest',
         \A w \in Ids : kid'[w].state # "up" => peers'[w] = NoPeers,
         \A w \in Ids : \A k \in Keys : peers'[w][k] # NoPeer /\ k \notin crossed' =>
            /\ peers[w][k] # NoPeer /\ k \notin crossed /\ routes'[k] = routes[k]
            /\ Leaving(kid', k) => Leaving(kid, k)
            /\ \A v \in Ids \ {w} : Coming(kid', k, v) => Coming(kid, k, v)
  PROVE  IInv'
  <1>1. UpOnly'
    BY DEF UpOnly
  <1>2. Settled'
    BY DEF IInv, Settled
  <1> QED
    BY <1>1, <1>2 DEF IInv

\* Only loads, or no worker at all, change.
LEMMA KeptQuiet ==
  ASSUME IInv, IsKids(kid'), Quiet(kid, kid'), Rest', UNCHANGED <<routes, peers, crossed>>
  PROVE  IInv'
  <1>1. \A w \in Ids : kid'[w].state # "up" => peers'[w] = NoPeers
    BY DEF IInv, UpOnly, Quiet
  <1>2. \A k \in Keys : Leaving(kid', k) => Leaving(kid, k)
    BY QuietWays
  <1>3. \A k \in Keys : \A v \in Ids : Coming(kid', k, v) => Coming(kid, k, v)
    BY QuietComing
  <1> QED
    BY <1>1, <1>2, <1>3, Kept

LEMMA InitIInv == Init => IInv
  <1> SUFFICES ASSUME Init PROVE IInv
    OBVIOUS
  <1>1. IsKids(kid) /\ Rest
    BY InitShapes
  <1>2. peers = [w \in Ids |-> NoPeers]
    BY DEF Init
  <1>3. UpOnly
    BY <1>2 DEF UpOnly
  <1>4. Settled
    BY <1>2 DEF Settled, NoPeers
  <1> QED
    BY <1>1, <1>3, <1>4 DEF IInv

-----------------------------------------------------------------------------
(* Every step of the fleet keeps it.                                       *)

LEMMA StepDispatch ==
  ASSUME IInv, NEW s \in Sockets, Dispatch(s)
  PROVE  IInv'
  <1>1. UNCHANGED <<sequence, timers, greeted, routes, peers, stray, crossed>>
    BY DEF Dispatch
  <1>2. UNCHANGED kid \/ \E w : kid' = Loaded(kid, w, 1)
    BY DEF Dispatch
  <1>3. IsKids(kid') /\ Quiet(kid, kid')
    BY <1>2, LoadedKids, QuietIs DEF IInv
  <1>4. Rest'
    BY <1>1 DEF IInv, Rest
  <1> QED
    BY <1>1, <1>3, <1>4, KeptQuiet

LEMMA StepSame ==
  ASSUME IInv, UNCHANGED <<sequence, kid, timers, routes, peers, greeted, crossed>>,
         stray' \in [Ids -> SUBSET Stray]
  PROVE  IInv'
  <1>1. IsKids(kid') /\ Quiet(kid, kid')
    BY QuietIs DEF IInv
  <1>2. Rest'
    BY DEF IInv, Rest
  <1> QED
    BY <1>1, <1>2, KeptQuiet

LEMMA StepCloseHeld ==
  ASSUME IInv, NEW s \in Sockets, CloseHeld(s)
  PROVE  IInv'
  <1> DEFINE m == [t |-> "off"]
  <1>0. PICK w \in Ids : w = socket[s]
    BY DEF CloseHeld
  <1>1. kid' = [kid EXCEPT ![w].up = Append(kid[w].up, m)]
    BY <1>0 DEF CloseHeld
  <1>2. UNCHANGED <<sequence, timers, greeted, routes, peers, stray, crossed>>
    BY DEF CloseHeld
  <1>3. Append(kid[w].up, m) \in Seq(Up)
    <2>1. kid[w].up \in Seq(Up) /\ m \in Up
      BY <1>1 DEF IInv, IsKids, IsKid, Up
    <2> HIDE DEF m
    <2> QED
      BY <2>1
  <1>4. /\ IsKids(kid') /\ SameBut(kid, kid', w)
        /\ Holds(kid', w, kid[w].state, kid[w].down, Append(kid[w].up, m))
    <2> HIDE DEF m
    <2> QED
      BY <1>1, <1>3, KidUp DEF IInv
  <1>5. Rest'
    BY <1>2 DEF IInv, Rest
  <1>6. \A v \in Ids : kid'[v].state # "up" => peers'[v] = NoPeers
    BY <1>2, <1>4 DEF IInv, UpOnly, SameBut, Holds
  <1>7. ASSUME NEW k \in Keys, Leaving(kid', k) PROVE Leaving(kid, k)
    <2>1. Leaving(kid, k) \/ m = [t |-> "ux", k |-> k]
      <3> HIDE DEF m
      <3> QED
        BY <1>1, <1>4, <1>7, MoreLeaving DEF IInv, Holds
    <2>2. m # [t |-> "ux", k |-> k]
      <3>1. m.t # [t |-> "ux", k |-> k].t
        OBVIOUS
      <3> QED
        BY <3>1
    <2> QED
      BY <2>1, <2>2
  <1>8. ASSUME NEW k \in Keys, NEW v \in Ids, Coming(kid', k, v) PROVE Coming(kid, k, v)
    BY <1>1, <1>4, <1>8, FewerComing DEF IInv, Holds
  <1> HIDE DEF m
  <1> QED
    BY <1>2, <1>4, <1>5, <1>6, <1>7, <1>8, Kept

LEMMA StepSpawn ==
  ASSUME IInv, Spawn
  PROVE  IInv'
  <1>0. PICK w \in Ids : w = sequence + 1
    BY WorkersAssumption DEF IInv, Rest, Spawn, Ids
  <1> DEFINE f == [kid EXCEPT ![w].state = "up"]
  <1>1. timers' \in Nat /\ sequence' \in Nat
    BY DEF IInv, Rest, Spawn
  <1>2. UNCHANGED <<greeted, routes, peers, stray, crossed>>
    BY DEF Spawn
  <1>3. kid' = [kid EXCEPT ![w] = [kid[w] EXCEPT !.state = "up", !.load = Len(pending)]]
    BY <1>0 DEF Spawn
  <1>4. /\ IsKids(f) /\ SameBut(kid, f, w)
        /\ Holds(f, w, "up", kid[w].down, kid[w].up)
    <2>1. "up" \in States /\ f = [kid EXCEPT ![w].state = "up"]
      BY DEF States
    <2> HIDE DEF f
    <2> QED
      BY <1>1, <2>1, KidState DEF IInv
  <1>5. kid' = [f EXCEPT ![w].load = Len(pending)]
    BY <1>1, <1>3 DEF IInv, IsKids
  <1> HIDE DEF f
  <1>6. IsKids(kid') /\ Quiet(f, kid')
    BY <1>4, <1>5, KidLoad
  <1>7. Rest'
    BY <1>1, <1>2 DEF IInv, Rest
  <1>8. \A v \in Ids : kid'[v].state # "up" => peers'[v] = NoPeers
    BY <1>2, <1>4, <1>6 DEF IInv, UpOnly, SameBut, Quiet, Holds
  <1>9. ASSUME NEW k \in Keys, Leaving(kid', k) PROVE Leaving(kid, k)
    BY <1>1, <1>4, <1>6, <1>9, QuietWays, FewerLeaving DEF IInv, Holds
  <1>10. ASSUME NEW k \in Keys, NEW v \in Ids, Coming(kid', k, v) PROVE Coming(kid, k, v)
    BY <1>1, <1>4, <1>6, <1>10, QuietComing, FewerComing DEF IInv, Holds
  <1> QED
    BY <1>2, <1>6, <1>7, <1>8, <1>9, <1>10, Kept

LEMMA StepDie ==
  ASSUME IInv, NEW w \in Ids, Die(w)
  PROVE  IInv'
  <1> DEFINE f == [kid EXCEPT ![w].state = "dead"]
  <1>1. kid' = [kid EXCEPT ![w].state = "dead", ![w].down = <<>>]
    BY DEF Die
  <1>2. UNCHANGED <<sequence, timers, greeted, routes, crossed>>
    BY DEF Die
  <1>3. /\ IsKids(f) /\ SameBut(kid, f, w)
        /\ Holds(f, w, "dead", kid[w].down, kid[w].up)
    <2>1. "dead" \in States /\ f = [kid EXCEPT ![w].state = "dead"]
      BY DEF States
    <2> HIDE DEF f
    <2> QED
      BY <2>1, KidState DEF IInv
  <1>4. kid' = [f EXCEPT ![w].down = <<>>] /\ <<>> \in Seq(Down)
    BY <1>1
  <1> HIDE DEF f
  <1>5. /\ IsKids(kid') /\ SameBut(f, kid', w)
        /\ Holds(kid', w, "dead", <<>>, kid[w].up)
    <2>1. IsKids(kid') /\ SameBut(f, kid', w) /\ Holds(kid', w, f[w].state, <<>>, f[w].up)
      BY <1>3, <1>4, KidDown
    <2> QED
      BY <1>3, <2>1 DEF Holds
  <1>6. SameBut(kid, kid', w)
    BY <1>3, <1>5 DEF SameBut
  <1>7. peers' = [peers EXCEPT ![w] = NoPeers] /\ stray' = [stray EXCEPT ![w] = {}]
    BY DEF Die
  <1>8. Rest'
    <2>1. NoPeers \in [Keys -> Peer]
      BY DEF NoPeers, Peer
    <2> QED
      BY <1>2, <1>7, <2>1 DEF IInv, Rest
  <1>9. peers'[w] = NoPeers /\ \A v \in Ids \ {w} : peers'[v] = peers[v]
    BY <1>7 DEF IInv, Rest
  <1>10. \A v \in Ids : kid'[v].state # "up" => peers'[v] = NoPeers
    BY <1>6, <1>9 DEF IInv, UpOnly, SameBut, Holds
  <1>11. ASSUME NEW k \in Keys, Leaving(kid', k) PROVE Leaving(kid, k)
    BY <1>5, <1>6, <1>11, FewerLeaving DEF IInv, Holds
  <1>12. ASSUME NEW k \in Keys, NEW v \in Ids, Coming(kid', k, v) PROVE Coming(kid, k, v)
    BY <1>5, <1>6, <1>12, FewerComing DEF IInv, Holds
  <1>13. \A v \in Ids : \A k \in Keys : peers'[v][k] # NoPeer => peers[v][k] # NoPeer
    BY <1>9 DEF NoPeers
  <1> QED
    BY <1>2, <1>5, <1>8, <1>10, <1>11, <1>12, <1>13, Kept

LEMMA StepDisconnect ==
  ASSUME IInv, NEW w \in Ids, Disconnect(w)
  PROVE  IInv'
  <1>1. UNCHANGED <<sequence, timers, greeted, routes, peers, stray, crossed>>
    BY DEF Disconnect, fleet
  <1>2. /\ IsKids(kid') /\ SameBut(kid, kid', w)
        /\ Holds(kid', w, "cut", kid[w].down, kid[w].up)
    <2>1. "cut" \in States /\ kid' = [kid EXCEPT ![w].state = "cut"]
      BY DEF States, Disconnect
    <2> QED
      BY <2>1, KidState DEF IInv
  <1>3. Rest'
    BY <1>1 DEF IInv, Rest
  <1>4. kid[w].state = "dead"
    BY DEF Disconnect
  <1>5. \A v \in Ids : kid'[v].state # "up" => peers'[v] = NoPeers
    BY <1>1, <1>2, <1>4 DEF IInv, UpOnly, SameBut, Holds
  <1>6. ASSUME NEW k \in Keys, Leaving(kid', k) PROVE Leaving(kid, k)
    BY <1>2, <1>6, FewerLeaving DEF IInv, Holds
  <1>7. ASSUME NEW k \in Keys, NEW v \in Ids, Coming(kid', k, v) PROVE Coming(kid, k, v)
    BY <1>2, <1>7, FewerComing DEF IInv, Holds
  <1> QED
    BY <1>1, <1>2, <1>3, <1>5, <1>6, <1>7, Kept

LEMMA StepExit ==
  ASSUME IInv, NEW w \in Ids, Exit(w)
  PROVE  IInv'
  <1>1. UNCHANGED <<sequence, greeted, peers, stray, crossed>> /\ timers' = timers + 1
    BY DEF Exit
  <1>2. /\ IsKids(kid') /\ SameBut(kid, kid', w)
        /\ Holds(kid', w, "gone", kid[w].down, kid[w].up)
    <2>1. "gone" \in States /\ kid' = [kid EXCEPT ![w].state = "gone"]
      BY DEF States, Exit
    <2> QED
      BY <2>1, KidState DEF IInv
  <1>3. routes' = [k \in Keys |-> IF routes[k] = w THEN NoOne ELSE routes[k]]
    BY DEF Exit
  <1>4. Rest'
    BY <1>1, <1>3 DEF IInv, Rest
  <1>5. peers[w] = NoPeers
    BY DEF IInv, UpOnly, Exit
  <1>6. \A v \in Ids : kid'[v].state # "up" => peers'[v] = NoPeers
    BY <1>1, <1>2, <1>5 DEF IInv, UpOnly, SameBut, Holds
  <1>7. ASSUME NEW k \in Keys, Leaving(kid', k) PROVE Leaving(kid, k)
    BY <1>2, <1>7, FewerLeaving DEF IInv, Holds
  <1>8. ASSUME NEW k \in Keys, NEW v \in Ids, Coming(kid', k, v) PROVE Coming(kid, k, v)
    BY <1>2, <1>8, FewerComing DEF IInv, Holds
  <1>9. ASSUME NEW v \in Ids, NEW k \in Keys, peers[v][k] # NoPeer, k \notin crossed
        PROVE  routes'[k] = routes[k]
    <2>1. v # w /\ routes[k] = v
      BY <1>5, <1>9 DEF IInv, Settled, NoPeers
    <2> QED
      BY <1>3, <2>1
  <1> QED
    BY <1>1, <1>2, <1>4, <1>6, <1>7, <1>8, <1>9, Kept

LEMMA StepInboundNobody ==
  ASSUME IInv, NEW k \in Keys, InboundNobody(k)
  PROVE  IInv'
  <1>1. UNCHANGED <<sequence, timers, greeted, kid, peers, stray, crossed>>
    BY DEF InboundNobody, fleet
  <1>2. \A w \in Ids : kid[w].state # "up"
    BY DEF InboundNobody, Alive, Roster
  <1>3. \A w \in Ids : peers'[w] = NoPeers
    BY <1>1, <1>2 DEF IInv, UpOnly
  <1>4. routes' = [i \in Keys |-> routes'[i]]
    BY DEF IInv, Rest, InboundNobody
  <1>5. Rest' /\ IsKids(kid')
    BY <1>1, <1>4 DEF IInv, Rest
  <1>6. \A w \in Ids : \A i \in Keys : peers'[w][i] = NoPeer
    BY <1>3 DEF NoPeers
  <1> QED
    BY <1>3, <1>5, <1>6, Kept

LEMMA StepInbound ==
  ASSUME IInv, NEW k \in Keys, NEW d \in Salts \union {"data", "reset"}, Inbound(k, d)
  PROVE  IInv'
  <1> DEFINE m == [k |-> k, d |-> d]
  <1>1. UNCHANGED <<sequence, timers, greeted, peers, stray, crossed>>
    BY DEF Inbound, fleet
  <1>2. PICK w : w = Pick(k)
    OBVIOUS
  <1>3. PICK g : g = IF routes[k] = w THEN kid ELSE Loaded(kid, w, 1)
    OBVIOUS
  <1>4. IsKids(g) /\ Quiet(kid, g)
    BY <1>3, LoadedKids, QuietIs DEF IInv
  <1>5. kid' = Sent(g, w, m) /\ routes' = [routes EXCEPT ![k] = w]
    BY <1>2, <1>3 DEF Inbound
  <1>6. m \in Down /\ m.k = k
    BY DEF Down
  <1> HIDE DEF m
  <1>7. /\ IsKids(kid') /\ \A v \in Ids : kid'[v].state = kid[v].state
        /\ \A i : Leaving(kid', i) => Leaving(kid, i)
        /\ \A i : \A v \in Ids : Coming(kid', i, v) => Coming(kid, i, v) \/ (v = w /\ i = k)
    <2>1. CASE w \in Ids /\ g[w].state = "up"
      <3>1. kid' = [g EXCEPT ![w].down = Append(g[w].down, m)]
        BY <1>5, <2>1 DEF Sent
      <3>2. Append(g[w].down, m) \in Seq(Down)
        BY <1>4, <1>6, <2>1 DEF IsKids, IsKid
      <3>3. /\ IsKids(kid') /\ SameBut(g, kid', w)
            /\ Holds(kid', w, g[w].state, Append(g[w].down, m), g[w].up)
        BY <1>4, <2>1, <3>1, <3>2, KidDown
      <3>4. \A v \in Ids : kid'[v].state = kid[v].state
        BY <1>4, <3>3 DEF SameBut, Holds, Quiet
      <3>5. ASSUME NEW i, Leaving(kid', i) PROVE Leaving(kid, i)
        BY <1>4, <2>1, <3>3, <3>5, FewerLeaving, QuietWays DEF Holds
      <3>6. ASSUME NEW i, NEW v \in Ids, Coming(kid', i, v)
            PROVE  Coming(kid, i, v) \/ (v = w /\ i = k)
        <4>1. Coming(g, i, v) \/ (v = w /\ m.k = i)
          BY <1>4, <2>1, <3>3, <3>6, MoreComing DEF Holds
        <4> QED
          BY <1>4, <1>6, <4>1, QuietComing
      <3> QED
        BY <3>3, <3>4, <3>5, <3>6
    <2>2. CASE ~ (w \in Ids /\ g[w].state = "up")
      <3>1. kid' = g
        BY <1>4, <1>5, <2>2 DEF Sent, IsKids
      <3>2. \A i : Leaving(kid', i) => Leaving(kid, i)
        BY <1>4, <3>1, QuietWays
      <3>3. \A i : \A v \in Ids : Coming(kid', i, v) => Coming(kid, i, v)
        BY <1>4, <3>1, QuietComing
      <3>4. \A v \in Ids : kid'[v].state = kid[v].state
        BY <1>4, <3>1 DEF Quiet
      <3> QED
        BY <1>4, <3>1, <3>2, <3>3, <3>4
    <2> QED
      BY <2>1, <2>2
  <1>8. Rest'
    BY <1>1, <1>5 DEF IInv, Rest
  <1>9. \A v \in Ids : kid'[v].state # "up" => peers'[v] = NoPeers
    BY <1>1, <1>7 DEF IInv, UpOnly
  <1>10. ASSUME NEW v \in Ids, peers[v][k] # NoPeer, k \notin crossed
         PROVE  w = v /\ routes[k] = v
    <2>1. kid[v].state = "up" /\ routes[k] = v
      BY <1>10 DEF IInv, UpOnly, Settled, NoPeers
    <2> QED
      BY <1>2, <2>1 DEF Pick, Alive, Roster
  <1>11. ASSUME NEW v \in Ids, NEW i \in Keys, peers'[v][i] # NoPeer, i \notin crossed'
         PROVE  /\ routes'[i] = routes[i]
                /\ \A u \in Ids \ {v} : Coming(kid', i, u) => Coming(kid, i, u)
    <2>1. CASE i = k
      BY <1>1, <1>5, <1>7, <1>10, <1>11, <2>1 DEF IInv, Rest
    <2>2. CASE i # k
      BY <1>1, <1>5, <1>7, <1>11, <2>2 DEF IInv, Rest
    <2> QED
      BY <2>1, <2>2
  <1> QED
    BY <1>1, <1>7, <1>8, <1>9, <1>11, Kept

LEMMA StepRead ==
  ASSUME IInv, NEW w \in Ids, Read(w)
  PROVE  IInv'
  <1>1. UNCHANGED <<sequence, timers, greeted, peers, stray, crossed>>
    BY DEF Read, fleet
  <1>2. PICK m : m = Head(kid[w].up)
    OBVIOUS
  <1>3. PICK g : g = [kid EXCEPT ![w].up = Tail(kid[w].up)]
    OBVIOUS
  <1>4. kid[w].up \in Seq(Up) /\ kid[w].up # <<>>
    BY DEF IInv, IsKids, IsKid, Read
  <1>5. m \in Up /\ m = kid[w].up[1] /\ 1 \in DOMAIN kid[w].up /\ Tail(kid[w].up) \in Seq(Up)
    BY <1>2, <1>4
  <1>6. /\ IsKids(g) /\ SameBut(kid, g, w)
        /\ Holds(g, w, kid[w].state, kid[w].down, Tail(kid[w].up))
    BY <1>3, <1>5, KidUp DEF IInv
  <1>7. \/ m.t = "off" /\ kid' = Loaded(g, w, -1) /\ UNCHANGED routes
        \/ /\ m.t # "off" /\ routes' = [routes EXCEPT ![m.k] = NoOne]
           /\ kid' = g \/ kid' = Forget(g, m.k)
    BY <1>2, <1>3 DEF Read
  <1>8. IsKids(kid') /\ Quiet(g, kid')
    BY <1>6, <1>7, LoadedKids, ForgetKids, QuietIs
  <1>9. Rest'
    BY <1>1, <1>7 DEF IInv, Rest
  <1>10. \A v \in Ids : kid'[v].state # "up" => peers'[v] = NoPeers
    BY <1>1, <1>6, <1>8 DEF IInv, UpOnly, SameBut, Holds, Quiet
  <1>11. ASSUME NEW i, Leaving(kid', i) PROVE Leaving(kid, i)
    <2>1. Leaving(g, i)
      BY <1>8, <1>11, QuietWays
    <2> QED
      BY <1>4, <1>6, <2>1, FewerLeaving DEF IInv, Holds
  <1>12. ASSUME NEW i, NEW v \in Ids, Coming(kid', i, v) PROVE Coming(kid, i, v)
    <2>1. Coming(g, i, v)
      BY <1>8, <1>12, QuietComing
    <2> QED
      BY <1>6, <2>1, FewerComing DEF IInv, Holds
  <1>13. ASSUME NEW v \in Ids, NEW i \in Keys, peers[v][i] # NoPeer, i \notin crossed
         PROVE  routes'[i] = routes[i]
    <2>1. ~ Leaving(kid, i)
      BY <1>13 DEF IInv, Settled
    <2>2. CASE m.t = "off"
      BY <1>7, <2>2
    <2>3. CASE m.t # "off"
      <3>1. m = [t |-> "ux", k |-> m.k]
        BY <1>5, <2>3 DEF Up
      <3>2. Leaving(kid, m.k)
        BY <1>5, <3>1 DEF Leaving
      <3> QED
        BY <1>7, <2>1, <2>3, <3>2 DEF IInv, Rest
    <2> QED
      BY <2>2, <2>3
  <1> QED
    BY <1>1, <1>8, <1>9, <1>10, <1>11, <1>12, <1>13, Kept

\* w has read the first message of its queue.
Took(f, w) ==
    /\ IsKids(f) /\ SameBut(kid, f, w) /\ f[w].state = kid[w].state /\ f[w].up = kid[w].up
    /\ f[w].down = kid[w].down \/ (kid[w].down # <<>> /\ f[w].down = Tail(kid[w].down))

\* A key is dropped at w: no other worker has a peer of it that was greeted in peace.
LEMMA Dropped ==
  ASSUME IInv, NEW f, NEW w \in Ids, NEW k \in Keys, Took(f, w), Drop(f, w, k),
         UNCHANGED <<sequence, timers, greeted, routes>>, stray' \in [Ids -> SUBSET Stray],
         crossed \subseteq crossed',
         \A v \in Ids \ {w} : peers[v][k] # NoPeer => k \in crossed'
  PROVE  IInv'
  <1> DEFINE m == [t |-> "ux", k |-> k]
  <1>1. /\ kid' = [f EXCEPT ![w].up = Append(f[w].up, m)]
        /\ peers' = [peers EXCEPT ![w][k] = NoPeer]
    BY DEF Drop, Told
  <1>2. Append(f[w].up, m) \in Seq(Up)
    <2>1. f[w].up \in Seq(Up) /\ m \in Up
      BY DEF Took, IsKids, IsKid, Up
    <2> HIDE DEF m
    <2> QED
      BY <2>1
  <1>3. \A i \in Keys : m = [t |-> "ux", k |-> i] => i = k
    <2>1. ASSUME NEW i \in Keys, m = [t |-> "ux", k |-> i] PROVE i = k
      <3>1. m.k = k /\ [t |-> "ux", k |-> i].k = i
        OBVIOUS
      <3> QED
        BY <2>1, <3>1
    <2> QED
      BY <2>1
  <1> HIDE DEF m
  <1>4. /\ IsKids(kid') /\ SameBut(f, kid', w)
        /\ Holds(kid', w, f[w].state, f[w].down, Append(f[w].up, m))
    BY <1>1, <1>2, KidUp DEF Took
  <1>5. SameBut(kid, kid', w) /\ Holds(kid', w, kid[w].state, f[w].down, Append(kid[w].up, m))
    BY <1>4 DEF Took, SameBut, Holds
  <1>6. /\ peers' \in [Ids -> [Keys -> Peer]] /\ peers'[w][k] = NoPeer
        /\ \A v \in Ids : \A i \in Keys : v # w \/ i # k => peers'[v][i] = peers[v][i]
    BY <1>1 DEF IInv, Rest, Peer
  <1>7. Rest'
    BY <1>6 DEF IInv, Rest
  <1>8. \A v \in Ids : kid'[v].state # "up" => peers'[v] = NoPeers
    <2>1. \A v \in Ids : kid'[v].state = kid[v].state
      BY <1>5 DEF SameBut, Holds
    <2>2. ASSUME NEW v \in Ids, peers[v] = NoPeers PROVE peers'[v] = NoPeers
      BY <1>1, <2>2 DEF IInv, Rest, NoPeers
    <2> QED
      BY <2>1, <2>2 DEF IInv, UpOnly
  <1>9. ASSUME NEW v \in Ids, NEW i \in Keys, peers'[v][i] # NoPeer, i \notin crossed'
        PROVE  /\ peers[v][i] # NoPeer /\ i \notin crossed /\ i # k
    BY <1>6, <1>9
  <1>10. ASSUME NEW i \in Keys, i # k, Leaving(kid', i) PROVE Leaving(kid, i)
    BY <1>3, <1>5, <1>10, MoreLeaving DEF IInv, Holds
  <1>11. ASSUME NEW i \in Keys, NEW v \in Ids, Coming(kid', i, v) PROVE Coming(kid, i, v)
    BY <1>5, <1>11, FewerComing DEF IInv, Took, Holds
  <1> QED
    BY <1>4, <1>7, <1>8, <1>9, <1>10, <1>11, Kept

LEMMA StepPeerLost ==
  ASSUME IInv, NEW w \in Ids, NEW k \in Keys, PeerLost(w, k)
  PROVE  IInv'
  <1>1. Took(kid, w)
    BY DEF IInv, Took, SameBut
  <1>2. Drop(kid, w, k) /\ UNCHANGED <<sequence, timers, greeted, routes, stray, crossed>>
    BY DEF PeerLost, fleet
  <1>3. \A v \in Ids \ {w} : peers[v][k] # NoPeer => k \in crossed'
    BY <1>2 DEF IInv, Settled, PeerLost
  <1>4. stray' \in [Ids -> SUBSET Stray] /\ crossed \subseteq crossed'
    BY <1>2 DEF IInv, Rest
  <1> QED
    BY <1>1, <1>2, <1>3, <1>4, Dropped

LEMMA StepStrayDrops ==
  ASSUME IInv, NEW w \in Ids, NEW x \in stray[w], StrayDrops(w, x)
  PROVE  IInv'
  <1>1. Took(kid, w)
    BY DEF IInv, Took, SameBut
  <1>2. /\ Drop(kid, w, x.k) /\ UNCHANGED <<sequence, timers, greeted, routes>>
        /\ crossed' = IF peers[w][x.k].n # x.n THEN crossed \union {x.k} ELSE crossed
        /\ stray' = [stray EXCEPT ![w] = stray[w] \ {x}]
    BY DEF StrayDrops, fleet
  <1>3. x \in Stray /\ x.k \in Keys /\ x.n \in Nat \ {0}
    BY DEF IInv, Rest, Stray
  <1>4. stray' \in [Ids -> SUBSET Stray] /\ crossed \subseteq crossed'
    BY <1>2 DEF IInv, Rest
  <1>5. peers[w][x.k].n = x.n => peers[w][x.k] # NoPeer
    BY <1>3 DEF NoPeer
  <1>6. \A v \in Ids \ {w} : peers[v][x.k] # NoPeer => x.k \in crossed'
    BY <1>2, <1>3, <1>5 DEF IInv, Settled
  <1> QED
    BY <1>1, <1>2, <1>3, <1>4, <1>6, Dropped

LEMMA StepStrayEnds ==
  ASSUME IInv, NEW w \in Ids, NEW x \in stray[w], StrayEnds(w, x)
  PROVE  IInv'
  <1>1. stray' \in [Ids -> SUBSET Stray]
    BY DEF IInv, Rest, StrayEnds
  <1> QED
    BY <1>1, StepSame DEF StrayEnds, fleet

LEMMA StepCloseWaiting ==
  ASSUME IInv, NEW s \in Sockets, CloseWaiting(s)
  PROVE  IInv'
  <1>1. stray' \in [Ids -> SUBSET Stray]
    BY DEF IInv, Rest, CloseWaiting
  <1> QED
    BY <1>1, StepSame DEF CloseWaiting

\* A worker reads its next datagram: greeted in peace means that nothing was in doubt.
LEMMA StepReceive ==
  ASSUME IInv, NEW w \in Ids, Receive(w)
  PROVE  IInv'
  <1>1. kid[w].down \in Seq(Down) /\ kid[w].down # <<>> /\ kid[w].state = "up"
    BY DEF IInv, IsKids, IsKid, Receive
  <1>2. Head(kid[w].down) \in Down
    BY <1>1
  <1>3. PICK k \in Keys : Head(kid[w].down).k = k
    BY <1>2 DEF Down
  <1>4. PICK d \in Salts \union {"data", "reset"} : Head(kid[w].down).d = d
    BY <1>2 DEF Down
  <1>5. Coming(kid, k, w)
    <2>1. 1 \in DOMAIN kid[w].down /\ Head(kid[w].down) = kid[w].down[1]
      BY <1>1
    <2> QED
      BY <1>3, <2>1 DEF Coming
  <1>6. PICK f : f = [kid EXCEPT ![w].down = Tail(kid[w].down)]
    OBVIOUS
  <1>7. Took(f, w)
    <2>1. Tail(kid[w].down) \in Seq(Down)
      BY <1>1
    <2>2. /\ IsKids(f) /\ SameBut(kid, f, w)
          /\ Holds(f, w, kid[w].state, Tail(kid[w].down), kid[w].up)
      BY <1>6, <2>1, KidDown DEF IInv
    <2> QED
      BY <1>1, <2>2 DEF Took, Holds
  <1>8. UNCHANGED <<sequence, timers, routes>>
    BY DEF Receive, fleet
  <1>9. \A i : Leaving(f, i) => Leaving(kid, i)
    BY <1>7, FewerLeaving DEF Took, IInv
  <1>10. \A i : \A v \in Ids : Coming(f, i, v) => Coming(kid, i, v)
    BY <1>7, FewerComing DEF Took, IInv
  <1>11. \A v \in Ids : f[v].state = kid[v].state
    BY <1>7 DEF Took, SameBut
  <1>12. \A v \in Ids \ {w} : peers[v][k] # NoPeer => k \in crossed
    BY <1>5 DEF IInv, Settled
  <1>13. CASE /\ kid' = f /\ UNCHANGED <<peers, greeted, crossed>>
              /\ stray' \in [Ids -> SUBSET Stray]
    <2>1. Rest' /\ IsKids(kid')
      BY <1>7, <1>8, <1>13 DEF IInv, Rest, Took
    <2>2. \A v \in Ids : kid'[v].state # "up" => peers'[v] = NoPeers
      BY <1>11, <1>13 DEF IInv, UpOnly
    <2> QED
      BY <1>8, <1>9, <1>10, <1>13, <2>1, <2>2, Kept
  <1>14. CASE Drop(f, w, k) /\ UNCHANGED <<greeted, stray, crossed>>
    <2>1. stray' \in [Ids -> SUBSET Stray] /\ crossed \subseteq crossed'
      BY <1>14 DEF IInv, Rest
    <2> QED
      BY <1>7, <1>8, <1>12, <1>14, <2>1, Dropped
  <1>15. CASE /\ d \in Salts /\ greeted' = greeted + 1 /\ UNCHANGED stray
              /\ peers' = [peers EXCEPT ![w][k] = [n |-> greeted + 1, salt |-> d]]
              /\ kid' = f
              /\ crossed' = IF InDoubt(k, w) THEN crossed \union {k} ELSE crossed
    <2>1. greeted \in Nat /\ peers \in [Ids -> [Keys -> Peer]]
      BY DEF IInv, Rest
    <2>2. [n |-> greeted + 1, salt |-> d] \in Peer
      BY <1>15, <2>1 DEF Peer
    <2>3. /\ peers' \in [Ids -> [Keys -> Peer]]
          /\ \A v \in Ids : \A i \in Keys : v # w \/ i # k => peers'[v][i] = peers[v][i]
          /\ \A v \in Ids \ {w} : peers'[v] = peers[v]
      BY <1>15, <2>1, <2>2
    <2>4. Rest' /\ IsKids(kid')
      BY <1>7, <1>8, <1>15, <2>1, <2>3 DEF IInv, Rest, Took
    <2>5. UpOnly'
      BY <1>1, <1>11, <1>15, <2>3 DEF IInv, UpOnly
    <2>6. ASSUME NEW v \in Ids, NEW i \in Keys, peers'[v][i] # NoPeer, i \notin crossed'
          PROVE  /\ routes'[i] = v /\ ~ Leaving(kid', i)
                 /\ \A u \in Ids \ {v} : ~ Coming(kid', i, u)
      <3>1. CASE v = w /\ i = k
        <4>1. ~ InDoubt(k, w)
          BY <1>15, <2>6, <3>1
        <4> QED
          BY <1>8, <1>9, <1>10, <1>15, <3>1, <4>1, DoubtIs
      <3>2. CASE v # w \/ i # k
        <4>1. peers[v][i] # NoPeer /\ i \notin crossed
          BY <1>15, <2>3, <2>6, <3>2
        <4> QED
          BY <1>8, <1>9, <1>10, <1>15, <4>1 DEF IInv, Settled
      <3> QED
        BY <3>1, <3>2
    <2> QED
      BY <2>4, <2>5, <2>6 DEF IInv, Settled
  <1> DEFINE x == [k |-> k, n |-> peers[w][k].n]
  <1>16. CASE /\ d = "data" /\ peers[w][k] # NoPeer /\ kid' = f
              /\ stray' = [stray EXCEPT ![w] = stray[w] \union {x}]
              /\ UNCHANGED <<peers, greeted, crossed>>
    <2>1. x \in Stray
      BY <1>16 DEF IInv, Rest, Peer, Stray
    <2> HIDE DEF x
    <2>2. stray' \in [Ids -> SUBSET Stray]
      BY <1>16, <2>1 DEF IInv, Rest
    <2> QED
      BY <1>13, <1>16, <2>2
  <1>17. CASE kid' = f /\ UNCHANGED <<peers, greeted, stray, crossed>>
    <2>1. stray' \in [Ids -> SUBSET Stray]
      BY <1>17 DEF IInv, Rest
    <2> QED
      BY <1>13, <1>17, <2>1
  <1>18. \/ kid' = f /\ UNCHANGED <<peers, greeted, stray, crossed>>
         \/ /\ d \in Salts /\ greeted' = greeted + 1 /\ UNCHANGED stray
            /\ peers' = [peers EXCEPT ![w][k] = [n |-> greeted + 1, salt |-> d]]
            /\ kid' = f
            /\ crossed' = IF InDoubt(k, w) THEN crossed \union {k} ELSE crossed
         \/ Drop(f, w, k) /\ UNCHANGED <<greeted, stray, crossed>>
         \/ /\ d = "data" /\ peers[w][k] # NoPeer /\ kid' = f
            /\ stray' = [stray EXCEPT ![w] = stray[w] \union {x}]
            /\ UNCHANGED <<peers, greeted, crossed>>
    BY <1>3, <1>4, <1>6 DEF Receive, Greeted
  <1> QED
    BY <1>14, <1>15, <1>16, <1>17, <1>18

-----------------------------------------------------------------------------
LEMMA StepIInv == IInv /\ [Next]_vars => IInv'
  <1> SUFFICES ASSUME IInv, [Next]_vars PROVE IInv'
    OBVIOUS
  <1>1. ASSUME NEW s \in Sockets, Dispatch(s) \/ CloseWaiting(s) \/ CloseHeld(s) PROVE IInv'
    BY <1>1, StepDispatch, StepCloseWaiting, StepCloseHeld
  <1>2. CASE Spawn
    BY <1>2, StepSpawn
  <1>3. ASSUME NEW w \in Ids, Die(w) \/ Disconnect(w) \/ Exit(w) PROVE IInv'
    BY <1>3, StepDie, StepDisconnect, StepExit
  <1>4. ASSUME NEW w \in Ids, Read(w) \/ Receive(w) PROVE IInv'
    BY <1>4, StepRead, StepReceive
  <1>5. ASSUME NEW k \in Keys, NEW d \in Salts \union {"data", "reset"}, Inbound(k, d)
        PROVE  IInv'
    BY <1>5, StepInbound
  <1>6. ASSUME NEW k \in Keys, InboundNobody(k) PROVE IInv'
    BY <1>6, StepInboundNobody
  <1>7. ASSUME NEW w \in Ids, NEW k \in Keys, PeerLost(w, k) PROVE IInv'
    BY <1>7, StepPeerLost
  <1>8. ASSUME NEW w \in Ids, NEW x \in stray[w], StrayEnds(w, x) \/ StrayDrops(w, x)
        PROVE  IInv'
    BY <1>8, StepStrayEnds, StepStrayDrops
  <1>9. CASE UNCHANGED vars
    <2>1. UNCHANGED <<sequence, kid, timers, routes, peers, greeted, stray, crossed>>
      BY <1>9 DEF vars
    <2>2. stray' \in [Ids -> SUBSET Stray]
      BY <2>1 DEF IInv, Rest
    <2> QED
      BY <2>1, <2>2, StepSame
  <1> QED
    BY <1>1, <1>2, <1>3, <1>4, <1>5, <1>6, <1>7, <1>8, <1>9 DEF Next

\* A peer stays at the worker that greeted it, and no key has peers at two workers,
\* unless its key was in doubt when it was greeted or was dropped for another peer:
\* for any number of workers, keys, exits and messages on the way (pick, forget).
THEOREM RoutesKept == Spec => []RouteKept
  <1>1. IInv => RouteKept
    BY DEF IInv, Settled, RouteKept
  <1> QED
    BY <1>1, InitIInv, StepIInv, PTL DEF Spec

-----------------------------------------------------------------------------
(* The size of the fleet.  Only four actions change what a worker is.      *)

IsRecords(f) ==
    /\ f = [w \in Ids |-> f[w]]
    /\ \A w \in Ids :
        f[w] = [state |-> f[w].state, load |-> f[w].load, down |-> f[w].down, up |-> f[w].up]

StatesOf(f, g) == \A v \in Ids : g[v].state = f[v].state

LEMMA FieldStates ==
  ASSUME NEW f, IsRecords(f), NEW w, NEW x, NEW g,
         \/ g = [f EXCEPT ![w].load = x]
         \/ g = [f EXCEPT ![w].down = x]
         \/ g = [f EXCEPT ![w].up = x]
  PROVE  IsRecords(g) /\ StatesOf(f, g)
  <1> DEFINE Sound(v) == /\ g[v] = [state |-> g[v].state, load |-> g[v].load,
                                    down |-> g[v].down, up |-> g[v].up]
                         /\ g[v].state = f[v].state
  <1>1. g = [v \in Ids |-> g[v]] /\ \A v \in Ids \ {w} : g[v] = f[v]
    BY DEF IsRecords
  <1>2. ASSUME NEW v \in Ids, v # w PROVE Sound(v)
    BY <1>1, <1>2 DEF IsRecords
  <1>3. ASSUME w \in Ids PROVE Sound(w)
    <2>1. CASE g = [f EXCEPT ![w].load = x]
      BY <1>3, <2>1 DEF IsRecords
    <2>2. CASE g = [f EXCEPT ![w].down = x]
      BY <1>3, <2>2 DEF IsRecords
    <2>3. CASE g = [f EXCEPT ![w].up = x]
      BY <1>3, <2>3 DEF IsRecords
    <2> QED
      BY <2>1, <2>2, <2>3
  <1>4. \A v \in Ids : Sound(v)
    BY <1>2, <1>3
  <1> QED
    BY <1>1, <1>4 DEF IsRecords, StatesOf

LEMMA LoadedStates ==
  ASSUME NEW f, IsRecords(f), NEW w, NEW by
  PROVE  IsRecords(Loaded(f, w, by)) /\ StatesOf(f, Loaded(f, w, by))
  <1> DEFINE x == IF f[w].load + by < 0 THEN 0 ELSE f[w].load + by
             g == [f EXCEPT ![w].load = x]
  <1>1. Loaded(f, w, by) = g
    BY DEF Loaded
  <1>2. g = [f EXCEPT ![w].load = x]
    OBVIOUS
  <1> HIDE DEF x, g
  <1> QED
    BY <1>1, <1>2, FieldStates

LEMMA SentStates ==
  ASSUME NEW f, IsRecords(f), NEW w, NEW m
  PROVE  StatesOf(f, Sent(f, w, m))
  <1> DEFINE x == Append(f[w].down, m)
             g == [f EXCEPT ![w].down = x]
  <1>1. Sent(f, w, m) = g \/ Sent(f, w, m) = f
    BY DEF Sent
  <1>2. g = [f EXCEPT ![w].down = x] /\ StatesOf(f, f)
    BY DEF StatesOf
  <1> HIDE DEF x, g
  <1> QED
    BY <1>1, <1>2, FieldStates

LEMMA ToldStates ==
  ASSUME NEW f, IsRecords(f), NEW w, NEW k
  PROVE  StatesOf(f, Told(f, w, k))
  <1> DEFINE x == Append(f[w].up, [t |-> "ux", k |-> k])
             g == [f EXCEPT ![w].up = x]
  <1>1. Told(f, w, k) = g
    BY DEF Told
  <1>2. g = [f EXCEPT ![w].up = x]
    OBVIOUS
  <1> HIDE DEF x, g
  <1> QED
    BY <1>1, <1>2, FieldStates

LEMMA ForgetStates ==
  ASSUME NEW f, IsRecords(f), NEW k
  PROVE  StatesOf(f, Forget(f, k))
  BY LoadedStates DEF Forget, StatesOf

LEMMA StatesThrough ==
  ASSUME NEW f, NEW g, NEW h, StatesOf(f, g), StatesOf(g, h)
  PROVE  StatesOf(f, h)
  BY DEF StatesOf

LEMMA StatesSelf == \A f : StatesOf(f, f)
  BY DEF StatesOf

LEMMA StatesKept ==
  ASSUME IsRecords(kid), NEW w \in Ids,
         \/ \E s \in Sockets : Dispatch(s) \/ CloseWaiting(s) \/ CloseHeld(s)
         \/ Read(w) \/ Receive(w)
         \/ \E k \in Keys : \E d \in Salts \union {"data", "reset"} : Inbound(k, d)
         \/ \E k \in Keys : InboundNobody(k) \/ PeerLost(w, k)
         \/ \E x \in stray[w] : StrayEnds(w, x) \/ StrayDrops(w, x)
  PROVE  StatesOf(kid, kid') /\ UNCHANGED <<sequence, timers>>
  <1> USE StatesSelf
  <1>1. ASSUME NEW s \in Sockets, Dispatch(s) \/ CloseWaiting(s)
        PROVE  StatesOf(kid, kid') /\ UNCHANGED <<sequence, timers>>
    <2>1. UNCHANGED kid \/ \E v : kid' = Loaded(kid, v, 1)
      BY <1>1 DEF Dispatch, CloseWaiting
    <2>2. UNCHANGED <<sequence, timers>>
      BY <1>1 DEF Dispatch, CloseWaiting
    <2> QED
      BY <2>1, <2>2, LoadedStates
  <1>2. ASSUME NEW s \in Sockets, CloseHeld(s)
        PROVE  StatesOf(kid, kid') /\ UNCHANGED <<sequence, timers>>
    <2>1. PICK v : v = socket[s]
      OBVIOUS
    <2>2. PICK x : x = Append(kid[v].up, [t |-> "off"])
      OBVIOUS
    <2>3. kid' = [kid EXCEPT ![v].up = x]
      BY <1>2, <2>1, <2>2 DEF CloseHeld
    <2>4. UNCHANGED <<sequence, timers>>
      BY <1>2 DEF CloseHeld
    <2> QED
      BY <2>3, <2>4, FieldStates
  <1>3. ASSUME Read(w)
        PROVE  StatesOf(kid, kid') /\ UNCHANGED <<sequence, timers>>
    <2>1. PICK x : x = Tail(kid[w].up)
      OBVIOUS
    <2>2. PICK g : g = [kid EXCEPT ![w].up = x]
      OBVIOUS
    <2>3. IsRecords(g) /\ StatesOf(kid, g)
      BY <2>2, FieldStates
    <2>4. kid' = g \/ kid' = Loaded(g, w, -1) \/ \E k : kid' = Forget(g, k)
      BY <1>3, <2>1, <2>2 DEF Read
    <2>5. StatesOf(g, kid')
      BY <2>3, <2>4, LoadedStates, ForgetStates
    <2>6. UNCHANGED <<sequence, timers>>
      BY <1>3 DEF Read, fleet
    <2> QED
      BY <2>3, <2>5, <2>6, StatesThrough
  <1>4. ASSUME Receive(w)
        PROVE  StatesOf(kid, kid') /\ UNCHANGED <<sequence, timers>>
    <2>1. PICK x : x = Tail(kid[w].down)
      OBVIOUS
    <2>2. PICK g : g = [kid EXCEPT ![w].down = x]
      OBVIOUS
    <2>3. IsRecords(g) /\ StatesOf(kid, g)
      BY <2>2, FieldStates
    <2>4. kid' = g \/ \E k : kid' = Told(g, w, k)
      BY <1>4, <2>1, <2>2 DEF Receive, Drop, Greeted
    <2>5. StatesOf(g, kid')
      BY <2>3, <2>4, ToldStates
    <2>6. UNCHANGED <<sequence, timers>>
      BY <1>4 DEF Receive, fleet
    <2> QED
      BY <2>3, <2>5, <2>6, StatesThrough
  <1>5. ASSUME NEW k \in Keys, NEW d \in Salts \union {"data", "reset"}, Inbound(k, d)
        PROVE  StatesOf(kid, kid') /\ UNCHANGED <<sequence, timers>>
    <2>1. PICK v : v = Pick(k)
      OBVIOUS
    <2>2. PICK g : g = IF routes[k] = v THEN kid ELSE Loaded(kid, v, 1)
      OBVIOUS
    <2>3. IsRecords(g) /\ StatesOf(kid, g)
      BY <2>2, LoadedStates
    <2>4. kid' = Sent(g, v, [k |-> k, d |-> d])
      BY <1>5, <2>1, <2>2 DEF Inbound
    <2>5. StatesOf(g, kid')
      BY <2>3, <2>4, SentStates
    <2>6. UNCHANGED <<sequence, timers>>
      BY <1>5 DEF Inbound, fleet
    <2> QED
      BY <2>3, <2>5, <2>6, StatesThrough
  <1>6. ASSUME NEW k \in Keys, InboundNobody(k) \/ PeerLost(w, k)
        PROVE  StatesOf(kid, kid') /\ UNCHANGED <<sequence, timers>>
    <2>1. kid' = kid \/ kid' = Told(kid, w, k)
      BY <1>6 DEF InboundNobody, PeerLost, Drop
    <2>2. UNCHANGED <<sequence, timers>>
      BY <1>6 DEF InboundNobody, PeerLost, fleet
    <2> QED
      BY <2>1, <2>2, ToldStates
  <1>7. ASSUME NEW x \in stray[w], StrayEnds(w, x) \/ StrayDrops(w, x)
        PROVE  StatesOf(kid, kid') /\ UNCHANGED <<sequence, timers>>
    <2>1. kid' = kid \/ kid' = Told(kid, w, x.k)
      BY <1>7 DEF StrayEnds, StrayDrops, Drop
    <2>2. UNCHANGED <<sequence, timers>>
      BY <1>7 DEF StrayEnds, StrayDrops, fleet
    <2> QED
      BY <2>1, <2>2, ToldStates
  <1> QED
    BY <1>1, <1>2, <1>3, <1>4, <1>5, <1>6, <1>7

\* Ids are used in order, and each worker that is due is on the roster or has a timer.
Whole == /\ sequence \in Nat /\ timers \in Nat
         /\ \A w \in Ids : w > sequence => kid[w].state = "new"
         /\ IsRecords(kid) /\ IsFiniteSet(Roster) /\ FleetWhole

LEMMA IInvRecords == IInv => IsRecords(kid)
  BY DEF IInv, IsKids, IsKid, IsRecords

LEMMA InitWhole == Init => Whole
  <1> SUFFICES ASSUME Init PROVE Whole
    OBVIOUS
  <1>1. IsRecords(kid)
    BY InitIInv, IInvRecords
  <1>2. Size \in Nat /\ MaxId \in Nat /\ Size <= MaxId
    BY WorkersAssumption
  <1>3. /\ sequence = Size /\ timers = 0
        /\ \A w \in Ids : kid[w].state = IF w <= Size THEN "up" ELSE "new"
    BY DEF Init
  <1>4. Roster = 1 .. Size
    BY <1>2, <1>3 DEF Roster, Ids
  <1>5. IsFiniteSet(1 .. Size) /\ Cardinality(1 .. Size) = Size
    <2>1. 1 \in Int /\ Size \in Int /\ Size >= 1
      BY WorkersAssumption
    <2>2. Cardinality(1 .. Size) = Size - 1 + 1 /\ IsFiniteSet(1 .. Size)
      BY <2>1, FS_Interval
    <2> QED
      BY <2>1, <2>2
  <1> QED
    BY <1>1, <1>2, <1>3, <1>4, <1>5 DEF Whole, FleetWhole, Ids

LEMMA WholeSame ==
  ASSUME Whole, IsRecords(kid'), StatesOf(kid, kid'), UNCHANGED <<sequence, timers>>
  PROVE  Whole'
  <1>1. Roster' = Roster
    BY DEF Roster, StatesOf
  <1>2. \A w \in Ids : w > sequence' => kid'[w].state = "new"
    BY DEF Whole, StatesOf
  <1> QED
    BY <1>1, <1>2 DEF Whole, FleetWhole

LEMMA WholeDies ==
  ASSUME Whole, IsRecords(kid'), NEW w \in Ids, Die(w) \/ Disconnect(w)
  PROVE  Whole'
  <1>1. UNCHANGED <<sequence, timers>>
    BY DEF Die, Disconnect, fleet
  <1>2. /\ kid[w].state \in {"up", "dead"} /\ kid'[w].state \in {"dead", "cut"}
        /\ \A v \in Ids \ {w} : kid'[v].state = kid[v].state
    <2>1. CASE Die(w)
      BY <2>1 DEF Die, Whole, IsRecords
    <2>2. CASE Disconnect(w)
      BY <2>2 DEF Disconnect, Whole, IsRecords
    <2> QED
      BY <2>1, <2>2
  <1>3. Roster' = Roster
    BY <1>2 DEF Roster
  <1>4. \A v \in Ids : v > sequence' => kid'[v].state = "new"
    BY <1>1, <1>2 DEF Whole
  <1> QED
    BY <1>1, <1>3, <1>4 DEF Whole, FleetWhole

LEMMA WholeExits ==
  ASSUME Whole, IsRecords(kid'), NEW w \in Ids, Exit(w)
  PROVE  Whole'
  <1>1. sequence' = sequence /\ timers' = timers + 1
    BY DEF Exit
  <1>2. /\ kid[w].state = "cut" /\ kid'[w].state = "gone"
        /\ \A v \in Ids \ {w} : kid'[v].state = kid[v].state
    BY DEF Exit, Whole, IsRecords
  <1>3. Roster' = Roster \ {w} /\ w \in Roster
    BY <1>2 DEF Roster
  <1>4. IsFiniteSet(Roster') /\ Cardinality(Roster') = Cardinality(Roster) - 1
    BY <1>3, FS_RemoveElement DEF Whole
  <1>5. Cardinality(Roster) \in Nat
    BY FS_CardinalityType DEF Whole
  <1>6. \A v \in Ids : v > sequence' => kid'[v].state = "new"
    BY <1>1, <1>2 DEF Whole
  <1>7. (FleetWhole)'
    BY <1>1, <1>4, <1>5 DEF Whole, FleetWhole
  <1> QED
    BY <1>1, <1>4, <1>6, <1>7 DEF Whole

LEMMA WholeSpawns ==
  ASSUME Whole, IsRecords(kid'), Spawn
  PROVE  Whole'
  <1>1. /\ timers > 0 /\ timers' = timers - 1 /\ sequence' = sequence + 1
        /\ sequence < MaxId /\ sequence \in Nat /\ timers \in Nat /\ MaxId \in Nat
    BY WorkersAssumption DEF Spawn, Whole
  <1>2. PICK w \in Ids : w = sequence + 1
    BY <1>1 DEF Ids
  <1>3. kid[w].state = "new"
    BY <1>1, <1>2 DEF Whole
  <1>4. kid'[w].state = "up" /\ \A v \in Ids \ {w} : kid'[v].state = kid[v].state
    <2>1. kid' = [kid EXCEPT ![w] = [kid[w] EXCEPT !.state = "up", !.load = Len(pending)]]
      BY <1>2 DEF Spawn
    <2>2. IsRecords(kid)
      BY DEF Whole
    <2>3. \A v \in Ids \ {w} : kid'[v] = kid[v]
      BY <2>1, <2>2 DEF IsRecords
    <2>4. kid'[w] = [kid[w] EXCEPT !.state = "up", !.load = Len(pending)]
      BY <2>1, <2>2 DEF IsRecords
    <2>5. kid'[w].state = "up"
      BY <2>2, <2>4 DEF IsRecords
    <2> QED
      BY <2>3, <2>5
  <1>5. Roster' = Roster \union {w} /\ w \notin Roster
    BY <1>3, <1>4 DEF Roster
  <1>6. IsFiniteSet(Roster') /\ Cardinality(Roster') = Cardinality(Roster) + 1
    BY <1>5, FS_AddElement DEF Whole
  <1>7. Cardinality(Roster) \in Nat
    BY FS_CardinalityType DEF Whole
  <1>8. \A v \in Ids : v > sequence' => kid'[v].state = "new"
    BY <1>1, <1>2, <1>4 DEF Whole, Ids
  <1>9. (FleetWhole)'
    BY <1>1, <1>6, <1>7 DEF Whole, FleetWhole
  <1> QED
    BY <1>1, <1>6, <1>8, <1>9 DEF Whole

LEMMA StepWhole == IInv /\ Whole /\ [Next]_vars => Whole'
  <1> SUFFICES ASSUME IInv, Whole, [Next]_vars PROVE Whole'
    OBVIOUS
  <1>1. IsRecords(kid')
    <2>1. IInv'
      BY StepIInv
    <2> QED
      BY <2>1 DEF IInv, IsKids, IsKid, IsRecords
  <1>2. IsRecords(kid) /\ 1 \in Ids
    BY WorkersAssumption DEF Whole, Ids
  <1>3. CASE Spawn
    BY <1>1, <1>3, WholeSpawns
  <1>4. ASSUME NEW w \in Ids, Die(w) \/ Disconnect(w) \/ Exit(w) PROVE Whole'
    BY <1>1, <1>4, WholeDies, WholeExits
  <1>5. CASE UNCHANGED vars
    BY <1>1, <1>5, WholeSame, StatesSelf DEF vars
  <1>6. ASSUME StatesOf(kid, kid'), UNCHANGED <<sequence, timers>> PROVE Whole'
    BY <1>1, <1>6, WholeSame
  <1>7. ASSUME NEW s \in Sockets, Dispatch(s) \/ CloseWaiting(s) \/ CloseHeld(s) PROVE Whole'
    BY <1>2, <1>6, <1>7, StatesKept
  <1>8. ASSUME NEW w \in Ids, Read(w) \/ Receive(w) PROVE Whole'
    BY <1>2, <1>6, <1>8, StatesKept
  <1>9. ASSUME NEW k \in Keys, NEW d \in Salts \union {"data", "reset"}, Inbound(k, d)
        PROVE  Whole'
    BY <1>2, <1>6, <1>9, StatesKept
  <1>10. ASSUME NEW w \in Ids, NEW k \in Keys, InboundNobody(k) \/ PeerLost(w, k)
         PROVE  Whole'
    BY <1>2, <1>6, <1>10, StatesKept
  <1>11. ASSUME NEW w \in Ids, NEW x \in stray[w], StrayEnds(w, x) \/ StrayDrops(w, x)
         PROVE  Whole'
    BY <1>2, <1>6, <1>11, StatesKept
  <1> QED
    BY <1>2, <1>3, <1>4, <1>5, <1>7, <1>8, <1>9, <1>10, <1>11 DEF Next

-----------------------------------------------------------------------------
(* The loads.                                                              *)

\* The library's well-foundedness of < on Nat, as a least element.
LEMMA NatLeast ==
  ASSUME NEW T, T \subseteq Nat, T # {}
  PROVE  \E x \in T : \A y \in T : x <= y
  <1> DEFINE R == OpToRel(<, Nat)
  <1>1. IsWellFoundedOn(R, Nat)
    BY NatLessThanWellFounded
  <1> HIDE DEF R
  <1>2. PICK x \in T : \A y \in T : ~ (<<y, x>> \in R)
    BY <1>1, WFMin, Zenon
  <1>3. \A y \in T : ~ (y < x)
    BY <1>2 DEF R, OpToRel
  <1> QED
    BY <1>3

LEMMA LeastIn ==
  ASSUME NEW ws, ws \subseteq Ids, ws # {}, \A w \in ws : kid[w].load \in Nat
  PROVE  Least(ws) \in ws
  <1> DEFINE T == {kid[w].load : w \in ws}
  <1>1. PICK x \in T : \A y \in T : x <= y
    BY NatLeast
  <1> DEFINE V == {w \in ws : kid[w].load = x}
  <1>2. V \subseteq Nat /\ V # {}
    <2>1. V \subseteq Nat
      BY DEF Ids
    <2>2. PICK w \in ws : kid[w].load = x
      OBVIOUS
    <2> QED
      BY <2>1, <2>2
  <1>3. PICK w \in V : \A v \in V : w <= v
    BY <1>2, NatLeast
  <1>4. \A v \in ws :
          kid[w].load < kid[v].load \/ (kid[w].load = kid[v].load /\ w <= v)
    <2> SUFFICES ASSUME NEW v \in ws
                 PROVE  kid[w].load < kid[v].load \/ (kid[w].load = kid[v].load /\ w <= v)
      OBVIOUS
    <2>1. kid[w].load = x /\ x <= kid[v].load /\ x \in Nat /\ kid[v].load \in Nat
      BY <1>1
    <2>2. kid[v].load = x => w <= v
      BY <1>3
    <2> QED
      BY <2>1, <2>2
  <1> QED
    BY <1>3, <1>4 DEF Least

LEMMA LoadsSame ==
  ASSUME NEW f, IsRecords(f), NEW w, NEW x, NEW g,
         \/ g = [f EXCEPT ![w].state = x]
         \/ g = [f EXCEPT ![w].down = x]
         \/ g = [f EXCEPT ![w].up = x]
  PROVE  \A v \in Ids : g[v].load = f[v].load
  <1>1. \A v \in Ids \ {w} : g[v] = f[v]
    BY DEF IsRecords
  <1>2. ASSUME w \in Ids PROVE g[w].load = f[w].load
    <2>1. CASE g = [f EXCEPT ![w].state = x]
      BY <1>2, <2>1 DEF IsRecords
    <2>2. CASE g = [f EXCEPT ![w].down = x]
      BY <1>2, <2>2 DEF IsRecords
    <2>3. CASE g = [f EXCEPT ![w].up = x]
      BY <1>2, <2>3 DEF IsRecords
    <2> QED
      BY <2>1, <2>2, <2>3
  <1> QED
    BY <1>1, <1>2

LEMMA LoadedUp ==
  ASSUME NEW f, IsRecords(f), NEW w \in Ids, f[w].load \in Nat, NEW g, g = Loaded(f, w, 1)
  PROVE  g[w].load = f[w].load + 1 /\ \A v \in Ids \ {w} : g[v].load = f[v].load
  <1>1. PICK x : x = f[w].load + 1
    OBVIOUS
  <1>2. ~ (f[w].load + 1 < 0)
    OBVIOUS
  <1>3. g = [f EXCEPT ![w].load = x]
    BY <1>1, <1>2 DEF Loaded
  <1>4. g[w].load = x /\ \A v \in Ids \ {w} : g[v].load = f[v].load
    BY <1>3 DEF IsRecords
  <1> QED
    BY <1>1, <1>4

LEMMA LoadedDown ==
  ASSUME NEW f, IsRecords(f), NEW w \in Ids, f[w].load \in Nat, NEW g, g = Loaded(f, w, -1)
  PROVE  /\ g[w].load = IF f[w].load = 0 THEN 0 ELSE f[w].load - 1
         /\ \A v \in Ids \ {w} : g[v].load = f[v].load
  <1>1. PICK x : x = IF f[w].load = 0 THEN 0 ELSE f[w].load - 1
    OBVIOUS
  <1>2. (IF f[w].load + -1 < 0 THEN 0 ELSE f[w].load + -1) = x
    BY <1>1
  <1>3. g = [f EXCEPT ![w].load = IF f[w].load + -1 < 0 THEN 0 ELSE f[w].load + -1]
    BY DEF Loaded
  <1>4. g = [f EXCEPT ![w].load = x]
    BY <1>2, <1>3
  <1>5. g[w].load = x /\ \A v \in Ids \ {w} : g[v].load = f[v].load
    BY <1>4 DEF IsRecords
  <1> QED
    BY <1>1, <1>5

-----------------------------------------------------------------------------
\* What the load of a worker is made of, each of it finite.
Owns(r, w) == {k \in Keys : r[k] = w}
Has(s, w)  == {t \in Sockets : s[t] = w}
Closes(q)  == {i \in DOMAIN q : q[i].t = "off"}

Tally(f, r, s, w) ==
    /\ IsFiniteSet(Owns(r, w)) /\ IsFiniteSet(Has(s, w)) /\ IsFiniteSet(Closes(f[w].up))
    /\ f[w].load = Cardinality(Owns(r, w)) + Cardinality(Has(s, w))
                     + Cardinality(Closes(f[w].up))

LEMMA ClosesMore ==
  ASSUME NEW q \in Seq(Up), NEW m, IsFiniteSet(Closes(q))
  PROVE  LET c == Closes(Append(q, m)) IN
         /\ IsFiniteSet(c)
         /\ m.t = "off" => Cardinality(c) = Cardinality(Closes(q)) + 1
         /\ m.t # "off" => c = Closes(q)
  <1>1. PICK c : c = Closes(Append(q, m))
    OBVIOUS
  <1>2. PICK z : z = Len(q) + 1
    OBVIOUS
  <1>3. /\ DOMAIN Append(q, m) = DOMAIN q \union {z} /\ z \notin DOMAIN q
        /\ Append(q, m)[z] = m /\ \A i \in DOMAIN q : Append(q, m)[i] = q[i]
    BY <1>2
  <1>4. CASE m.t = "off"
    <2>1. c = Closes(q) \union {z} /\ z \notin Closes(q)
      BY <1>1, <1>3, <1>4 DEF Closes
    <2>2. IsFiniteSet(c) /\ Cardinality(c) = Cardinality(Closes(q)) + 1
      BY <2>1, FS_AddElement
    <2> QED
      BY <1>1, <1>4, <2>2
  <1>5. CASE m.t # "off"
    <2>1. c = Closes(q)
      BY <1>1, <1>3, <1>5 DEF Closes
    <2> QED
      BY <1>1, <1>5, <2>1
  <1> QED
    BY <1>4, <1>5

LEMMA ClosesFewer ==
  ASSUME NEW q \in Seq(Up), q # <<>>, IsFiniteSet(Closes(q))
  PROVE  /\ IsFiniteSet(Closes(Tail(q)))
         /\ Head(q).t = "off" => Cardinality(Closes(q)) = Cardinality(Closes(Tail(q))) + 1
         /\ Head(q).t # "off" => Cardinality(Closes(q)) = Cardinality(Closes(Tail(q)))
  <1>1. PICK r : r = Tail(q)
    OBVIOUS
  <1>2. PICK c : c = Closes(q) \ {1}
    OBVIOUS
  <1>3. /\ 1 \in DOMAIN q /\ Head(q) = q[1]
        /\ \A i \in DOMAIN r : i \in Nat /\ i + 1 \in DOMAIN q /\ i + 1 # 1 /\ r[i] = q[i + 1]
        /\ \A i \in DOMAIN q \ {1} : i \in Nat /\ i - 1 \in DOMAIN r /\ r[i - 1] = q[i]
    BY <1>1
  <1>4. IsFiniteSet(c)
    BY <1>2, FS_Subset
  <1> DEFINE h == [i \in c |-> i - 1]
  <1>5. h \in [c -> Closes(r)]
    BY <1>2, <1>3 DEF Closes
  <1>6. \A i, j \in c : h[i] = h[j] => i = j
    BY <1>2, <1>3 DEF Closes
  <1>7. \A j \in Closes(r) : \E i \in c : h[i] = j
    <2> SUFFICES ASSUME NEW j \in Closes(r) PROVE \E i \in c : h[i] = j
      OBVIOUS
    <2>1. j + 1 \in c /\ j \in Nat
      BY <1>2, <1>3 DEF Closes
    <2> QED
      BY <2>1
  <1>8. h \in Bijection(c, Closes(r))
    BY <1>5, <1>6, <1>7 DEF Bijection, Injection, Surjection, IsInjective
  <1>9. IsFiniteSet(Closes(r)) /\ Cardinality(Closes(r)) = Cardinality(c)
    BY <1>4, <1>8, FS_Bijection DEF ExistsBijection
  <1>10. CASE Head(q).t = "off"
    <2>1. 1 \in Closes(q)
      BY <1>3, <1>10 DEF Closes
    <2>2. Cardinality(c) = Cardinality(Closes(q)) - 1
      BY <1>2, <2>1, FS_RemoveElement
    <2>3. Cardinality(Closes(q)) \in Nat
      BY FS_CardinalityType
    <2> QED
      BY <1>1, <1>9, <1>10, <2>2, <2>3
  <1>11. CASE Head(q).t # "off"
    <2>1. c = Closes(q)
      BY <1>2, <1>3, <1>11 DEF Closes
    <2> QED
      BY <1>1, <1>9, <1>11, <2>1
  <1> QED
    BY <1>10, <1>11

-----------------------------------------------------------------------------
\* The load of each that lives is what it has, and one that is yet to come has nothing.
Nothing(w) == kid[w].up = <<>> /\ Owns(routes, w) = {} /\ Has(socket, w) = {}

Even ==
    /\ \A w \in Ids : kid[w].load \in Nat
    /\ socket \in [Sockets -> {New, Waiting, Closed} \union Ids]
    /\ routes \in [Keys -> Ids \union {NoOne}]
    /\ \A w \in Ids : kid[w].state = "up" => Tally(kid, routes, socket, w)
    /\ \A w \in Ids : kid[w].state = "new" => Nothing(w)

\* Those that wait are the queue, each once, and no worker could have them.
Line ==
    /\ pending \in Seq(Sockets) /\ Len(pending) <= PendingLimit
    /\ \A i, j \in DOMAIN pending : pending[i] = pending[j] => i = j
    /\ \A t \in Sockets : socket[t] = Waiting <=> \E i \in DOMAIN pending : pending[i] = t
    /\ pending # <<>> => Alive = {}

Ready == IInv /\ Whole /\ Even /\ Line

LEMMA AliveIs == Alive = {w \in Ids : kid[w].state \in {"up", "dead"}}
  BY DEF Alive, Roster

LEMMA PlacesApart == \A w \in Ids : w # New /\ w # Waiting /\ w # Closed /\ w # NoOne
  BY WorkersAssumption DEF Ids, New, Waiting, Closed, NoOne

\* w has as much as before.
AsMuch(w) ==
    /\ kid'[w].load = kid[w].load /\ Closes(kid'[w].up) = Closes(kid[w].up)
    /\ Owns(routes', w) = Owns(routes, w) /\ Has(socket', w) = Has(socket, w)

LEMMA TallyStays ==
  ASSUME NEW w \in Ids, kid[w].state = "up", AsMuch(w), Even
  PROVE  Tally(kid', routes', socket', w)
  <1>1. Tally(kid, routes, socket, w)
    BY DEF Even
  <1> QED
    BY <1>1 DEF Tally, AsMuch

LEMMA LineStays ==
  ASSUME Line, UNCHANGED pending,
         \A t \in Sockets : socket'[t] = Waiting <=> socket[t] = Waiting,
         \A w \in Ids : kid'[w].state \in {"up", "dead"} => kid[w].state \in {"up", "dead"}
  PROVE  Line'
  <1>1. Alive = {} => Alive' = {}
    BY DEF Alive, Roster
  <1> QED
    BY <1>1 DEF Line

\* A step that leaves loads, routes and sockets alone.
LEMMA ReadyStays ==
  ASSUME Even, Line, UNCHANGED <<socket, routes, pending>>,
         \A w \in Ids : /\ kid'[w].load = kid[w].load
                        /\ kid'[w].state = "new" => kid[w].state = "new" /\ kid'[w].up = kid[w].up
                        /\ kid'[w].state = "up" => /\ kid[w].state = "up"
                                                   /\ Closes(kid'[w].up) = Closes(kid[w].up)
                        /\ kid'[w].state = "dead" => kid[w].state \in {"up", "dead"}
  PROVE  Even' /\ Line'
  <1>1. \A w \in Ids : kid'[w].load \in Nat
    BY DEF Even
  <1>2. ASSUME NEW w \in Ids, kid'[w].state = "up" PROVE Tally(kid', routes', socket', w)
    <2>1. AsMuch(w) /\ kid[w].state = "up"
      BY <1>2 DEF AsMuch
    <2> QED
      BY <2>1, TallyStays
  <1>3. ASSUME NEW w \in Ids, kid'[w].state = "new" PROVE Nothing(w)'
    <2>1. Nothing(w) /\ kid'[w].up = kid[w].up
      BY <1>3 DEF Even
    <2> QED
      BY <2>1 DEF Nothing
  <1>4. Even'
    BY <1>1, <1>2, <1>3 DEF Even
  <1>5. Line'
    BY LineStays
  <1> QED
    BY <1>4, <1>5

-----------------------------------------------------------------------------
\* Only the queues of w change, and nothing is added but a message to forget a key.
LEMMA FieldsDown ==
  ASSUME NEW f, IsRecords(f), NEW w \in Ids, NEW x, NEW g, g = [f EXCEPT ![w].down = x]
  PROVE  /\ IsRecords(g)
         /\ \A v \in Ids : g[v].state = f[v].state /\ g[v].load = f[v].load /\ g[v].up = f[v].up
  <1>1. IsRecords(g) /\ StatesOf(f, g)
    BY FieldStates
  <1>2. \A v \in Ids : g[v].load = f[v].load
    BY LoadsSame
  <1>3. \A v \in Ids : g[v].up = f[v].up
    BY DEF IsRecords
  <1> QED
    BY <1>1, <1>2, <1>3 DEF StatesOf

LEMMA FieldsLoad ==
  ASSUME NEW f, IsRecords(f), NEW w \in Ids, NEW by, NEW g, g = Loaded(f, w, by)
  PROVE  /\ IsRecords(g)
         /\ \A v \in Ids : g[v].state = f[v].state /\ g[v].up = f[v].up
         /\ \A v \in Ids \ {w} : g[v].load = f[v].load
  <1>1. PICK x : g = [f EXCEPT ![w].load = x]
    BY DEF Loaded
  <1>2. IsRecords(g) /\ StatesOf(f, g)
    BY LoadedStates
  <1>3. \A v \in Ids : g[v].up = f[v].up
    BY <1>1 DEF IsRecords
  <1>4. \A v \in Ids \ {w} : g[v].load = f[v].load
    BY <1>1 DEF IsRecords
  <1> QED
    BY <1>2, <1>3, <1>4 DEF StatesOf

\* A worker reads, or tells that a key is to be forgotten.
LEMMA ReadyDrops ==
  ASSUME Ready, NEW w \in Ids, kid[w].state = "up", NEW f, NEW x, NEW k,
         f = kid \/ f = [kid EXCEPT ![w].down = x],
         kid' = f \/ kid' = Told(f, w, k), UNCHANGED <<fleet, routes>>
  PROVE  Even' /\ Line'
  <1>1. IsRecords(kid) /\ Even /\ Line /\ IsKids(kid)
    BY DEF Ready, Whole, IInv
  <1>2. /\ IsRecords(f)
        /\ \A v \in Ids : f[v].state = kid[v].state /\ f[v].load = kid[v].load /\ f[v].up = kid[v].up
    BY <1>1, FieldsDown
  <1>3. PICK m : m = [t |-> "ux", k |-> k]
    OBVIOUS
  <1>4. m.t # "off"
    BY <1>3
  <1>5. PICK y : y = Append(f[w].up, m)
    OBVIOUS
  <1>6. kid[w].up \in Seq(Up)
    BY <1>1 DEF IsKids, IsKid
  <1>7. IsFiniteSet(Closes(kid[w].up))
    BY <1>1 DEF Even, Tally
  <1>8. Closes(y) = Closes(kid[w].up)
    BY <1>2, <1>4, <1>5, <1>6, <1>7, ClosesMore
  <1>9. /\ \A v \in Ids : kid'[v].state = kid[v].state /\ kid'[v].load = kid[v].load
        /\ \A v \in Ids \ {w} : kid'[v].up = kid[v].up
        /\ Closes(kid'[w].up) = Closes(kid[w].up)
    <2>1. CASE kid' = f
      BY <1>2, <2>1
    <2>2. CASE kid' = Told(f, w, k)
      <3>1. kid' = [f EXCEPT ![w].up = y]
        BY <1>3, <1>5, <2>2 DEF Told
      <3>2. PICK g : g = kid' /\ g = [f EXCEPT ![w].up = y]
        BY <3>1
      <3>3. /\ IsRecords(g)
            /\ \A v \in Ids : g[v].state = f[v].state /\ g[v].load = f[v].load
            /\ g[w].up = y /\ \A v \in Ids \ {w} : g[v].up = f[v].up
        <4>1. IsRecords(g) /\ StatesOf(f, g)
          BY <1>2, <3>2, FieldStates
        <4>2. \A v \in Ids : g[v].load = f[v].load
          BY <1>2, <3>2, LoadsSame
        <4>3. g[w].up = y /\ \A v \in Ids \ {w} : g[v].up = f[v].up
          BY <1>2, <3>2 DEF IsRecords
        <4> QED
          BY <4>1, <4>2, <4>3 DEF StatesOf
      <3> QED
        BY <1>2, <1>8, <3>2, <3>3
    <2> QED
      BY <2>1, <2>2
  <1>10. UNCHANGED <<socket, routes, pending>>
    BY DEF fleet
  <1>11. ASSUME NEW v \in Ids
         PROVE /\ kid'[v].load = kid[v].load
               /\ kid'[v].state = "new" => kid[v].state = "new" /\ kid'[v].up = kid[v].up
               /\ kid'[v].state = "up" => /\ kid[v].state = "up"
                                          /\ Closes(kid'[v].up) = Closes(kid[v].up)
               /\ kid'[v].state = "dead" => kid[v].state \in {"up", "dead"}
    BY <1>9
  <1> QED
    BY <1>1, <1>10, <1>11, ReadyStays

LEMMA ReadyReceive ==
  ASSUME Ready, NEW w \in Ids, Receive(w)
  PROVE  Even' /\ Line'
  <1>1. PICK k : k = Head(kid[w].down).k
    OBVIOUS
  <1>2. PICK x : x = Tail(kid[w].down)
    OBVIOUS
  <1>3. PICK f : f = [kid EXCEPT ![w].down = x]
    OBVIOUS
  <1>4. kid' = f \/ kid' = Told(f, w, k)
    BY <1>1, <1>2, <1>3 DEF Receive, Drop, Greeted
  <1>5. UNCHANGED <<fleet, routes>> /\ kid[w].state = "up"
    BY DEF Receive
  <1> QED
    BY <1>3, <1>4, <1>5, ReadyDrops

LEMMA ReadyPeers ==
  ASSUME Ready, NEW w \in Ids,
         \/ \E k \in Keys : PeerLost(w, k)
         \/ \E x \in stray[w] : StrayEnds(w, x) \/ StrayDrops(w, x)
  PROVE  Even' /\ Line'
  <1>1. PICK k : kid' = kid \/ kid' = Told(kid, w, k)
    BY DEF PeerLost, StrayEnds, StrayDrops, Drop
  <1>2. UNCHANGED <<fleet, routes>> /\ kid[w].state = "up"
    BY DEF PeerLost, StrayEnds, StrayDrops
  <1> QED
    BY <1>1, <1>2, ReadyDrops

LEMMA ReadyDisconnect ==
  ASSUME Ready, NEW w \in Ids, Disconnect(w)
  PROVE  Even' /\ Line'
  <1>1. IsRecords(kid) /\ Even /\ Line
    BY DEF Ready, Whole
  <1>2. kid' = [kid EXCEPT ![w].state = "cut"] /\ UNCHANGED <<socket, routes, pending>>
        /\ kid[w].state = "dead"
    BY DEF Disconnect, fleet
  <1>3. /\ \A v \in Ids : kid'[v].load = kid[v].load
    BY <1>1, <1>2, LoadsSame
  <1>4. /\ \A v \in Ids \ {w} : kid'[v] = kid[v]
        /\ kid'[w].state = "cut"
    BY <1>1, <1>2 DEF IsRecords
  <1>5. ASSUME NEW v \in Ids
        PROVE /\ kid'[v].load = kid[v].load
              /\ kid'[v].state = "new" => kid[v].state = "new" /\ kid'[v].up = kid[v].up
              /\ kid'[v].state = "up" => /\ kid[v].state = "up"
                                         /\ Closes(kid'[v].up) = Closes(kid[v].up)
              /\ kid'[v].state = "dead" => kid[v].state \in {"up", "dead"}
    BY <1>3, <1>4
  <1> QED
    BY <1>1, <1>2, <1>5, ReadyStays

LEMMA ReadySame ==
  ASSUME Ready, UNCHANGED vars
  PROVE  Even' /\ Line'
  <1>1. UNCHANGED <<kid, socket, routes, pending>>
    BY DEF vars
  <1> QED
    BY <1>1, ReadyStays DEF Ready

-----------------------------------------------------------------------------
(* Sockets.                                                                *)

\* A worker that does not change, and has neither more nor fewer sockets or routes.
LEMMA SocketsAlike ==
  ASSUME Even, UNCHANGED <<kid, routes>>,
         socket' \in [Sockets -> {New, Waiting, Closed} \union Ids],
         \A w \in Ids : Has(socket', w) = Has(socket, w)
  PROVE  Even'
  <1>1. \A w \in Ids : kid'[w].load \in Nat
    BY DEF Even
  <1>2. ASSUME NEW w \in Ids, kid'[w].state = "up" PROVE Tally(kid', routes', socket', w)
    <2>1. AsMuch(w) /\ kid[w].state = "up"
      BY <1>2 DEF AsMuch
    <2> QED
      BY <2>1, TallyStays
  <1>3. ASSUME NEW w \in Ids, kid'[w].state = "new" PROVE Nothing(w)'
    <2>1. Nothing(w)
      BY <1>3 DEF Even
    <2> QED
      BY <2>1 DEF Nothing
  <1> QED
    BY <1>1, <1>2, <1>3 DEF Even

\* One socket moves to where no worker is, from where none was.
LEMMA SocketMoves ==
  ASSUME Even, NEW s \in Sockets, socket[s] \notin Ids, NEW p \in {New, Waiting, Closed},
         socket' = [socket EXCEPT ![s] = p]
  PROVE  /\ socket' \in [Sockets -> {New, Waiting, Closed} \union Ids]
         /\ \A w \in Ids : Has(socket', w) = Has(socket, w)
         /\ socket'[s] = p /\ \A t \in Sockets \ {s} : socket'[t] = socket[t]
  <1>1. socket \in [Sockets -> {New, Waiting, Closed} \union Ids]
    BY DEF Even
  <1>2. socket'[s] = p /\ \A t \in Sockets \ {s} : socket'[t] = socket[t]
    BY <1>1
  <1>3. socket' \in [Sockets -> {New, Waiting, Closed} \union Ids]
    BY <1>1
  <1>4. p \notin Ids
    BY PlacesApart
  <1>5. \A w \in Ids : Has(socket', w) = Has(socket, w)
    BY <1>2, <1>4 DEF Has
  <1> QED
    BY <1>2, <1>3, <1>5

LEMMA ReadyDispatch ==
  ASSUME Ready, NEW s \in Sockets, Dispatch(s)
  PROVE  Even' /\ Line'
  <1> DEFINE Types == socket' \in [Sockets -> {New, Waiting, Closed} \union Ids]
  <1>1. IsRecords(kid) /\ Even /\ Line
    BY DEF Ready, Whole
  <1>2. socket[s] = New /\ UNCHANGED routes /\ socket[s] \notin Ids /\ New # Waiting /\ Closed # Waiting
    BY PlacesApart DEF Dispatch, New, Waiting, Closed
  <1>3. CASE Alive # {} /\ UNCHANGED pending /\ kid[Least(Alive)].state = "up"
    <2>1. PICK w \in Ids : w = Least(Alive)
      <3>1. \A v \in Alive : kid[v].load \in Nat
        BY <1>1 DEF Even, Alive, Roster
      <3>2. Alive \subseteq Ids
        BY DEF Alive, Roster
      <3>3. PICK ws : ws = Alive
        OBVIOUS
      <3>4. Least(ws) \in ws
        BY <1>3, <3>1, <3>2, <3>3, LeastIn
      <3> QED
        BY <3>2, <3>3, <3>4
    <2>2. kid' = Loaded(kid, w, 1) /\ socket' = [socket EXCEPT ![s] = w] /\ kid[w].state = "up"
      BY <1>3, <2>1 DEF Dispatch
    <2>3. /\ \A v \in Ids : kid'[v].state = kid[v].state /\ kid'[v].up = kid[v].up
          /\ \A v \in Ids \ {w} : kid'[v].load = kid[v].load
      BY <1>1, <2>2, FieldsLoad
    <2>4. kid[w].load \in Nat
      BY <1>1 DEF Even
    <2>5. kid'[w].load = kid[w].load + 1
      BY <1>1, <2>2, <2>4, LoadedUp
    <2>6. socket \in [Sockets -> {New, Waiting, Closed} \union Ids]
      BY <1>1 DEF Even
    <2>7. socket'[s] = w /\ (\A t \in Sockets \ {s} : socket'[t] = socket[t]) /\ Types
      BY <2>2, <2>6
    <2>8. /\ \A v \in Ids \ {w} : Has(socket', v) = Has(socket, v)
          /\ Has(socket', w) = Has(socket, w) \union {s} /\ s \notin Has(socket, w)
      BY <1>2, <2>7 DEF Has
    <2>9. Tally(kid, routes, socket, w)
      BY <1>1, <2>2 DEF Even
    <2>10. Tally(kid', routes', socket', w)
      <3>1. /\ IsFiniteSet(Has(socket', w))
            /\ Cardinality(Has(socket', w)) = Cardinality(Has(socket, w)) + 1
        BY <2>8, <2>9, FS_AddElement DEF Tally
      <3>2. /\ Cardinality(Has(socket, w)) \in Nat /\ Cardinality(Owns(routes, w)) \in Nat
            /\ Cardinality(Closes(kid[w].up)) \in Nat
        BY <2>9, FS_CardinalityType DEF Tally
      <3> QED
        BY <1>2, <2>3, <2>5, <2>9, <3>1, <3>2 DEF Tally
    <2>11. ASSUME NEW v \in Ids, kid'[v].state = "up" PROVE Tally(kid', routes', socket', v)
      <3>1. CASE v # w
        <4>1. AsMuch(v) /\ kid[v].state = "up"
          BY <1>2, <2>3, <2>8, <2>11, <3>1 DEF AsMuch
        <4> QED
          BY <1>1, <4>1, TallyStays
      <3> QED
        BY <2>10, <3>1
    <2>12. ASSUME NEW v \in Ids, kid'[v].state = "new" PROVE Nothing(v)'
      <3>1. Nothing(v) /\ v # w
        BY <1>1, <2>2, <2>3, <2>12 DEF Even
      <3> QED
        BY <1>2, <2>3, <2>8, <3>1 DEF Nothing
    <2>13. \A v \in Ids : kid'[v].load \in Nat
      BY <1>1, <2>3, <2>4, <2>5 DEF Even
    <2>14. Even'
      BY <1>1, <1>2, <2>7, <2>11, <2>12, <2>13 DEF Even
    <2>15. \A t \in Sockets : socket'[t] = Waiting <=> socket[t] = Waiting
      BY <1>2, <2>7, PlacesApart
    <2>16. Line'
      BY <1>1, <1>3, <2>3, <2>15, LineStays
    <2> QED
      BY <2>14, <2>16
  <1>4. CASE socket' = [socket EXCEPT ![s] = Closed] /\ UNCHANGED <<kid, pending>>
    <2>1. /\ Types /\ \A w \in Ids : Has(socket', w) = Has(socket, w)
          /\ socket'[s] = Closed /\ \A t \in Sockets \ {s} : socket'[t] = socket[t]
      BY <1>1, <1>2, <1>4, SocketMoves
    <2>2. Even'
      BY <1>1, <1>2, <1>4, <2>1, SocketsAlike
    <2>3. \A t \in Sockets : socket'[t] = Waiting <=> socket[t] = Waiting
      BY <1>2, <2>1
    <2>4. Line'
      BY <1>1, <1>4, <2>3, LineStays
    <2> QED
      BY <2>2, <2>4
  <1>5. CASE /\ Alive = {} /\ ~ Refused /\ UNCHANGED kid
             /\ socket' = [socket EXCEPT ![s] = Waiting] /\ pending' = Append(pending, s)
    <2>1. /\ Types /\ \A w \in Ids : Has(socket', w) = Has(socket, w)
          /\ socket'[s] = Waiting /\ \A t \in Sockets \ {s} : socket'[t] = socket[t]
      BY <1>1, <1>2, <1>5, SocketMoves
    <2>2. Even'
      BY <1>1, <1>2, <1>5, <2>1, SocketsAlike
    <2>3. pending \in Seq(Sockets) /\ Len(pending) \in Nat
      BY <1>1 DEF Line
    <2>4. PICK z : z = Len(pending) + 1
      OBVIOUS
    <2>5. /\ DOMAIN pending' = DOMAIN pending \union {z} /\ pending'[z] = s
          /\ \A i \in DOMAIN pending : pending'[i] = pending[i]
      BY <1>5, <2>3, <2>4
    <2>6. pending' \in Seq(Sockets) /\ Len(pending') = Len(pending) + 1
      BY <1>5, <2>3
    <2>7. \A i \in DOMAIN pending : pending[i] # s
      BY <1>1, <1>2 DEF Line
    <2>8. \A i, j \in DOMAIN pending' : pending'[i] = pending'[j] => i = j
      BY <1>1, <2>5, <2>7 DEF Line
    <2>9. \A t \in Sockets : socket'[t] = Waiting <=> \E i \in DOMAIN pending' : pending'[i] = t
      BY <1>1, <2>1, <2>5 DEF Line
    <2>10. Len(pending') <= PendingLimit
      <3>1. PendingLimit \in Nat
        BY WorkersAssumption
      <3> QED
        BY <1>5, <2>3, <2>6, <3>1 DEF Refused
    <2>11. Alive' = {}
      BY <1>5 DEF Alive, Roster
    <2>12. Line'
      BY <2>6, <2>8, <2>9, <2>10, <2>11 DEF Line
    <2> QED
      BY <2>2, <2>12
  <1> QED
    BY <1>3, <1>4, <1>5 DEF Dispatch

\* What comes before the element at i and what comes after it, and the two joined.
Before(q, i) == SubSeq(q, 1, i - 1)
After(q, i)  == SubSeq(q, i + 1, Len(q))
Joined(a, b) == a \o b

\* The same, element by element; n come before it and m after it.
IsBefore(a, q, n)       == \A j \in 1 .. n : a[j] = q[j]
IsAfter(b, q, n, m)     == \A j \in 1 .. m : b[j] = q[j + n + 1]
IsJoined(r, a, b, n, m) == (\A j \in 1 .. n : r[j] = a[j]) /\ \A j \in 1 .. m : r[n + j] = b[j]
IsCut(r, q, i)          == \A j \in 1 .. Len(r) : r[j] = IF j < i THEN q[j] ELSE q[j + 1]

LEMMA BeforeIs ==
  ASSUME NEW S, NEW q \in Seq(S), NEW i, NEW n \in Nat, i = n + 1, n < Len(q)
  PROVE  /\ Before(q, i) \in Seq(S) /\ Len(Before(q, i)) = n
         /\ IsBefore(Before(q, i), q, n)
  BY DEF Before, IsBefore

LEMMA AfterIs ==
  ASSUME NEW S, NEW q \in Seq(S), NEW i, NEW n \in Nat, NEW m \in Nat,
         i = n + 1, Len(q) = m + n + 1
  PROVE  /\ After(q, i) \in Seq(S) /\ Len(After(q, i)) = m
         /\ IsAfter(After(q, i), q, n, m)
  BY DEF After, IsAfter

LEMMA JoinedIs ==
  ASSUME NEW S, NEW a \in Seq(S), NEW b \in Seq(S),
         NEW n \in Nat, NEW m \in Nat, Len(a) = n, Len(b) = m
  PROVE  /\ Joined(a, b) \in Seq(S) /\ Len(Joined(a, b)) = n + m
         /\ IsJoined(Joined(a, b), a, b, n, m)
  BY DEF Joined, IsJoined

LEMMA CutOut ==
  ASSUME NEW S, NEW q \in Seq(S), NEW i \in DOMAIN q,
         NEW r, r = Joined(Before(q, i), After(q, i))
  PROVE  r \in Seq(S) /\ Len(r) = Len(q) - 1 /\ IsCut(r, q, i)
  <1>1. PICK n \in Nat : i = n + 1
    <2>1. i \in Nat /\ i >= 1
      OBVIOUS
    <2>2. i - 1 \in Nat /\ i = (i - 1) + 1
      BY <2>1
    <2> QED
      BY <2>2
  <1>2. PICK m \in Nat : Len(q) = m + n + 1
    <2>1. Len(q) \in Nat /\ n + 1 <= Len(q)
      BY <1>1
    <2>2. Len(q) - n - 1 \in Nat /\ Len(q) = (Len(q) - n - 1) + n + 1
      BY <2>1
    <2> QED
      BY <2>2
  <1>3. PICK a : a = Before(q, i)
    OBVIOUS
  <1>4. PICK b : b = After(q, i)
    OBVIOUS
  <1>5. a \in Seq(S) /\ Len(a) = n /\ IsBefore(a, q, n)
    BY <1>1, <1>2, <1>3, BeforeIs
  <1>6. b \in Seq(S) /\ Len(b) = m /\ IsAfter(b, q, n, m)
    BY <1>1, <1>2, <1>4, AfterIs
  <1>7. r \in Seq(S) /\ Len(r) = n + m /\ IsJoined(r, a, b, n, m)
    <2>1. /\ Joined(a, b) \in Seq(S) /\ Len(Joined(a, b)) = n + m
          /\ IsJoined(Joined(a, b), a, b, n, m)
      BY <1>5, <1>6, JoinedIs
    <2>2. r = Joined(a, b)
      BY <1>3, <1>4
    <2> QED
      BY <2>1, <2>2
  <1>8. ASSUME NEW j \in 1 .. n + m PROVE r[j] = IF j < i THEN q[j] ELSE q[j + 1]
    <2>1. CASE j <= n
      <3>1. j \in 1 .. n /\ j < i
        BY <1>1, <2>1
      <3>2. r[j] = a[j] /\ a[j] = q[j]
        BY <1>5, <1>7, <3>1 DEF IsJoined, IsBefore
      <3> QED
        BY <3>1, <3>2
    <2>2. CASE ~ (j <= n)
      <3>1. PICK h \in 1 .. m : j = n + h
        <4>1. j - n \in 1 .. m /\ j = n + (j - n)
          BY <2>2
        <4> QED
          BY <4>1
      <3>2. r[j] = b[h]
        BY <1>7, <3>1 DEF IsJoined
      <3>3. b[h] = q[h + n + 1]
        BY <1>6, <3>1 DEF IsAfter
      <3>4. h + n + 1 = j + 1 /\ ~ (j < i)
        BY <1>1, <3>1
      <3> QED
        BY <3>2, <3>3, <3>4
    <2> QED
      BY <2>1, <2>2
  <1>9. Len(r) = Len(q) - 1
    BY <1>2, <1>7
  <1> QED
    BY <1>7, <1>8, <1>9 DEF IsCut

LEMMA ReadyCloseWaiting ==
  ASSUME Ready, NEW s \in Sockets, CloseWaiting(s)
  PROVE  Even' /\ Line'
  <1>1. Even /\ Line
    BY DEF Ready
  <1>2. /\ socket[s] = Waiting /\ socket[s] \notin Ids /\ Closed # Waiting
        /\ UNCHANGED <<kid, routes>> /\ socket' = [socket EXCEPT ![s] = Closed]
    BY PlacesApart DEF CloseWaiting, Closed, Waiting
  <1>3. /\ socket' \in [Sockets -> {New, Waiting, Closed} \union Ids]
        /\ \A w \in Ids : Has(socket', w) = Has(socket, w)
        /\ socket'[s] = Closed /\ \A t \in Sockets \ {s} : socket'[t] = socket[t]
    BY <1>1, <1>2, SocketMoves
  <1>4. Even'
    BY <1>1, <1>2, <1>3, SocketsAlike
  <1>5. PICK i \in DOMAIN pending :
          /\ pending[i] = s
          /\ pending' = SubSeq(pending, 1, i - 1) \o SubSeq(pending, i + 1, Len(pending))
    BY DEF CloseWaiting
  <1>6. pending \in Seq(Sockets) /\ Len(pending) \in Nat
    BY <1>1 DEF Line
  <1>7. /\ pending' \in Seq(Sockets) /\ Len(pending') = Len(pending) - 1
        /\ \A j \in DOMAIN pending' :
             j \in Nat /\ pending'[j] = IF j < i THEN pending[j] ELSE pending[j + 1]
    <2>1. /\ pending' \in Seq(Sockets) /\ Len(pending') = Len(pending) - 1
          /\ IsCut(pending', pending, i)
      <3>1. pending' = Joined(Before(pending, i), After(pending, i))
        BY <1>5 DEF Joined, Before, After
      <3> QED
        BY <1>6, <3>1, CutOut
    <2>2. DOMAIN pending' = 1 .. Len(pending')
      BY <2>1
    <2> QED
      BY <2>1, <2>2 DEF IsCut
  <1>8. ASSUME NEW j \in DOMAIN pending'
        PROVE  \E h \in DOMAIN pending : /\ h # i /\ pending'[j] = pending[h]
                                         /\ h = IF j < i THEN j ELSE j + 1
    <2>1. j \in 1 .. Len(pending) - 1 /\ i \in 1 .. Len(pending)
      BY <1>6, <1>7
    <2> QED
      BY <1>6, <1>7, <2>1
  <1>9. ASSUME NEW h \in DOMAIN pending, h # i
        PROVE  \E j \in DOMAIN pending' : pending'[j] = pending[h]
    <2>1. h \in 1 .. Len(pending) /\ i \in 1 .. Len(pending)
      BY <1>6
    <2>2. PICK j : j = IF h < i THEN h ELSE h - 1
      OBVIOUS
    <2>3. j \in 1 .. Len(pending) - 1 /\ h = IF j < i THEN j ELSE j + 1
      BY <1>6, <1>9, <2>1, <2>2
    <2>4. j \in DOMAIN pending'
      BY <1>6, <1>7, <2>3
    <2> QED
      BY <1>7, <2>3, <2>4
  <1>10. \A a, b \in DOMAIN pending : pending[a] = pending[b] => a = b
    BY <1>1 DEF Line
  <1>11. ASSUME NEW a \in DOMAIN pending', NEW b \in DOMAIN pending', pending'[a] = pending'[b]
         PROVE  a = b
    <2>1. a \in Nat /\ b \in Nat /\ i \in Nat
      BY <1>6, <1>7
    <2>2. (IF a < i THEN a ELSE a + 1) = (IF b < i THEN b ELSE b + 1)
      BY <1>8, <1>10, <1>11
    <2> QED
      BY <2>1, <2>2
  <1>12. ASSUME NEW t \in Sockets
         PROVE  socket'[t] = Waiting <=> \E j \in DOMAIN pending' : pending'[j] = t
    <2>1. socket[t] = Waiting <=> \E h \in DOMAIN pending : pending[h] = t
      BY <1>1 DEF Line
    <2>2. (\E j \in DOMAIN pending' : pending'[j] = t)
            <=> \E h \in DOMAIN pending : h # i /\ pending[h] = t
      BY <1>8, <1>9
    <2>3. (\E h \in DOMAIN pending : h # i /\ pending[h] = t)
            <=> t # s /\ \E h \in DOMAIN pending : pending[h] = t
      BY <1>5, <1>10
    <2> QED
      BY <1>2, <1>3, <2>1, <2>2, <2>3
  <1>13. Len(pending') <= PendingLimit
    <2>1. PendingLimit \in Nat
      BY WorkersAssumption
    <2> QED
      BY <1>1, <1>6, <1>7, <2>1 DEF Line
  <1>14. Alive' = {}
    <2>1. pending # <<>>
      BY <1>5
    <2> QED
      BY <1>1, <1>2, <2>1 DEF Line, Alive, Roster
  <1>15. Line'
    BY <1>7, <1>11, <1>12, <1>13, <1>14 DEF Line
  <1> QED
    BY <1>4, <1>15

\* The sizes of a tally that is right.
LEMMA TallyParts ==
  ASSUME Even, NEW w \in Ids, kid[w].state = "up"
  PROVE  /\ Cardinality(Owns(routes, w)) \in Nat /\ IsFiniteSet(Owns(routes, w))
         /\ Cardinality(Has(socket, w)) \in Nat /\ IsFiniteSet(Has(socket, w))
         /\ Cardinality(Closes(kid[w].up)) \in Nat /\ IsFiniteSet(Closes(kid[w].up))
         /\ kid[w].load = Cardinality(Owns(routes, w)) + Cardinality(Has(socket, w))
                            + Cardinality(Closes(kid[w].up))
  <1>1. Tally(kid, routes, socket, w)
    BY DEF Even
  <1> QED
    BY <1>1, FS_CardinalityType DEF Tally

LEMMA ReadyCloseHeld ==
  ASSUME Ready, NEW s \in Sockets, CloseHeld(s)
  PROVE  Even' /\ Line'
  <1>1. IsRecords(kid) /\ Even /\ Line /\ IsKids(kid)
    BY DEF Ready, Whole, IInv
  <1>2. PICK w \in Ids : w = socket[s]
    BY DEF CloseHeld
  <1>3. PICK m : m = [t |-> "off"]
    OBVIOUS
  <1>4. PICK y : y = Append(kid[w].up, m)
    OBVIOUS
  <1>5. /\ kid[w].state = "up" /\ socket' = [socket EXCEPT ![s] = Closed]
        /\ kid' = [kid EXCEPT ![w].up = y] /\ UNCHANGED <<routes, pending>>
    BY <1>2, <1>3, <1>4 DEF CloseHeld
  <1>6. /\ \A v \in Ids : kid'[v].load = kid[v].load
        /\ \A v \in Ids \ {w} : kid'[v].up = kid[v].up
        /\ kid'[w].up = y
    <2>1. \A v \in Ids : kid'[v].load = kid[v].load
      BY <1>1, <1>5, LoadsSame
    <2>2. kid'[w].up = y /\ \A v \in Ids \ {w} : kid'[v].up = kid[v].up
      BY <1>1, <1>5 DEF IsRecords
    <2> QED
      BY <2>1, <2>2
  <1>7. \A v \in Ids : kid'[v].state = kid[v].state
    <2>1. StatesOf(kid, kid')
      BY <1>1, <1>5, FieldStates
    <2> QED
      BY <2>1 DEF StatesOf
  <1>8. socket \in [Sockets -> {New, Waiting, Closed} \union Ids]
    BY <1>1 DEF Even
  <1>9. /\ socket' \in [Sockets -> {New, Waiting, Closed} \union Ids]
        /\ socket'[s] = Closed /\ \A t \in Sockets \ {s} : socket'[t] = socket[t]
    BY <1>5, <1>8
  <1>10. /\ Has(socket', w) = Has(socket, w) \ {s} /\ s \in Has(socket, w)
         /\ \A v \in Ids \ {w} : Has(socket', v) = Has(socket, v)
    BY <1>2, <1>9, PlacesApart DEF Has
  <1>11. Tally(kid', routes', socket', w)
    <2>1. /\ Cardinality(Owns(routes, w)) \in Nat /\ IsFiniteSet(Owns(routes, w))
          /\ Cardinality(Has(socket, w)) \in Nat /\ IsFiniteSet(Has(socket, w))
          /\ Cardinality(Closes(kid[w].up)) \in Nat /\ IsFiniteSet(Closes(kid[w].up))
          /\ kid[w].load = Cardinality(Owns(routes, w)) + Cardinality(Has(socket, w))
                             + Cardinality(Closes(kid[w].up))
      BY <1>1, <1>5, TallyParts
    <2>2. /\ IsFiniteSet(Has(socket', w))
          /\ Cardinality(Has(socket', w)) = Cardinality(Has(socket, w)) - 1
      BY <1>10, <2>1, FS_RemoveElement
    <2>3. IsFiniteSet(Closes(y)) /\ Cardinality(Closes(y)) = Cardinality(Closes(kid[w].up)) + 1
      <3>1. kid[w].up \in Seq(Up) /\ m.t = "off"
        BY <1>1, <1>3 DEF IsKids, IsKid
      <3> QED
        BY <1>4, <2>1, <3>1, ClosesMore
    <2>4. routes' = routes /\ kid'[w].up = y /\ kid'[w].load = kid[w].load
      BY <1>5, <1>6
    <2>5. kid'[w].load = Cardinality(Owns(routes', w)) + Cardinality(Has(socket', w))
                           + Cardinality(Closes(kid'[w].up))
      BY <2>1, <2>2, <2>3, <2>4
    <2> QED
      BY <2>1, <2>2, <2>3, <2>4, <2>5 DEF Tally
  <1>12. ASSUME NEW v \in Ids, kid'[v].state = "up" PROVE Tally(kid', routes', socket', v)
    <2>1. CASE v # w
      <3>1. AsMuch(v) /\ kid[v].state = "up"
        BY <1>5, <1>6, <1>7, <1>10, <1>12, <2>1 DEF AsMuch
      <3> QED
        BY <1>1, <3>1, TallyStays
    <2> QED
      BY <1>11, <2>1
  <1>13. ASSUME NEW v \in Ids, kid'[v].state = "new" PROVE Nothing(v)'
    <2>1. Nothing(v) /\ v # w
      BY <1>1, <1>5, <1>7, <1>13 DEF Even
    <2> QED
      BY <1>5, <1>6, <1>10, <2>1 DEF Nothing
  <1>14. \A v \in Ids : kid'[v].load \in Nat
    BY <1>1, <1>6 DEF Even
  <1>15. Even'
    BY <1>1, <1>5, <1>9, <1>12, <1>13, <1>14 DEF Even
  <1>16. \A t \in Sockets : socket'[t] = Waiting <=> socket[t] = Waiting
    <2>1. Closed # Waiting
      BY DEF Closed, Waiting
    <2> QED
      BY <1>2, <1>9, <2>1, PlacesApart
  <1>17. Line'
    BY <1>1, <1>5, <1>7, <1>16, LineStays
  <1> QED
    BY <1>15, <1>17

\* A worker that dies or is gone is not asked for its load.
LEMMA ReadyDie ==
  ASSUME Ready, NEW w \in Ids, Die(w)
  PROVE  Even' /\ Line'
  <1>1. IsRecords(kid) /\ Even /\ Line
    BY DEF Ready, Whole
  <1>2. /\ kid[w].state = "up" /\ UNCHANGED <<routes, pending>>
        /\ kid' = [kid EXCEPT ![w].state = "dead", ![w].down = <<>>]
        /\ socket' = [s \in Sockets |-> IF socket[s] = w THEN Closed ELSE socket[s]]
    BY DEF Die
  <1>3. PICK f : f = [kid EXCEPT ![w].state = "dead"]
    OBVIOUS
  <1>4. kid' = [f EXCEPT ![w].down = <<>>]
    BY <1>2, <1>3
  <1>5. IsRecords(f) /\ f[w].state = "dead" /\ \A v \in Ids \ {w} : f[v] = kid[v]
    BY <1>1, <1>3 DEF IsRecords
  <1>6. \A v \in Ids : f[v].load = kid[v].load
    BY <1>1, <1>3, LoadsSame
  <1>7. /\ \A v \in Ids : kid'[v].state = f[v].state /\ kid'[v].load = f[v].load
        /\ \A v \in Ids : kid'[v].up = f[v].up
    BY <1>4, <1>5, FieldsDown
  <1>8. /\ kid'[w].state = "dead" /\ \A v \in Ids : kid'[v].load = kid[v].load
        /\ \A v \in Ids \ {w} : kid'[v].state = kid[v].state /\ kid'[v].up = kid[v].up
    BY <1>5, <1>6, <1>7
  <1>9. socket \in [Sockets -> {New, Waiting, Closed} \union Ids]
    BY <1>1 DEF Even
  <1>10. /\ socket' \in [Sockets -> {New, Waiting, Closed} \union Ids]
         /\ \A v \in Ids \ {w} : Has(socket', v) = Has(socket, v)
    BY <1>2, <1>9, PlacesApart DEF Has
  <1>11. ASSUME NEW v \in Ids, kid'[v].state = "up" PROVE Tally(kid', routes', socket', v)
    <2>1. AsMuch(v) /\ kid[v].state = "up"
      BY <1>2, <1>8, <1>10, <1>11 DEF AsMuch
    <2> QED
      BY <1>1, <2>1, TallyStays
  <1>12. ASSUME NEW v \in Ids, kid'[v].state = "new" PROVE Nothing(v)'
    <2>1. Nothing(v) /\ v # w
      BY <1>1, <1>8, <1>12 DEF Even
    <2> QED
      BY <1>2, <1>8, <1>10, <2>1 DEF Nothing
  <1>13. \A v \in Ids : kid'[v].load \in Nat
    BY <1>1, <1>8 DEF Even
  <1>14. Even'
    BY <1>1, <1>2, <1>10, <1>11, <1>12, <1>13 DEF Even
  <1>15. \A t \in Sockets : socket'[t] = Waiting <=> socket[t] = Waiting
    <2>1. Closed # Waiting
      BY DEF Closed, Waiting
    <2> QED
      BY <1>2, <2>1, PlacesApart
  <1>16. Line'
    BY <1>1, <1>2, <1>8, <1>15, LineStays
  <1> QED
    BY <1>14, <1>16

LEMMA ReadyExit ==
  ASSUME Ready, NEW w \in Ids, Exit(w)
  PROVE  Even' /\ Line'
  <1>1. IsRecords(kid) /\ Even /\ Line
    BY DEF Ready, Whole
  <1>2. /\ kid' = [kid EXCEPT ![w].state = "gone"] /\ UNCHANGED <<socket, pending>>
        /\ routes' = [k \in Keys |-> IF routes[k] = w THEN NoOne ELSE routes[k]]
    BY DEF Exit
  <1>3. kid'[w].state = "gone" /\ \A v \in Ids \ {w} : kid'[v] = kid[v]
    BY <1>1, <1>2 DEF IsRecords
  <1>4. \A v \in Ids : kid'[v].load = kid[v].load
    BY <1>1, <1>2, LoadsSame
  <1>5. routes \in [Keys -> Ids \union {NoOne}]
    BY <1>1 DEF Even
  <1>6. /\ routes' \in [Keys -> Ids \union {NoOne}]
        /\ \A v \in Ids \ {w} : Owns(routes', v) = Owns(routes, v)
    BY <1>2, <1>5, PlacesApart DEF Owns
  <1>7. ASSUME NEW v \in Ids, kid'[v].state = "up" PROVE Tally(kid', routes', socket', v)
    <2>1. AsMuch(v) /\ kid[v].state = "up"
      BY <1>2, <1>3, <1>6, <1>7 DEF AsMuch
    <2> QED
      BY <1>1, <2>1, TallyStays
  <1>8. ASSUME NEW v \in Ids, kid'[v].state = "new" PROVE Nothing(v)'
    <2>1. Nothing(v) /\ v # w
      BY <1>1, <1>3, <1>8 DEF Even
    <2> QED
      BY <1>2, <1>3, <1>6, <2>1 DEF Nothing
  <1>9. \A v \in Ids : kid'[v].load \in Nat
    BY <1>1, <1>4 DEF Even
  <1>10. Even'
    BY <1>1, <1>2, <1>6, <1>7, <1>8, <1>9 DEF Even
  <1>11. \A v \in Ids : kid'[v].state \in {"up", "dead"} => kid[v].state \in {"up", "dead"}
    BY <1>3
  <1>12. Line'
    BY <1>1, <1>2, <1>11, LineStays
  <1> QED
    BY <1>10, <1>12

\* As many wait as there are sockets in the queue.
LEMMA WaitersAre ==
  ASSUME Line
  PROVE  IsFiniteSet(Has(socket, Waiting)) /\ Cardinality(Has(socket, Waiting)) = Len(pending)
  <1>1. /\ pending \in Seq(Sockets) /\ Len(pending) \in Nat
        /\ DOMAIN pending = 1 .. Len(pending)
    BY DEF Line
  <1>2. PICK D : D = 1 .. Len(pending)
    OBVIOUS
  <1>3. IsFiniteSet(D) /\ Cardinality(D) = Len(pending)
    BY <1>1, <1>2, FS_Interval
  <1>4. \A i \in D : pending[i] \in Has(socket, Waiting)
    BY <1>1, <1>2 DEF Line, Has
  <1>5. \A t \in Has(socket, Waiting) : \E i \in D : pending[i] = t
    BY <1>1, <1>2 DEF Line, Has
  <1>6. \A i, j \in D : pending[i] = pending[j] => i = j
    BY <1>1, <1>2 DEF Line
  <1> DEFINE h == [i \in D |-> pending[i]]
  <1>7. h \in [D -> Has(socket, Waiting)]
    BY <1>4
  <1>8. h \in Bijection(D, Has(socket, Waiting))
    BY <1>5, <1>6, <1>7 DEF Bijection, Injection, Surjection, IsInjective
  <1> QED
    BY <1>3, <1>8, FS_Bijection DEF ExistsBijection

LEMMA ReadySpawn ==
  ASSUME Ready, Spawn
  PROVE  Even' /\ Line'
  <1>1. IsRecords(kid) /\ Even /\ Line
    BY DEF Ready, Whole
  <1>2. sequence < MaxId /\ sequence \in Nat /\ MaxId \in Nat
    BY WorkersAssumption DEF Spawn, Ready, Whole
  <1>3. PICK w \in Ids : w = sequence + 1
    BY <1>2 DEF Ids
  <1>4. kid[w].state = "new"
    BY <1>2, <1>3 DEF Ready, Whole
  <1>5. PICK n : n = Len(pending)
    OBVIOUS
  <1>6. /\ kid' = [kid EXCEPT ![w] = [kid[w] EXCEPT !.state = "up", !.load = n]]
        /\ socket' = [s \in Sockets |-> IF socket[s] = Waiting THEN w ELSE socket[s]]
        /\ pending' = <<>> /\ UNCHANGED routes
    BY <1>3, <1>5 DEF Spawn
  <1>7. n \in Nat
    BY <1>1, <1>5 DEF Line
  <1>8. \A v \in Ids \ {w} : kid'[v] = kid[v]
    BY <1>1, <1>6 DEF IsRecords
  <1>9. kid'[w].state = "up" /\ kid'[w].load = n /\ kid'[w].up = kid[w].up
    <2>1. kid'[w] = [kid[w] EXCEPT !.state = "up", !.load = n]
      BY <1>1, <1>6 DEF IsRecords
    <2>2. kid[w] = [state |-> kid[w].state, load |-> kid[w].load,
                    down |-> kid[w].down, up |-> kid[w].up]
      BY <1>1 DEF IsRecords
    <2> QED
      BY <2>1, <2>2
  <1>10. socket \in [Sockets -> {New, Waiting, Closed} \union Ids]
    BY <1>1 DEF Even
  <1>11. /\ socket' \in [Sockets -> {New, Waiting, Closed} \union Ids]
         /\ \A v \in Ids \ {w} : Has(socket', v) = Has(socket, v)
    BY <1>6, <1>10, PlacesApart DEF Has
  <1>12. Nothing(w)
    BY <1>1, <1>4 DEF Even
  <1>13. Has(socket', w) = Has(socket, Waiting)
    BY <1>6, <1>12 DEF Has, Nothing
  <1>14. Tally(kid', routes', socket', w)
    <2>1. IsFiniteSet(Has(socket', w)) /\ Cardinality(Has(socket', w)) = n
      BY <1>1, <1>5, <1>13, WaitersAre
    <2>2. Owns(routes', w) = {}
      BY <1>6, <1>12 DEF Nothing
    <2>3. Closes(kid'[w].up) = {}
      BY <1>9, <1>12 DEF Nothing, Closes
    <2>4. IsFiniteSet({}) /\ Cardinality({}) = 0
      BY FS_EmptySet
    <2>5. /\ IsFiniteSet(Owns(routes', w)) /\ Cardinality(Owns(routes', w)) = 0
          /\ IsFiniteSet(Closes(kid'[w].up)) /\ Cardinality(Closes(kid'[w].up)) = 0
      BY <2>2, <2>3, <2>4
    <2> QED
      BY <1>7, <1>9, <2>1, <2>5 DEF Tally
  <1>15. ASSUME NEW v \in Ids, kid'[v].state = "up" PROVE Tally(kid', routes', socket', v)
    <2>1. CASE v # w
      <3>1. AsMuch(v) /\ kid[v].state = "up"
        BY <1>6, <1>8, <1>11, <1>15, <2>1 DEF AsMuch
      <3> QED
        BY <1>1, <3>1, TallyStays
    <2> QED
      BY <1>14, <2>1
  <1>16. ASSUME NEW v \in Ids, kid'[v].state = "new" PROVE Nothing(v)'
    <2>1. v # w
      BY <1>9, <1>16
    <2>2. Nothing(v)
      BY <1>1, <1>8, <1>16, <2>1 DEF Even
    <2> QED
      BY <1>6, <1>8, <1>11, <2>1, <2>2 DEF Nothing
  <1>17. \A v \in Ids : kid'[v].load \in Nat
    BY <1>1, <1>7, <1>8, <1>9 DEF Even
  <1>18. Even'
    BY <1>1, <1>6, <1>11, <1>15, <1>16, <1>17 DEF Even
  <1>19. Line'
    <2>1. \A t \in Sockets : socket'[t] # Waiting
      BY <1>6, PlacesApart
    <2>2. Len(<<>>) = 0 /\ <<>> \in Seq(Sockets) /\ DOMAIN <<>> = {} /\ PendingLimit \in Nat
      BY WorkersAssumption
    <2> QED
      BY <1>6, <2>1, <2>2 DEF Line
  <1> QED
    BY <1>18, <1>19

-----------------------------------------------------------------------------
(* Routes.                                                                 *)

LEMMA ReadyInboundNobody ==
  ASSUME Ready, NEW k \in Keys, InboundNobody(k)
  PROVE  Even' /\ Line'
  <1>1. Even /\ Line
    BY DEF Ready
  <1>2. UNCHANGED <<kid, socket, pending>> /\ routes' = [routes EXCEPT ![k] = NoOne]
    BY DEF InboundNobody, fleet
  <1>3. routes \in [Keys -> Ids \union {NoOne}]
    BY <1>1 DEF Even
  <1>4. /\ routes' \in [Keys -> Ids \union {NoOne}]
        /\ \A v \in Ids : Owns(routes', v) \subseteq Owns(routes, v)
    BY <1>2, <1>3, PlacesApart DEF Owns
  <1>5. \A v \in Ids : kid'[v].state # "up"
    BY <1>2 DEF InboundNobody, Alive, Roster
  <1>6. ASSUME NEW v \in Ids, kid'[v].state = "new" PROVE Nothing(v)'
    <2>1. Nothing(v)
      BY <1>1, <1>2, <1>6 DEF Even
    <2> QED
      BY <1>2, <1>4, <2>1 DEF Nothing
  <1>7. Even'
    BY <1>1, <1>2, <1>4, <1>5, <1>6 DEF Even
  <1>8. Line'
    BY <1>1, <1>2, LineStays
  <1> QED
    BY <1>7, <1>8

\* The owner of a route that is not picked does not live.
LEMMA ReadyInbound ==
  ASSUME Ready, NEW k \in Keys, NEW d \in Salts \union {"data", "reset"}, Inbound(k, d)
  PROVE  Even' /\ Line'
  <1>1. IsRecords(kid) /\ Even /\ Line
    BY DEF Ready, Whole
  <1>2. PICK w \in Alive : w = Pick(k)
    <2>1. \A v \in Alive : kid[v].load \in Nat
      BY <1>1 DEF Even, Alive, Roster
    <2>2. Alive \subseteq Ids
      BY DEF Alive, Roster
    <2>3. PICK ws : ws = Alive
      OBVIOUS
    <2>4. ws # {}
      BY <2>3 DEF Inbound
    <2>5. Least(ws) \in ws
      BY <2>1, <2>2, <2>3, <2>4, LeastIn
    <2> QED
      BY <2>3, <2>5 DEF Pick
  <1>3. w \in Ids /\ kid[w].state \in {"up", "dead"}
    BY AliveIs
  <1>4. PICK g : g = IF routes[k] = w THEN kid ELSE Loaded(kid, w, 1)
    OBVIOUS
  <1>5. PICK m : m = [k |-> k, d |-> d]
    OBVIOUS
  <1>6. /\ kid' = Sent(g, w, m) /\ routes' = [routes EXCEPT ![k] = w]
        /\ UNCHANGED <<socket, pending>>
    BY <1>2, <1>4, <1>5 DEF Inbound, fleet
  <1>7. kid[w].load \in Nat
    BY <1>1, <1>3 DEF Even
  <1>8. /\ IsRecords(g)
        /\ \A v \in Ids : g[v].state = kid[v].state /\ g[v].up = kid[v].up
        /\ \A v \in Ids \ {w} : g[v].load = kid[v].load
        /\ g[w].load = kid[w].load + IF routes[k] = w THEN 0 ELSE 1
    <2>1. CASE routes[k] = w
      BY <1>1, <1>4, <1>7, <2>1
    <2>2. CASE routes[k] # w
      <3>1. g = Loaded(kid, w, 1)
        BY <1>4, <2>2
      <3>2. /\ IsRecords(g)
            /\ \A v \in Ids : g[v].state = kid[v].state /\ g[v].up = kid[v].up
            /\ \A v \in Ids \ {w} : g[v].load = kid[v].load
        BY <1>1, <1>3, <3>1, FieldsLoad
      <3>3. g[w].load = kid[w].load + 1
        BY <1>1, <1>3, <1>7, <3>1, LoadedUp
      <3> QED
        BY <2>2, <3>2, <3>3
    <2> QED
      BY <2>1, <2>2
  <1>9. \A v \in Ids : kid'[v].state = g[v].state /\ kid'[v].load = g[v].load /\ kid'[v].up = g[v].up
    <2>1. CASE g[w].state = "up"
      <3>1. PICK x : x = Append(g[w].down, m)
        OBVIOUS
      <3>2. kid' = [g EXCEPT ![w].down = x]
        BY <1>6, <2>1, <3>1 DEF Sent
      <3> QED
        BY <1>3, <1>8, <3>2, FieldsDown
    <2>2. CASE g[w].state # "up"
      BY <1>6, <2>2 DEF Sent
    <2> QED
      BY <2>1, <2>2
  <1>10. /\ \A v \in Ids : kid'[v].state = kid[v].state /\ kid'[v].up = kid[v].up
         /\ \A v \in Ids \ {w} : kid'[v].load = kid[v].load
         /\ kid'[w].load = kid[w].load + IF routes[k] = w THEN 0 ELSE 1
    BY <1>3, <1>8, <1>9
  <1>11. routes \in [Keys -> Ids \union {NoOne}]
    BY <1>1 DEF Even
  <1>12. /\ routes' \in [Keys -> Ids \union {NoOne}] /\ routes'[k] = w
         /\ \A i \in Keys \ {k} : routes'[i] = routes[i]
    BY <1>3, <1>6, <1>11
  <1>13. ASSUME NEW v \in Ids, v # w, kid[v].state = "up" PROVE routes[k] # v
    <2>1. v \in Alive
      BY <1>13, AliveIs
    <2> QED
      BY <1>2, <1>13, <2>1 DEF Pick
  <1>14. \A v \in Ids \ {w} : Owns(routes', v) \subseteq Owns(routes, v)
    BY <1>12 DEF Owns
  <1>15. ASSUME NEW v \in Ids, v # w, kid[v].state = "up" PROVE Owns(routes', v) = Owns(routes, v)
    BY <1>12, <1>13, <1>15 DEF Owns
  <1>16. ASSUME kid[w].state = "up" PROVE Tally(kid', routes', socket', w)
    <2>1. /\ Cardinality(Owns(routes, w)) \in Nat /\ IsFiniteSet(Owns(routes, w))
          /\ Cardinality(Has(socket, w)) \in Nat /\ IsFiniteSet(Has(socket, w))
          /\ Cardinality(Closes(kid[w].up)) \in Nat /\ IsFiniteSet(Closes(kid[w].up))
          /\ kid[w].load = Cardinality(Owns(routes, w)) + Cardinality(Has(socket, w))
                             + Cardinality(Closes(kid[w].up))
      BY <1>1, <1>3, <1>16, TallyParts
    <2>2. /\ IsFiniteSet(Owns(routes', w))
          /\ Cardinality(Owns(routes', w)) = Cardinality(Owns(routes, w))
                                               + IF routes[k] = w THEN 0 ELSE 1
      <3>1. CASE routes[k] = w
        <4>1. Owns(routes', w) = Owns(routes, w)
          BY <1>12, <3>1 DEF Owns
        <4> QED
          BY <2>1, <3>1, <4>1
      <3>2. CASE routes[k] # w
        <4>1. Owns(routes', w) = Owns(routes, w) \union {k} /\ k \notin Owns(routes, w)
          BY <1>12, <3>2 DEF Owns
        <4>2. /\ IsFiniteSet(Owns(routes', w))
              /\ Cardinality(Owns(routes', w)) = Cardinality(Owns(routes, w)) + 1
          BY <2>1, <4>1, FS_AddElement
        <4> QED
          BY <3>2, <4>2
      <3> QED
        BY <3>1, <3>2
    <2>3. PICK n : n = IF routes[k] = w THEN 0 ELSE 1
      OBVIOUS
    <2>4. n \in Nat
      BY <2>3
    <2>5. socket' = socket /\ kid'[w].up = kid[w].up /\ kid'[w].load = kid[w].load + n
      BY <1>3, <1>6, <1>10, <2>3
    <2>6. Cardinality(Owns(routes', w)) = Cardinality(Owns(routes, w)) + n
      BY <2>2, <2>3
    <2>7. kid'[w].load = Cardinality(Owns(routes', w)) + Cardinality(Has(socket', w))
                           + Cardinality(Closes(kid'[w].up))
      BY <2>1, <2>4, <2>5, <2>6
    <2> QED
      BY <2>1, <2>2, <2>5, <2>7 DEF Tally
  <1>17. ASSUME NEW v \in Ids, kid'[v].state = "up" PROVE Tally(kid', routes', socket', v)
    <2>1. CASE v = w
      BY <1>10, <1>16, <1>17, <2>1
    <2>2. CASE v # w
      <3>1. AsMuch(v) /\ kid[v].state = "up"
        BY <1>6, <1>10, <1>15, <1>17, <2>2 DEF AsMuch
      <3> QED
        BY <1>1, <3>1, TallyStays
    <2> QED
      BY <2>1, <2>2
  <1>18. ASSUME NEW v \in Ids, kid'[v].state = "new" PROVE Nothing(v)'
    <2>1. Nothing(v) /\ v # w
      BY <1>1, <1>3, <1>10, <1>18 DEF Even
    <2> QED
      BY <1>6, <1>10, <1>14, <2>1 DEF Nothing
  <1>19. \A v \in Ids : kid'[v].load \in Nat
    <2>1. kid'[w].load \in Nat
      BY <1>7, <1>10
    <2> QED
      BY <1>1, <1>10, <2>1 DEF Even
  <1>20. Even'
    BY <1>1, <1>6, <1>12, <1>17, <1>18, <1>19 DEF Even
  <1>21. Line'
    BY <1>1, <1>6, <1>10, LineStays
  <1> QED
    BY <1>20, <1>21

\* A message of any worker: the load that falls is that of the one it is about.
LEMMA ReadyRead ==
  ASSUME Ready, NEW w \in Ids, Read(w)
  PROVE  Even' /\ Line'
  <1>1. IsRecords(kid) /\ Even /\ Line /\ IsKids(kid)
    BY DEF Ready, Whole, IInv
  <1>2. PICK m : m = Head(kid[w].up)
    OBVIOUS
  <1>3. PICK x : x = Tail(kid[w].up)
    OBVIOUS
  <1>4. PICK g : g = [kid EXCEPT ![w].up = x]
    OBVIOUS
  <1>5. kid[w].up \in Seq(Up) /\ kid[w].up # <<>> /\ m \in Up
    BY <1>1, <1>2 DEF IsKids, IsKid, Read
  <1>6. /\ IsRecords(g) /\ g[w].up = x
        /\ \A v \in Ids : g[v].state = kid[v].state /\ g[v].load = kid[v].load
        /\ \A v \in Ids \ {w} : g[v].up = kid[v].up
    <2>1. IsRecords(g) /\ StatesOf(kid, g)
      BY <1>1, <1>4, FieldStates
    <2>2. \A v \in Ids : g[v].load = kid[v].load
      BY <1>1, <1>4, LoadsSame
    <2>3. g[w].up = x /\ \A v \in Ids \ {w} : g[v].up = kid[v].up
      BY <1>1, <1>4 DEF IsRecords
    <2> QED
      BY <2>1, <2>2, <2>3 DEF StatesOf
  <1>7. socket' = socket /\ pending' = pending
    BY DEF Read, fleet
  <1>8. kid[w].state # "new"
    BY <1>1, <1>5 DEF Even, Nothing
  <1>9. \A v \in Ids : g[v].load \in Nat
    BY <1>1, <1>6 DEF Even
  <1>10. routes \in [Keys -> Ids \union {NoOne}]
    BY <1>1 DEF Even
  <1>11. ASSUME kid[w].state = "up"
         PROVE  /\ IsFiniteSet(Closes(x)) /\ Cardinality(Closes(x)) \in Nat
                /\ m.t = "off" => Cardinality(Closes(kid[w].up)) = Cardinality(Closes(x)) + 1
                /\ m.t # "off" => Cardinality(Closes(kid[w].up)) = Cardinality(Closes(x))
    <2>1. IsFiniteSet(Closes(kid[w].up))
      BY <1>1, <1>11, TallyParts
    <2>2. /\ IsFiniteSet(Closes(Tail(kid[w].up)))
          /\ Head(kid[w].up).t = "off"
               => Cardinality(Closes(kid[w].up)) = Cardinality(Closes(Tail(kid[w].up))) + 1
          /\ Head(kid[w].up).t # "off"
               => Cardinality(Closes(kid[w].up)) = Cardinality(Closes(Tail(kid[w].up)))
      BY <1>5, <2>1, ClosesFewer
    <2> QED
      BY <1>2, <1>3, <2>2, FS_CardinalityType
  \* All that is left to show of each case.
  <1>12. ASSUME routes' \in [Keys -> Ids \union {NoOne}],
                \A v \in Ids : kid'[v].state = kid[v].state /\ kid'[v].load \in Nat,
                \A v \in Ids \ {w} : kid'[v].up = kid[v].up,
                \A v \in Ids : kid[v].state = "up" => Tally(kid', routes', socket', v),
                \A v \in Ids : Owns(routes', v) \subseteq Owns(routes, v)
         PROVE  Even' /\ Line'
    <2>1. ASSUME NEW v \in Ids, kid'[v].state = "new" PROVE Nothing(v)'
      <3>1. Nothing(v) /\ v # w
        BY <1>1, <1>8, <1>12, <2>1 DEF Even
      <3> QED
        BY <1>7, <1>12, <3>1 DEF Nothing
    <2>2. Even'
      BY <1>1, <1>7, <1>12, <2>1 DEF Even
    <2>3. Line'
      BY <1>1, <1>7, <1>12, LineStays
    <2> QED
      BY <2>2, <2>3
  <1>13. CASE m.t = "off" /\ kid' = Loaded(g, w, -1) /\ UNCHANGED routes
    <2>1. /\ \A v \in Ids : kid'[v].state = g[v].state /\ kid'[v].up = g[v].up
          /\ \A v \in Ids \ {w} : kid'[v].load = g[v].load
      BY <1>6, <1>13, FieldsLoad
    <2>2. kid'[w].load = IF g[w].load = 0 THEN 0 ELSE g[w].load - 1
      BY <1>6, <1>9, <1>13, LoadedDown
    <2>3. kid'[w].load \in Nat /\ (kid[w].load # 0 => kid'[w].load = kid[w].load - 1)
      BY <1>6, <1>9, <2>2
    <2>4. ASSUME kid[w].state = "up" PROVE Tally(kid', routes', socket', w)
      <3>1. /\ Cardinality(Owns(routes, w)) \in Nat /\ IsFiniteSet(Owns(routes, w))
            /\ Cardinality(Has(socket, w)) \in Nat /\ IsFiniteSet(Has(socket, w))
            /\ Cardinality(Closes(kid[w].up)) \in Nat /\ IsFiniteSet(Closes(kid[w].up))
            /\ kid[w].load = Cardinality(Owns(routes, w)) + Cardinality(Has(socket, w))
                               + Cardinality(Closes(kid[w].up))
        BY <1>1, <2>4, TallyParts
      <3>2. /\ IsFiniteSet(Closes(x)) /\ Cardinality(Closes(x)) \in Nat
            /\ Cardinality(Closes(kid[w].up)) = Cardinality(Closes(x)) + 1
        BY <1>11, <1>13, <2>4
      <3>3. kid'[w].load = kid[w].load - 1
        BY <2>3, <3>1, <3>2
      <3>4. routes' = routes /\ socket' = socket /\ kid'[w].up = x
        BY <1>6, <1>7, <1>13, <2>1
      <3>5. kid'[w].load = Cardinality(Owns(routes', w)) + Cardinality(Has(socket', w))
                             + Cardinality(Closes(kid'[w].up))
        BY <3>1, <3>2, <3>3, <3>4
      <3> QED
        BY <3>1, <3>2, <3>4, <3>5 DEF Tally
    <2>5. ASSUME NEW v \in Ids, kid[v].state = "up" PROVE Tally(kid', routes', socket', v)
      <3>1. CASE v # w
        <4>1. AsMuch(v)
          BY <1>6, <1>7, <1>13, <2>1, <3>1 DEF AsMuch
        <4> QED
          BY <1>1, <2>5, <4>1, TallyStays
      <3> QED
        BY <2>4, <2>5, <3>1
    <2>6. \A v \in Ids : kid'[v].state = kid[v].state /\ kid'[v].load \in Nat
      BY <1>6, <1>9, <2>1, <2>3
    <2>7. \A v \in Ids \ {w} : kid'[v].up = kid[v].up
      BY <1>6, <2>1
    <2> QED
      BY <1>10, <1>12, <1>13, <2>5, <2>6, <2>7
  \* Of a key that has an owner, or none.
  <1>14. CASE m.t # "off" /\ kid' = g /\ routes[m.k] = NoOne
              /\ routes' = [routes EXCEPT ![m.k] = NoOne]
    <2>1. routes' = routes
      BY <1>10, <1>14
    <2>2. ASSUME NEW v \in Ids, kid[v].state = "up" PROVE Tally(kid', routes', socket', v)
      <3>1. /\ Cardinality(Owns(routes, v)) \in Nat /\ IsFiniteSet(Owns(routes, v))
            /\ Cardinality(Has(socket, v)) \in Nat /\ IsFiniteSet(Has(socket, v))
            /\ Cardinality(Closes(kid[v].up)) \in Nat /\ IsFiniteSet(Closes(kid[v].up))
            /\ kid[v].load = Cardinality(Owns(routes, v)) + Cardinality(Has(socket, v))
                               + Cardinality(Closes(kid[v].up))
        BY <1>1, <2>2, TallyParts
      <3>2. /\ IsFiniteSet(Closes(kid'[v].up))
            /\ Cardinality(Closes(kid'[v].up)) = Cardinality(Closes(kid[v].up))
        <4>1. CASE v = w
          BY <1>6, <1>11, <1>14, <2>2, <4>1
        <4>2. CASE v # w
          BY <1>6, <1>14, <3>1, <4>2
        <4> QED
          BY <4>1, <4>2
      <3>3. kid'[v].load = kid[v].load
        BY <1>6, <1>14
      <3>4. kid'[v].load = Cardinality(Owns(routes', v)) + Cardinality(Has(socket', v))
                             + Cardinality(Closes(kid'[v].up))
        BY <1>7, <2>1, <3>1, <3>2, <3>3
      <3> QED
        BY <1>7, <2>1, <3>1, <3>2, <3>4 DEF Tally
    <2>3. /\ \A v \in Ids : kid'[v].state = kid[v].state /\ kid'[v].load \in Nat
          /\ \A v \in Ids \ {w} : kid'[v].up = kid[v].up
      BY <1>6, <1>9, <1>14
    <2> QED
      BY <1>10, <1>12, <2>1, <2>2, <2>3
  <1>15. CASE m.t # "off" /\ kid' = Forget(g, m.k) /\ routes[m.k] # NoOne
              /\ routes' = [routes EXCEPT ![m.k] = NoOne]
    <2>1. PICK k \in Keys : m.k = k
      BY <1>5, <1>15 DEF Up
    <2>2. PICK o \in Ids : routes[k] = o
      BY <1>10, <1>15, <2>1
    <2>3. kid' = IF o \in Roster THEN Loaded(g, o, -1) ELSE g
      BY <1>15, <2>1, <2>2 DEF Forget
    <2>4. routes' = [routes EXCEPT ![k] = NoOne]
      BY <1>15, <2>1
    <2>5. /\ \A v \in Ids : kid'[v].state = g[v].state /\ kid'[v].up = g[v].up
          /\ \A v \in Ids \ {o} : kid'[v].load = g[v].load
      BY <1>6, <2>3, FieldsLoad
    <2>6. kid'[o].load = IF o \notin Roster \/ g[o].load = 0 THEN g[o].load ELSE g[o].load - 1
      <3>1. CASE o \in Roster
        <4>1. kid' = Loaded(g, o, -1)
          BY <2>3, <3>1
        <4>2. kid'[o].load = IF g[o].load = 0 THEN 0 ELSE g[o].load - 1
          BY <1>6, <1>9, <4>1, LoadedDown
        <4> QED
          BY <1>9, <3>1, <4>2
      <3>2. CASE o \notin Roster
        BY <2>3, <3>2
      <3> QED
        BY <3>1, <3>2
    <2>7. kid'[o].load \in Nat
      BY <1>9, <2>6
    <2>8. /\ routes' \in [Keys -> Ids \union {NoOne}] /\ routes'[k] = NoOne
          /\ \A i \in Keys \ {k} : routes'[i] = routes[i]
      BY <1>10, <2>4
    <2>9. /\ Owns(routes', o) = Owns(routes, o) \ {k} /\ k \in Owns(routes, o)
          /\ \A v \in Ids \ {o} : Owns(routes', v) = Owns(routes, v)
      BY <2>2, <2>8, PlacesApart DEF Owns
    <2>10. ASSUME NEW v \in Ids, kid[v].state = "up" PROVE Tally(kid', routes', socket', v)
      <3>1. /\ Cardinality(Owns(routes, v)) \in Nat /\ IsFiniteSet(Owns(routes, v))
            /\ Cardinality(Has(socket, v)) \in Nat /\ IsFiniteSet(Has(socket, v))
            /\ Cardinality(Closes(kid[v].up)) \in Nat /\ IsFiniteSet(Closes(kid[v].up))
            /\ kid[v].load = Cardinality(Owns(routes, v)) + Cardinality(Has(socket, v))
                               + Cardinality(Closes(kid[v].up))
        BY <1>1, <2>10, TallyParts
      <3>2. /\ IsFiniteSet(Closes(kid'[v].up))
            /\ Cardinality(Closes(kid'[v].up)) = Cardinality(Closes(kid[v].up))
        <4>1. CASE v = w
          BY <1>6, <1>11, <1>15, <2>5, <2>10, <4>1
        <4>2. CASE v # w
          BY <1>6, <2>5, <3>1, <4>2
        <4> QED
          BY <4>1, <4>2
      <3>3. CASE v # o
        <4>1. kid'[v].load = kid[v].load /\ Owns(routes', v) = Owns(routes, v)
          BY <1>6, <2>5, <2>9, <3>3
        <4>2. kid'[v].load = Cardinality(Owns(routes', v)) + Cardinality(Has(socket', v))
                               + Cardinality(Closes(kid'[v].up))
          BY <1>7, <3>1, <3>2, <4>1
        <4> QED
          BY <1>7, <3>1, <3>2, <4>1, <4>2 DEF Tally
      <3>4. CASE v = o
        <4>1. /\ IsFiniteSet(Owns(routes', v))
              /\ Cardinality(Owns(routes', v)) = Cardinality(Owns(routes, v)) - 1
          BY <2>9, <3>1, <3>4, FS_RemoveElement
        <4>2. Cardinality(Owns(routes', v)) \in Nat
          BY <4>1, FS_CardinalityType
        <4>3. kid[v].load # 0
          BY <3>1, <4>1, <4>2
        <4>4. o \in Roster
          BY <2>10, <3>4 DEF Roster
        <4>5. kid'[v].load = kid[v].load - 1
          BY <1>6, <2>6, <3>4, <4>3, <4>4
        <4>6. kid'[v].load = Cardinality(Owns(routes', v)) + Cardinality(Has(socket', v))
                               + Cardinality(Closes(kid'[v].up))
          BY <1>7, <3>1, <3>2, <4>1, <4>5
        <4> QED
          BY <1>7, <3>1, <3>2, <4>1, <4>6 DEF Tally
      <3> QED
        BY <3>3, <3>4
    <2>11. /\ \A v \in Ids : kid'[v].state = kid[v].state /\ kid'[v].load \in Nat
           /\ \A v \in Ids \ {w} : kid'[v].up = kid[v].up
      BY <1>6, <1>9, <2>5, <2>7
    <2>12. \A v \in Ids : Owns(routes', v) \subseteq Owns(routes, v)
      BY <2>9
    <2> QED
      BY <1>12, <2>8, <2>10, <2>11, <2>12
  <1>16. \/ m.t = "off" /\ kid' = Loaded(g, w, -1) /\ UNCHANGED routes
         \/ /\ m.t # "off" /\ routes' = [routes EXCEPT ![m.k] = NoOne]
            /\ kid' = IF routes[m.k] = NoOne THEN g ELSE Forget(g, m.k)
    BY <1>2, <1>3, <1>4 DEF Read
  <1> QED
    BY <1>13, <1>14, <1>15, <1>16

LEMMA InitReady == Init => Even /\ Line
  <1> SUFFICES ASSUME Init PROVE Even /\ Line
    OBVIOUS
  <1>1. /\ \A w \in Ids : kid[w] = [state |-> IF w <= Size THEN "up" ELSE "new", load |-> 0,
                                    down |-> <<>>, up |-> <<>>]
        /\ socket = [s \in Sockets |-> New] /\ routes = [k \in Keys |-> NoOne] /\ pending = <<>>
    BY DEF Init
  <1>2. \A w \in Ids : kid[w].load = 0 /\ kid[w].up = <<>>
    <2> SUFFICES ASSUME NEW w \in Ids PROVE kid[w].load = 0 /\ kid[w].up = <<>>
      OBVIOUS
    <2>1. kid[w] = [state |-> IF w <= Size THEN "up" ELSE "new", load |-> 0,
                    down |-> <<>>, up |-> <<>>]
      BY <1>1
    <2> QED
      BY <2>1
  <1>3. \A w \in Ids : Owns(routes, w) = {} /\ Has(socket, w) = {} /\ Closes(kid[w].up) = {}
    BY <1>1, <1>2, PlacesApart DEF Owns, Has, Closes
  <1>4. IsFiniteSet({}) /\ Cardinality({}) = 0
    BY FS_EmptySet
  <1>5. ASSUME NEW w \in Ids PROVE Tally(kid, routes, socket, w) /\ Nothing(w)
    <2>1. /\ IsFiniteSet(Owns(routes, w)) /\ Cardinality(Owns(routes, w)) = 0
          /\ IsFiniteSet(Has(socket, w)) /\ Cardinality(Has(socket, w)) = 0
          /\ IsFiniteSet(Closes(kid[w].up)) /\ Cardinality(Closes(kid[w].up)) = 0
      BY <1>3, <1>4
    <2> QED
      BY <1>2, <1>3, <2>1 DEF Tally, Nothing
  <1>6. Even
    <2>1. /\ socket \in [Sockets -> {New, Waiting, Closed} \union Ids]
          /\ routes \in [Keys -> Ids \union {NoOne}]
      BY <1>1
    <2> QED
      BY <1>2, <1>5, <2>1 DEF Even
  <1>7. Line
    <2>1. \A t \in Sockets : socket[t] # Waiting
      BY <1>1 DEF New, Waiting
    <2>2. Len(<<>>) = 0 /\ <<>> \in Seq(Sockets) /\ DOMAIN <<>> = {} /\ PendingLimit \in Nat
      BY WorkersAssumption
    <2> QED
      BY <1>1, <2>1, <2>2 DEF Line
  <1> QED
    BY <1>6, <1>7

LEMMA StepReady == Ready /\ [Next]_vars => Ready'
  <1> SUFFICES ASSUME Ready, [Next]_vars PROVE Ready'
    OBVIOUS
  <1>1. IInv' /\ Whole'
    BY StepIInv, StepWhole DEF Ready
  <1>2. ASSUME NEW s \in Sockets, Dispatch(s) \/ CloseWaiting(s) \/ CloseHeld(s)
        PROVE  Even' /\ Line'
    BY <1>2, ReadyDispatch, ReadyCloseWaiting, ReadyCloseHeld
  <1>3. ASSUME Spawn PROVE Even' /\ Line'
    BY <1>3, ReadySpawn
  <1>4. ASSUME NEW w \in Ids, Die(w) \/ Disconnect(w) \/ Exit(w) PROVE Even' /\ Line'
    BY <1>4, ReadyDie, ReadyDisconnect, ReadyExit
  <1>5. ASSUME NEW w \in Ids, Read(w) \/ Receive(w) PROVE Even' /\ Line'
    BY <1>5, ReadyRead, ReadyReceive
  <1>6. ASSUME NEW k \in Keys, NEW d \in Salts \union {"data", "reset"}, Inbound(k, d)
        PROVE  Even' /\ Line'
    BY <1>6, ReadyInbound
  <1>7. ASSUME NEW k \in Keys, InboundNobody(k) PROVE Even' /\ Line'
    BY <1>7, ReadyInboundNobody
  <1>8. ASSUME NEW w \in Ids, NEW k \in Keys, PeerLost(w, k) PROVE Even' /\ Line'
    BY <1>8, ReadyPeers
  <1>9. ASSUME NEW w \in Ids, NEW x \in stray[w], StrayEnds(w, x) \/ StrayDrops(w, x)
        PROVE  Even' /\ Line'
    BY <1>9, ReadyPeers
  <1>10. ASSUME UNCHANGED vars PROVE Even' /\ Line'
    BY <1>10, ReadySame
  <1>11. Even' /\ Line'
    BY <1>2, <1>3, <1>4, <1>5, <1>6, <1>7, <1>8, <1>9, <1>10 DEF Next
  <1> QED
    BY <1>1, <1>11 DEF Ready

LEMMA SpecReady == Spec => []Ready
  <1>1. Init => Ready
    BY InitIInv, InitWhole, InitReady DEF Ready
  <1> QED
    BY <1>1, StepReady, PTL DEF Spec

\* What dispatch and pick balance by stays true of each worker that lives, for any
\* fleet: no close, drop, exit or late message counts twice or not at all, and a
\* load that is taken back was never 0 (dispatch, deliver, pick, forget).
THEOREM LoadsCounted == Spec => []LoadCounted
  <1>1. ASSUME Ready PROVE LoadCounted
    <2> SUFFICES ASSUME NEW w \in Ids, kid[w].state = "up"
                 PROVE  kid[w].load = Cardinality({k \in Keys : routes[k] = w})
                          + Cardinality({s \in Sockets : socket[s] = w}) + Cardinality(Offs(w))
      BY DEF LoadCounted
    <2>1. Tally(kid, routes, socket, w)
      BY <1>1 DEF Ready, Even
    <2>2. /\ Owns(routes, w) = {k \in Keys : routes[k] = w}
          /\ Has(socket, w) = {s \in Sockets : socket[s] = w}
          /\ Closes(kid[w].up) = Offs(w)
      BY DEF Owns, Has, Closes, Offs
    <2> QED
      BY <2>1, <2>2 DEF Tally
  <1> QED
    BY <1>1, SpecReady, PTL

-----------------------------------------------------------------------------
(* Types, with their bounds.                                               *)

BPeer  == {NoPeer} \union [n : 1 .. MaxPeers, salt : Salts]
BStray == [k : Keys, n : 1 .. MaxPeers]

Bounds ==
    /\ sequence \in Ids /\ greeted \in 0 .. MaxPeers /\ crossed \subseteq Keys
    /\ peers \in [Ids -> [Keys -> BPeer]] /\ stray \in [Ids -> SUBSET BStray]

LEMMA InitBounds == Init => Bounds
  <1> SUFFICES ASSUME Init PROVE Bounds
    OBVIOUS
  <1>1. sequence \in Ids
    BY WorkersAssumption DEF Init, Ids
  <1>2. greeted \in 0 .. MaxPeers /\ crossed \subseteq Keys
    BY WorkersAssumption DEF Init
  <1>3. peers \in [Ids -> [Keys -> BPeer]] /\ stray \in [Ids -> SUBSET BStray]
    BY DEF Init, NoPeers, BPeer
  <1> QED
    BY <1>1, <1>2, <1>3 DEF Bounds

LEMMA BoundsReceive ==
  ASSUME Ready, Bounds, NEW w \in Ids, Receive(w)
  PROVE  Bounds'
  <1>1. Head(kid[w].down) \in Down
    <2>1. kid[w].down \in Seq(Down) /\ kid[w].down # <<>>
      BY DEF Ready, IInv, IsKids, IsKid, Receive
    <2> QED
      BY <2>1
  <1>2. PICK k \in Keys : Head(kid[w].down).k = k
    BY <1>1 DEF Down
  <1>3. PICK d : Head(kid[w].down).d = d
    OBVIOUS
  <1>4. sequence' = sequence
    BY DEF Receive, fleet
  <1>5. /\ sequence \in Ids /\ greeted \in 0 .. MaxPeers /\ crossed \subseteq Keys
        /\ peers \in [Ids -> [Keys -> BPeer]] /\ stray \in [Ids -> SUBSET BStray]
        /\ MaxPeers \in Nat
    BY WorkersAssumption DEF Bounds
  <1>6. CASE UNCHANGED <<greeted, crossed, stray>> /\ peers' = [peers EXCEPT ![w][k] = NoPeer]
    <2>1. peers' \in [Ids -> [Keys -> BPeer]]
      BY <1>5, <1>6 DEF BPeer
    <2> QED
      BY <1>4, <1>5, <1>6, <2>1 DEF Bounds
  <1>7. CASE UNCHANGED <<peers, greeted, stray, crossed>>
    BY <1>4, <1>5, <1>7 DEF Bounds
  <1>8. CASE /\ d \in Salts /\ greeted < MaxPeers /\ greeted' = greeted + 1 /\ UNCHANGED stray
             /\ peers' = [peers EXCEPT ![w][k] = [n |-> greeted + 1, salt |-> d]]
             /\ crossed' = IF InDoubt(k, w) THEN crossed \union {k} ELSE crossed
    <2>1. greeted' \in 0 .. MaxPeers /\ greeted + 1 \in 1 .. MaxPeers
      BY <1>5, <1>8
    <2>2. PICK p : p = [n |-> greeted + 1, salt |-> d]
      OBVIOUS
    <2>3. p \in BPeer
      BY <1>8, <2>1, <2>2 DEF BPeer
    <2>4. peers' \in [Ids -> [Keys -> BPeer]]
      BY <1>5, <1>8, <2>2, <2>3
    <2>5. crossed' \subseteq Keys
      BY <1>5, <1>8
    <2> QED
      BY <1>4, <1>5, <1>8, <2>1, <2>4, <2>5 DEF Bounds
  <1>9. CASE /\ peers[w][k] # NoPeer /\ UNCHANGED <<peers, greeted, crossed>>
             /\ stray' = [stray EXCEPT ![w] = @ \union {[k |-> k, n |-> peers[w][k].n]}]
    <2>1. PICK x : x = [k |-> k, n |-> peers[w][k].n]
      OBVIOUS
    <2>2. peers[w][k] \in [n : 1 .. MaxPeers, salt : Salts]
      BY <1>5, <1>9 DEF BPeer
    <2>3. x \in BStray
      BY <2>1, <2>2 DEF BStray
    <2>4. stray' \in [Ids -> SUBSET BStray]
      BY <1>5, <1>9, <2>1, <2>3
    <2> QED
      BY <1>4, <1>5, <1>9, <2>4 DEF Bounds
  <1> QED
    BY <1>2, <1>3, <1>6, <1>7, <1>8, <1>9 DEF Receive, Drop

LEMMA BoundsDrop ==
  ASSUME Bounds, NEW w \in Ids, NEW k \in Keys, Drop(kid, w, k),
         UNCHANGED <<sequence, greeted>>, stray' \in [Ids -> SUBSET BStray],
         crossed' \subseteq Keys
  PROVE  Bounds'
  <1>1. peers' = [peers EXCEPT ![w][k] = NoPeer]
    BY DEF Drop
  <1>2. peers' \in [Ids -> [Keys -> BPeer]]
    BY <1>1 DEF Bounds, BPeer
  <1> QED
    BY <1>2 DEF Bounds

LEMMA StepBounds == Ready /\ Bounds /\ [Next]_vars => Bounds'
  <1> SUFFICES ASSUME Ready, Bounds, [Next]_vars PROVE Bounds'
    OBVIOUS
  <1>1. ASSUME UNCHANGED <<sequence, greeted, crossed, peers, stray>> PROVE Bounds'
    BY <1>1 DEF Bounds
  <1>2. ASSUME NEW s \in Sockets, Dispatch(s) \/ CloseWaiting(s) \/ CloseHeld(s) PROVE Bounds'
    BY <1>1, <1>2 DEF Dispatch, CloseWaiting, CloseHeld
  <1>3. CASE Spawn
    <2>1. UNCHANGED <<greeted, crossed, peers, stray>>
      BY <1>3 DEF Spawn
    <2>2. sequence' \in Ids
      BY <1>3, WorkersAssumption DEF Spawn, Bounds, Ids
    <2> QED
      BY <2>1, <2>2 DEF Bounds
  <1>4. ASSUME NEW w \in Ids, Die(w) PROVE Bounds'
    <2>1. /\ UNCHANGED <<sequence, greeted, crossed>> /\ peers' = [peers EXCEPT ![w] = NoPeers]
          /\ stray' = [stray EXCEPT ![w] = {}]
      BY <1>4 DEF Die
    <2>2. NoPeers \in [Keys -> BPeer]
      BY DEF NoPeers, BPeer
    <2>3. peers' \in [Ids -> [Keys -> BPeer]] /\ stray' \in [Ids -> SUBSET BStray]
      BY <2>1, <2>2 DEF Bounds
    <2> QED
      BY <2>1, <2>3 DEF Bounds
  <1>5. ASSUME NEW w \in Ids, Disconnect(w) \/ Exit(w) \/ Read(w) PROVE Bounds'
    <2>1. UNCHANGED <<sequence, greeted, crossed, peers, stray>>
      BY <1>5 DEF Disconnect, Exit, Read, fleet
    <2> QED
      BY <1>1, <2>1
  <1>6. ASSUME NEW w \in Ids, Receive(w) PROVE Bounds'
    BY <1>6, BoundsReceive
  <1>7. ASSUME NEW k \in Keys, NEW d, Inbound(k, d) \/ InboundNobody(k) PROVE Bounds'
    <2>1. UNCHANGED <<sequence, greeted, crossed, peers, stray>>
      BY <1>7 DEF Inbound, InboundNobody, fleet
    <2> QED
      BY <1>1, <2>1
  <1>8. ASSUME NEW w \in Ids, NEW k \in Keys, PeerLost(w, k) PROVE Bounds'
    <2>1. Drop(kid, w, k) /\ UNCHANGED <<sequence, greeted, stray, crossed>>
      BY <1>8 DEF PeerLost, fleet
    <2>2. stray' \in [Ids -> SUBSET BStray] /\ crossed' \subseteq Keys
      BY <2>1 DEF Bounds
    <2> QED
      BY <2>1, <2>2, BoundsDrop
  <1>9. ASSUME NEW w \in Ids, NEW x \in stray[w], StrayEnds(w, x) PROVE Bounds'
    <2>1. UNCHANGED <<sequence, greeted, crossed, peers>> /\ stray' = [stray EXCEPT ![w] = @ \ {x}]
      BY <1>9 DEF StrayEnds, fleet
    <2>2. stray' \in [Ids -> SUBSET BStray]
      BY <2>1 DEF Bounds
    <2> QED
      BY <2>1, <2>2 DEF Bounds
  <1>10. ASSUME NEW w \in Ids, NEW x \in stray[w], StrayDrops(w, x) PROVE Bounds'
    <2>1. PICK k : k = x.k
      OBVIOUS
    <2>2. /\ Drop(kid, w, k) /\ UNCHANGED <<sequence, greeted>>
          /\ stray' = [stray EXCEPT ![w] = @ \ {x}]
          /\ crossed' = IF peers[w][k].n # x.n THEN crossed \union {k} ELSE crossed
      BY <1>10, <2>1 DEF StrayDrops, fleet
    <2>3. k \in Keys
      BY <2>1 DEF Bounds, BStray
    <2>4. stray' \in [Ids -> SUBSET BStray] /\ crossed' \subseteq Keys
      BY <2>2, <2>3 DEF Bounds
    <2> QED
      BY <2>2, <2>3, <2>4, BoundsDrop
  <1>11. CASE UNCHANGED vars
    BY <1>1, <1>11 DEF vars
  <1> QED
    BY <1>2, <1>3, <1>4, <1>5, <1>6, <1>7, <1>8, <1>9, <1>10, <1>11 DEF Next

LEMMA TypesHold == ASSUME Ready, Bounds PROVE TypeOK
  <1>1. IsKids(kid) /\ Rest /\ Even /\ Line
    BY DEF Ready, IInv
  <1>2. /\ sequence \in Ids /\ timers \in Nat /\ greeted \in 0 .. MaxPeers /\ crossed \subseteq Keys
    BY <1>1 DEF Bounds, Rest
  <1>3. ASSUME NEW w \in Ids
        PROVE  /\ kid[w].state \in {"new", "up", "dead", "cut", "gone"} /\ kid[w].load \in Nat
               /\ kid[w].down \in Seq([k : Keys, d : Salts \union {"data", "reset"}])
               /\ kid[w].up \in Seq([t : {"off"}] \union [t : {"ux"}, k : Keys])
    <2>1. IsKid(kid[w]) /\ kid[w].load \in Nat
      BY <1>1 DEF IsKids, Even
    <2> QED
      BY <2>1 DEF IsKid, States, Down, Up
  <1>4. ASSUME NEW w \in Ids
        PROVE  peers[w] \in [Keys -> [n : 0 .. MaxPeers, salt : Salts \union {"none"}]]
    <2>1. peers[w] \in [Keys -> BPeer]
      BY DEF Bounds
    <2>2. NoPeer \in [n : 0 .. MaxPeers, salt : Salts \union {"none"}]
      BY WorkersAssumption DEF NoPeer
    <2>3. [n : 1 .. MaxPeers, salt : Salts] \subseteq [n : 0 .. MaxPeers, salt : Salts \union {"none"}]
      OBVIOUS
    <2>4. BPeer \subseteq [n : 0 .. MaxPeers, salt : Salts \union {"none"}]
      BY <2>2, <2>3 DEF BPeer
    <2> QED
      BY <2>1, <2>4
  <1>5. \A w \in Ids : stray[w] \subseteq [k : Keys, n : 1 .. MaxPeers]
    BY DEF Bounds, BStray
  <1>6. {pending[i] : i \in DOMAIN pending} = {s \in Sockets : socket[s] = Waiting}
    <2>1. \A i \in DOMAIN pending : pending[i] \in Sockets
      BY <1>1 DEF Line
    <2> QED
      BY <1>1, <2>1 DEF Line
  <1>7. /\ Len(pending) <= PendingLimit
        /\ socket \in [Sockets -> {New, Waiting, Closed} \union Ids]
        /\ routes \in [Keys -> Ids \union {NoOne}]
    BY <1>1 DEF Line, Even
  <1> QED
    BY <1>2, <1>3, <1>4, <1>5, <1>6, <1>7 DEF TypeOK

\* The fleet serves, whatever its size and its limits: each worker that exits is
\* started again, no socket waits while a worker lives, those that wait are the queue,
\* and the queue, loads, routes and peers keep their bounds (dispatch, spawn).
THEOREM FleetServed == Spec => []FleetServes
  <1>1. Init => Bounds
    BY InitBounds
  <1>2. ASSUME Ready, Bounds PROVE FleetServes
    <2>1. FleetWhole
      BY <1>2 DEF Ready, Whole
    <2>2. NoneWaitsInVain
      BY <1>2 DEF Ready, Line, NoneWaitsInVain
    <2> QED
      BY <1>2, <2>1, <2>2, TypesHold DEF FleetServes
  <1>3. Spec => []Ready
    BY SpecReady
  <1>4. Ready /\ Bounds /\ [Next]_vars => Bounds'
    BY StepBounds
  <1>5. Spec => []Bounds
    BY <1>1, <1>3, <1>4, PTL DEF Spec
  <1> QED
    BY <1>2, <1>3, <1>5, PTL
=============================================================================
