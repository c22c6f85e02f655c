------------------------------ MODULE Upstream ------------------------------
(***************************************************************************)
(* Upstream of src/js/upstream.ts: miners housed on pool links that come   *)
(* and go.                                                                 *)
(*                                                                         *)
(* All of it runs on one event loop, and what makes it hard is what may    *)
(* happen between the await in pick() and the code after it.  The state    *)
(* "todo" is that event loop's work before the next event: the synchronous *)
(* calls still to be made by the handler that runs, then the continuations *)
(* of settled promises in the order they were settled.  An event (a login, *)
(* a job, a lost socket, a timer) is handled only when todo is empty.      *)
(* "waiting" is what awaits Link.connecting: first the task that opened    *)
(* the link, then those that found it connecting.                          *)
(*                                                                         *)
(* Abstractions: every miner has the same hashrate, so load counts miners; *)
(* which links have room for a miner, which one is the roomiest, how many  *)
(* miners of an overloaded link move and when an idle link has expired is  *)
(* a choice; a job's nonce space is a number of grants (NonceGrants has    *)
(* the nonces); slots and the nicehash expansion are left out.             *)
(***************************************************************************)
EXTENDS Integers, Sequences, FiniteSets

CONSTANTS
    Clients,    \* miners; a miner logs in at most once
    LinkIds,    \* Link objects, used again when nothing refers to them
    MaxLinks,   \* options.maxLinks
    Units,      \* grants in a fresh nonce space
    MaxJobs,    \* bound: jobs of a link
    MaxTasks,   \* bound: tasks awaiting a connecting link, when a new one is made
    Losses,     \* the pool may close a link that is up
    EarlyJobs,  \* the pool may send a job before it answers the login
    Moves       \* miners may be migrated

ASSUME UpstreamAssumption ==
    /\ IsFiniteSet(LinkIds)
    /\ MaxLinks \in Nat \ {0} /\ Units \in Nat \ {0}
    /\ MaxJobs \in Nat \ {0} /\ MaxTasks \in Nat \ {0}
    /\ Losses \in BOOLEAN /\ EarlyJobs \in BOOLEAN /\ Moves \in BOOLEAN

None == "none"

ASSUME NoneAssumption == None \notin Clients \union LinkIds

VARIABLES
    links,      \* Upstream.links, in order
    phase,      \* phase[l]: tcp, login (connecting), up (has a socket), down
    job,        \* job[l]: which job link l has; 0 is null
    left,       \* left[l]: grants left in its space
    clients,    \* Link.clients
    load,       \* Link.load
    idle,       \* idle[l]: Link.idle_at is set
    home,       \* Upstream.homes
    live,       \* Upstream.live
    session,    \* session[c]: out, in, kicked (told to go), gone
    has,        \* has[c]: the job last pushed to c, as <<link, job>>
    closed,     \* Upstream.closed
    todo,       \* work of the event loop before the next event
    waiting,    \* waiting[l]: tasks that await link l
    crossed,    \* history: miners that had two placements under way at once
    adrift,     \* history: miners on a link that is not listed, which had gone
                \* when they came to it, or failed to open with them on it
    behind      \* history: miners a migration has left without a job of the
                \* link they are on, since the one they came from had no socket

link == <<links, phase, job, left, clients, load, idle>>
who  == <<home, live, session, has>>
state == <<link, who, closed, todo, waiting>>
vars == <<links, phase, job, left, clients, load, idle, home, live, session,
          has, closed, todo, waiting, crossed, adrift, behind>>

NoJob == <<None, 0>>

Init ==
    /\ links = <<>>
    /\ phase = [l \in LinkIds |-> "down"]
    /\ job = [l \in LinkIds |-> 0]
    /\ left = [l \in LinkIds |-> 0]
    /\ clients = [l \in LinkIds |-> {}]
    /\ load = [l \in LinkIds |-> 0]
    /\ idle = [l \in LinkIds |-> FALSE]
    /\ home = [c \in Clients |-> None]
    /\ live = {}
    /\ session = [c \in Clients |-> "out"]
    /\ has = [c \in Clients |-> NoJob]
    /\ closed = FALSE
    /\ todo = <<>>
    /\ waiting = [l \in LinkIds |-> <<>>]
    /\ crossed = {} /\ adrift = {} /\ behind = {}

-----------------------------------------------------------------------------
(* Tasks.  kind says who called: "login" and "rehome" are attach(), called  *)
(* by LocalBackend.login and by sever; "chunk", "renew" and "sweep" are     *)
(* migrate(), called by chunk, by accept, and by rebalance or consolidate.  *)

Attaching == {"login", "rehome"}

\* Work of the event loop: pick(task) up to its return or its await; what
\* follows pick's return of link "on", or its error; the miners accept has
\* yet to serve; the miners rebalance has yet to move; the links and the call
\* of consolidate left of a sweep.
PickCall(task)   == [op |-> "pick", task |-> task]
Settled(task, l) == [op |-> "settled", task |-> task, on |-> l]
RenewCall(l, cs) == [op |-> "renew", on |-> l, clients |-> cs]
MoveCall(l, cs)  == [op |-> "move", on |-> l, clients |-> cs]
RehomeCall(cs)   == [op |-> "rehome", clients |-> cs]
SweepCall(l)     == [op |-> "sweep", on |-> l]
Consolidate      == [op |-> "consolidate"]

Listed == {links[i] : i \in DOMAIN links}

\* mutant: a link counts as connecting only once its socket is there
ConnectingLate == {l \in Listed : phase[l] = "login"}

\* Link.connecting is set
Connecting == {l \in Listed : phase[l] \in {"tcp", "login"}}

\* indexOf and splice: links has a link once at most.
Without(seq, l) ==
    IF \A i \in DOMAIN seq : seq[i] # l THEN seq
    ELSE LET index == CHOOSE i \in DOMAIN seq : seq[i] = l
         IN  [k \in 1 .. Len(seq) - 1 |-> IF k < index THEN seq[k] ELSE seq[k + 1]]

\* Nothing refers to the Link: a new Link() may be it.
Unused(l) ==
    /\ l \notin Listed /\ waiting[l] = <<>> /\ clients[l] = {}
    /\ \A c \in Clients : home[c] # l
    /\ \A i \in DOMAIN todo : "on" \in DOMAIN todo[i] => todo[i].on # l
    /\ \A i \in DOMAIN todo : "task" \in DOMAIN todo[i] => todo[i].task.from # l
    /\ \A k \in LinkIds : \A i \in DOMAIN waiting[k] :
          waiting[k][i].task.from # l /\ waiting[k][i].roomiest # l

-----------------------------------------------------------------------------
(* pick(): best-fit, else wait for a link that connects, else open one.     *)

Candidates(task) ==
    {l \in Listed : l # task.from /\ job[l] > 0 /\ left[l] > 0}

\* The roomiest candidate, or none if there is none.
Roomiest(task) == IF Candidates(task) = {} THEN {None} ELSE Candidates(task)

\* The outcomes of one turn of pick's loop; rest is what remains of todo.
Pick(task, rest) ==
    \/ /\ closed
       /\ todo' = Append(rest, Settled(task, None))
       /\ UNCHANGED <<link, waiting, has>>
    \/ /\ ~ closed
       /\ \E best \in Candidates(task) : todo' = Append(rest, Settled(task, best))
       /\ UNCHANGED <<link, waiting, has>>
    \/ /\ ~ closed /\ Connecting # {}
       /\ \E l \in Connecting :
             waiting' = [waiting EXCEPT ![l] = Append(@, [task |-> task, roomiest |-> None])]
       /\ todo' = rest
       /\ UNCHANGED <<link, has>>
    \/ /\ ~ closed /\ Connecting = {} /\ Len(links) >= MaxLinks
       /\ \E l \in Roomiest(task) : todo' = Append(rest, Settled(task, l))
       /\ UNCHANGED <<link, waiting, has>>
    \/ /\ ~ closed /\ Connecting = {} /\ Len(links) < MaxLinks
       /\ \E l \in {k \in LinkIds : Unused(k)}, r \in Roomiest(task) :
             /\ links' = Append(links, l)
             /\ phase' = [phase EXCEPT ![l] = "tcp"]
             /\ job' = [job EXCEPT ![l] = 0]
             /\ left' = [left EXCEPT ![l] = 0]
             /\ load' = [load EXCEPT ![l] = 0]
             /\ idle' = [idle EXCEPT ![l] = FALSE]
             /\ waiting' = [waiting EXCEPT ![l] = <<[task |-> task, roomiest |-> r]>>]
             /\ has' = [c \in Clients |-> IF has[c][1] = l THEN NoJob ELSE has[c]]
       /\ todo' = rest
       /\ UNCHANGED clients

\* A call of pick that is next in todo.
RunPick ==
    /\ todo # <<>> /\ Head(todo).op = "pick"
    /\ Pick(Head(todo).task, Tail(todo))
    /\ UNCHANGED <<home, live, session, closed>>

-----------------------------------------------------------------------------
(* house(), evict() and grant() on the variables of one moment, and what    *)
(* follows the await of pick in attach() and migrate().                     *)

Moment == [clients |-> clients, load |-> load, idle |-> idle, home |-> home,
           left |-> left, has |-> has]

\* mutant: the load stays
EvictKeepsLoad(m, c) ==
    LET l == m.home[c]
    IN  IF l = None THEN m
        ELSE [m EXCEPT !.clients[l] = @ \ {c},
                       !.idle[l] = @ \/ m.clients[l] \subseteq {c},
                       !.home[c] = None]

\* mutant: the home stays
EvictKeepsHome(m, c) ==
    LET l == m.home[c]
    IN  IF l = None THEN m
        ELSE [m EXCEPT !.clients[l] = @ \ {c},
                       !.load[l] = IF @ > 0 THEN @ - 1 ELSE 0]

\* evict(c)
Evict(m, c) ==
    LET l == m.home[c]
    IN  IF l = None THEN m
        ELSE [m EXCEPT !.clients[l] = @ \ {c},
                       !.load[l] = IF @ > 0 THEN @ - 1 ELSE 0,
                       !.idle[l] = @ \/ m.clients[l] \subseteq {c},
                       !.home[c] = None]

\* house(l, c)
House(m, l, c) ==
    [m EXCEPT !.clients[l] = @ \union {c}, !.load[l] = @ + 1,
              !.idle[l] = FALSE, !.home[c] = l]

\* A grant from link l, and the job pushed with it: payload() fails without one.
Grant(m, l, c) ==
    [m EXCEPT !.left[l] = @ - 1, !.has[c] = IF job[l] > 0 THEN <<l, job[l]>> ELSE @]

Become(m) ==
    /\ clients' = m.clients /\ load' = m.load /\ idle' = m.idle
    /\ home' = m.home /\ left' = m.left /\ has' = m.has

\* detach(c)
Gone(m, c) == [Evict(m, c) EXCEPT !.has[c] = NoJob]

Kick(c) == session' = [session EXCEPT ![c] = IF @ = "in" THEN "kicked" ELSE @]

\* mutant: nobody looks whether the miner is still live
RunAttachedBlind ==
    /\ todo # <<>> /\ Head(todo).op = "settled"
    /\ Head(todo).task.kind \in Attaching
    /\ LET c == Head(todo).task.client
           l == Head(todo).on
       IN  IF l # None /\ left[l] > 0 /\ job[l] > 0
           THEN /\ Become(Grant(House(Moment, l, c), l, c))
                /\ UNCHANGED <<live, session>>
           ELSE /\ Become(Gone(Moment, c))
                /\ live' = live \ {c}
                /\ session' = [session EXCEPT ![c] = "gone"]
    /\ todo' = Tail(todo)
    /\ UNCHANGED <<links, phase, job, closed, waiting>>

\* attach() after pick: the miner is housed and gets its job, or it is
\* detached and the caller hears of it: a login is refused, a miner of a lost
\* link is told to go.
RunAttached ==
    /\ todo # <<>> /\ Head(todo).op = "settled"
    /\ Head(todo).task.kind \in Attaching
    /\ LET c == Head(todo).task.client
           l == Head(todo).on
       IN  IF l # None /\ c \in live /\ left[l] > 0 /\ job[l] > 0
           THEN /\ Become(Grant(House(Moment, l, c), l, c))
                /\ UNCHANGED <<live, session>>
           ELSE /\ LET housed == IF l # None /\ c \in live THEN House(Moment, l, c) ELSE Moment
                   IN  Become(Gone(housed, c))
                /\ live' = live \ {c}
                /\ IF Head(todo).task.kind = "rehome" THEN Kick(c)
                   ELSE session' = [session EXCEPT ![c] = "gone"]
    /\ todo' = Tail(todo)
    /\ UNCHANGED <<links, phase, job, closed, waiting>>

\* mutant: nobody looks what was left when the miner arrives
RunMigratedUnchecked ==
    /\ todo # <<>> /\ Head(todo).op = "settled"
    /\ Head(todo).task.kind \notin Attaching
    /\ LET c == Head(todo).task.client
           l == Head(todo).on
       IN  Become(IF l = None \/ c \notin live THEN Moment
                  ELSE Grant(House(Evict(Moment, c), l, c), l, c))
    /\ todo' = Tail(todo)
    /\ UNCHANGED <<links, phase, job, live, session, closed, waiting>>

\* migrate() after pick: the miner moves and gets its job; a link without
\* grants sends it back to where it came from, if that is still up; a link
\* that has lost its job throws, with the miner housed on it.  accept tells a
\* miner to go when migrate returns false.
RunMigrated ==
    /\ todo # <<>> /\ Head(todo).op = "settled"
    /\ Head(todo).task.kind \notin Attaching
    /\ LET c     == Head(todo).task.client
           l     == Head(todo).on
           from  == Head(todo).task.from
           moved == House(Evict(Moment, c), l, c)
           false == IF Head(todo).task.kind = "renew" THEN Kick(c) ELSE UNCHANGED session
       IN  \/ /\ l = None \/ c \notin live
              /\ Become(Moment) /\ false
           \/ /\ l # None /\ c \in live /\ left[l] > 0
              /\ Become(Grant(moved, l, c)) /\ UNCHANGED session
           \/ /\ l # None /\ c \in live /\ left[l] = 0
              /\ Become(IF phase[from] = "up" THEN House(Evict(moved, c), from, c) ELSE moved)
              /\ false
    /\ todo' = Tail(todo)
    /\ UNCHANGED <<links, phase, job, live, closed, waiting>>

-----------------------------------------------------------------------------
(* The synchronous loops: each turn serves one miner.                       *)

\* A turn of a loop over miners that calls attach or migrate, of which pick
\* is the first part.
TurnTo(task, next) ==
    todo' = IF next.clients = {} THEN <<PickCall(task)>> \o Tail(todo)
            ELSE <<PickCall(task), next>> \o Tail(todo)

\* accept: a grant of the new job, or else migrate.
RunRenew ==
    /\ todo # <<>> /\ Head(todo).op = "renew"
    /\ \E c \in Head(todo).clients :
          LET l    == Head(todo).on
              next == RenewCall(l, Head(todo).clients \ {c})
          IN  IF left[l] > 0
              THEN /\ Become(Grant(Moment, l, c))
                   /\ todo' = IF next.clients = {} THEN Tail(todo) ELSE <<next>> \o Tail(todo)
              ELSE /\ TurnTo([kind |-> "renew", client |-> c, from |-> l], next)
                   /\ Become(Moment)
    /\ UNCHANGED <<links, phase, job, live, session, closed, waiting>>

\* rebalance and consolidate: migrate.
RunMove ==
    /\ todo # <<>> /\ Head(todo).op = "move"
    /\ \E c \in Head(todo).clients :
          TurnTo([kind |-> "sweep", client |-> c, from |-> Head(todo).on],
                 MoveCall(Head(todo).on, Head(todo).clients \ {c}))
    /\ UNCHANGED <<link, who, closed, waiting>>

\* mutant: one orphan is enough
RunRehomeOne ==
    /\ todo # <<>> /\ Head(todo).op = "rehome"
    /\ \E c \in Head(todo).clients :
          /\ todo' = <<PickCall([kind |-> "rehome", client |-> c, from |-> None])>> \o Tail(todo)
          /\ live' = live \union {c}
    /\ UNCHANGED <<link, home, session, has, closed, waiting>>

\* sever: attach, which makes the miner live before anything else.
RunRehome ==
    /\ todo # <<>> /\ Head(todo).op = "rehome"
    /\ \E c \in Head(todo).clients :
          /\ TurnTo([kind |-> "rehome", client |-> c, from |-> None],
                    RehomeCall(Head(todo).clients \ {c}))
          /\ live' = live \union {c}
    /\ UNCHANGED <<link, home, session, has, closed, waiting>>

\* homes.delete for each orphan
Orphaned(cs) == [c \in Clients |-> IF c \in cs THEN None ELSE home[c]]

\* sever(l), with rest still to be done after it.  The last link of an
\* upstream without miners retires it: the registry closes it.
Sever(l, rest) ==
    LET orphans == clients[l]
    IN  /\ links' = Without(links, l)
        /\ phase' = [phase EXCEPT ![l] = "down"]
        /\ job' = [job EXCEPT ![l] = 0]
        /\ load' = [load EXCEPT ![l] = 0]
        /\ clients' = [clients EXCEPT ![l] = {}]
        /\ home' = Orphaned(orphans)
        /\ todo' = IF orphans = {} THEN rest ELSE <<RehomeCall(orphans)>> \o rest
        /\ closed' = (closed \/ (Without(links, l) = <<>> /\ live \union orphans = {}))
        /\ UNCHANGED <<left, idle, live, session, has>>

\* rebalance, one link: an idle one is marked, and closed when its time is
\* over; some of the miners of an overloaded one are moved.
RunSweep ==
    /\ todo # <<>> /\ Head(todo).op = "sweep"
    /\ LET l == Head(todo).on
       IN  \/ /\ clients[l] = {}
              /\ idle' = [idle EXCEPT ![l] = TRUE]
              /\ todo' = Tail(todo)
              /\ UNCHANGED <<links, phase, job, left, clients, load, who, closed>>
           \/ /\ clients[l] = {} /\ idle[l] /\ phase[l] = "up"
              /\ Sever(l, Tail(todo))
           \/ /\ clients[l] # {}
              /\ idle' = [idle EXCEPT ![l] = FALSE]
              /\ \E some \in SUBSET clients[l] :
                    /\ some # {} => Moves
                    /\ todo' = IF some = {} THEN Tail(todo)
                               ELSE <<MoveCall(l, some)>> \o Tail(todo)
              /\ UNCHANGED <<links, phase, job, left, clients, load, who, closed>>
    /\ UNCHANGED waiting

\* consolidate: nothing, or all miners of one staffed link move.
RunConsolidate ==
    /\ todo # <<>> /\ Head(todo).op = "consolidate"
    /\ LET staffed == {l \in Listed : job[l] > 0 /\ clients[l] # {}}
       IN  \/ todo' = Tail(todo)
           \/ /\ Moves /\ Cardinality(staffed) >= 2
              /\ \E victim \in staffed :
                    todo' = <<MoveCall(victim, clients[victim])>> \o Tail(todo)
    /\ UNCHANGED <<link, who, closed, waiting>>

-----------------------------------------------------------------------------
(* Events.                                                                  *)

Idle == todo = <<>>

\* LocalBackend.login: attach(c).
Login(c) ==
    /\ Idle /\ ~ closed
    /\ session[c] = "out"
    /\ session' = [session EXCEPT ![c] = "in"]
    /\ live' = live \union {c}
    /\ todo' = <<PickCall([kind |-> "login", client |-> c, from |-> None])>>
    /\ UNCHANGED <<link, home, has, closed, waiting>>

\* The session ends, by itself or since it was told to: detach(c).
Detach(c) ==
    /\ Idle
    /\ session[c] \in {"in", "kicked"}
    /\ session' = [session EXCEPT ![c] = "gone"]
    /\ live' = live \ {c}
    /\ Become(Gone(Moment, c))
    /\ UNCHANGED <<links, phase, job, closed, todo, waiting>>

\* chunk(c) for the job the miner works on: a grant, or else migrate.
Chunk(c) ==
    /\ Idle
    /\ session[c] = "in" /\ home[c] # None
    /\ LET l == home[c]
       IN  /\ job[l] > 0 /\ has[c] = <<l, job[l]>>
           /\ IF left[l] > 0
              THEN /\ Become(Grant(Moment, l, c)) /\ UNCHANGED todo
              ELSE /\ Moves
                   /\ \A k \in LinkIds : Len(waiting[k]) < MaxTasks
                   /\ todo' = <<PickCall([kind |-> "chunk", client |-> c, from |-> l])>>
                   /\ Become(Moment)
    /\ UNCHANGED <<links, phase, job, live, session, closed, waiting>>

\* connect() succeeds; the login is sent.
Connected(l) ==
    /\ Idle
    /\ phase[l] = "tcp"
    /\ phase' = [phase EXCEPT ![l] = "login"]
    /\ UNCHANGED <<links, job, left, clients, load, idle, who, closed, todo, waiting>>

\* mutant: the miners of the link do not hear of the job
AcceptSilent(l, after) ==
    /\ job[l] < MaxJobs
    /\ job' = [job EXCEPT ![l] = @ + 1]
    /\ left' = [left EXCEPT ![l] = Units]
    /\ todo' = after

\* accept(l): a new job with its space, and every miner of the link is served.
Accept(l, after) ==
    /\ job[l] < MaxJobs
    /\ job' = [job EXCEPT ![l] = @ + 1]
    /\ left' = [left EXCEPT ![l] = Units]
    /\ todo' = IF clients[l] = {} THEN after ELSE <<RenewCall(l, clients[l])>> \o after

\* The pool sends a job; it may do so before it answers the login.
Job(l) ==
    /\ Idle
    /\ phase[l] = "up" \/ (EarlyJobs /\ phase[l] = "login")
    /\ Accept(l, <<>>)
    /\ UNCHANGED <<links, phase, clients, load, idle, who, closed, waiting>>

\* mutant: only the opener goes on
ResumedFirst(l, on) == <<Settled(waiting[l][1].task, on)>>

\* Those that await the link go on: the task that opened it gets "on", the
\* others turn pick's loop again.
Resumed(l, on) ==
    [i \in DOMAIN waiting[l] |->
        IF i = 1 THEN Settled(waiting[l][i].task, on) ELSE PickCall(waiting[l][i].task)]

\* The login is answered with the first job.
LinkUp(l) ==
    /\ Idle
    /\ phase[l] = "login"
    /\ phase' = [phase EXCEPT ![l] = "up"]
    /\ waiting' = [waiting EXCEPT ![l] = <<>>]
    /\ IF job[l] = 0 THEN Accept(l, Resumed(l, l))
       ELSE todo' = Resumed(l, l) /\ UNCHANGED <<job, left>>
    /\ UNCHANGED <<links, clients, load, idle, who, closed>>

\* connect() or the login fails: whoever opened the link makes do with what
\* was the roomiest one when it asked.
OpenFails(l) ==
    /\ Idle
    /\ phase[l] \in {"tcp", "login"}
    /\ links' = Without(links, l)
    /\ phase' = [phase EXCEPT ![l] = "down"]
    /\ todo' = Resumed(l, waiting[l][1].roomiest)
    /\ waiting' = [waiting EXCEPT ![l] = <<>>]
    /\ UNCHANGED <<job, left, clients, load, idle, who, closed>>

\* The socket closes before the login is answered: sever, and the login fails.
LostEarly(l) ==
    /\ Idle
    /\ phase[l] = "login"
    /\ Sever(l, Resumed(l, waiting[l][1].roomiest))
    /\ waiting' = [waiting EXCEPT ![l] = <<>>]

\* The socket of a link that is up closes.
Lost(l) ==
    /\ Idle /\ Losses
    /\ phase[l] = "up"
    /\ Sever(l, <<>>)
    /\ UNCHANGED waiting

\* The timer of rebalance.
Rebalance ==
    /\ Idle /\ ~ closed
    /\ \A l \in LinkIds : Len(waiting[l]) < MaxTasks
    /\ links # <<>>
    /\ todo' = [i \in DOMAIN links |-> SweepCall(links[i])] \o <<Consolidate>>
    /\ UNCHANGED <<link, who, closed, waiting>>

\* close(): links that have a socket are closed, without a sever.
Close ==
    /\ Idle /\ ~ closed
    /\ closed' = TRUE
    /\ phase' = [l \in LinkIds |-> IF l \in Listed /\ phase[l] = "up" THEN "down" ELSE phase[l]]
    /\ links' = <<>>
    /\ live' = {}
    /\ home' = [c \in Clients |-> None]
    /\ UNCHANGED <<job, left, clients, load, idle, session, has, todo, waiting>>

-----------------------------------------------------------------------------
Run == RunPick \/ RunAttached \/ RunMigrated \/ RunRenew \/ RunMove \/ RunRehome \/ RunSweep \/ RunConsolidate

Opening(l) == Connected(l) \/ LinkUp(l) \/ OpenFails(l) \/ LostEarly(l)

\* How many attach or migrate calls for the miner are under way.
Placements(c) ==
    LET here == {i \in DOMAIN todo : "task" \in DOMAIN todo[i] /\ todo[i].task.client = c}
        at(l) == {i \in DOMAIN waiting[l] : waiting[l][i].task.client = c}
    IN  Cardinality(here) + Cardinality(UNION {{<<l, i>> : i \in at(l)} : l \in LinkIds})

\* The miner has the job of the link that is its home.
Current(c) == home[c] # None /\ has[c] = <<home[c], job[home[c]]>>

\* What pick has found for the miner is used in this step.
Placed(c) ==
    todo # <<>> /\ Head(todo).op = "settled" /\ Head(todo).task.client = c /\ Head(todo).on # None

\* The link has gone since it was found, by a sweep or while another one opened;
\* or its login is refused after it has sent a job, by which it got the miner.
Stranding ==
    {c \in live : \/ Placed(c) /\ Head(todo).on \notin Listed
                  \/ \E l \in LinkIds : OpenFails(l) /\ c \in clients[l]}

\* migrate finds no grants left, and the link the miner came from is not up.
Stalling ==
    {c \in live : /\ Placed(c) /\ Head(todo).task.kind \notin Attaching
                  /\ left[Head(todo).on] = 0 /\ phase[Head(todo).task.from] # "up"}

Next ==
    /\ \/ Run
       \/ \E c \in Clients : Login(c) \/ Detach(c) \/ Chunk(c)
       \/ \E l \in LinkIds : Opening(l) \/ Job(l) \/ Lost(l)
       \/ Rebalance \/ Close
    /\ crossed' = crossed \union {c \in Clients : Placements(c)' > 1}
    /\ adrift' = {c \in adrift \union Stranding : home'[c] \notin Listed' \union {None}}
    /\ behind' = {c \in behind \union Stalling : ~ Current(c)'}

Spec == Init /\ [][Next]_vars

\* The event loop runs its work, and what opens a link ends: connect and the
\* requests of a stratum client all have a timeout.
Fairness == WF_state(Run) /\ \A l \in LinkIds : WF_state(Opening(l))

FairSpec == Spec /\ Fairness

-----------------------------------------------------------------------------
\* An attach of the miner is under way.
AttachPending(c) ==
    \E l \in LinkIds : \E i \in DOMAIN waiting[l] :
        waiting[l][i].task.client = c /\ waiting[l][i].task.kind \in Attaching

\* Type invariant.
TypeOK ==
    /\ \A i, k \in DOMAIN links : links[i] \in LinkIds /\ (i # k => links[i] # links[k])
    /\ phase \in [LinkIds -> {"tcp", "login", "up", "down"}]
    /\ job \in [LinkIds -> 0 .. MaxJobs] /\ left \in [LinkIds -> 0 .. Units]
    /\ clients \in [LinkIds -> SUBSET Clients] /\ load \in [LinkIds -> Nat]
    /\ idle \in [LinkIds -> BOOLEAN]
    /\ home \in [Clients -> LinkIds \union {None}] /\ live \in SUBSET Clients
    /\ session \in [Clients -> {"out", "in", "kicked", "gone"}]
    /\ closed \in BOOLEAN

\* A miner's home lists it, so that a job or a loss of the link reaches it
\* (house, evict, sever).
HomeListsMiner ==
    ~ closed => \A c \in Clients : home[c] # None => c \in clients[home[c]]

\* Never more than maxLinks links, and never two that connect at a time: what
\* pick decides before its await still holds after it (pick, open).
LinksLimited ==
    /\ Len(links) <= MaxLinks
    /\ Cardinality({l \in Listed : phase[l] \in {"tcp", "login"}}) <= 1

\* A miner that upstream still serves is on a link that upstream has, or is
\* about to be put on one: no loss of a link, failed migration or failed open
\* forgets it (sever, migrate, attach).  There are two ways to be left on a link
\* that is gone, and adrift has the miners of both: pick's answer was gone when
\* it was used, or a login was refused after its job had brought the miner.
NoMinerForgotten ==
    Idle => \A c \in live : home[c] \in Listed \/ AttachPending(c) \/ c \in adrift

\* A miner on a link has the job the link has: none is left on an old one, by
\* a new job, a migration that fails or one that succeeds (accept, migrate).
\* Miners that had two placements under way at once may be, and one that came
\* to a link without grants from a link without a socket.
JobOfHome ==
    Idle => \A c \in live \ (crossed \union behind) :
        home[c] \in Listed /\ session[c] = "in" /\ Placements(c) = 0 => Current(c)

\* The miners and the load of a link are those whose home it is, so that its
\* headroom is right (house, evict), unless two placements of one miner were
\* under way at once.
RosterExact ==
    Idle /\ ~ closed /\ crossed = {} => \A l \in Listed :
        /\ clients[l] = {c \in Clients : home[c] = l}
        /\ load[l] = Cardinality(clients[l])

\* Homes and rosters, kept apart by the code, tell the same of every miner through
\* migrations, losses and closes.
RostersAgree == TypeOK /\ HomeListsMiner /\ RosterExact

\* What upstream keeps of a miner, and what the miner has of it, is of its home.
HomesKept == RostersAgree /\ JobOfHome

\* A miner that has gone is not live and is listed by no link.
Released(c) == c \notin live /\ \A l \in Listed : c \notin clients[l]

\* A miner that has gone leaves nothing behind on a link, whenever it goes and
\* whatever is under way for it then, be it one placement (attach, migrate,
\* detach).
SlotReleased ==
    Idle /\ ~ closed => \A c \in Clients \ crossed : session[c] = "gone" => Released(c)

\* A miner that waits to be housed is, or it is told to go: links that fail one
\* after the other never leave it waiting for good (pick, open, attach).
AttachSettles ==
    \A c \in Clients :
        session[c] = "in" /\ home[c] = None ~> home[c] # None \/ session[c] # "in" \/ closed
=============================================================================
