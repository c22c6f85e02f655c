---------------------------- MODULE UpstreamProofs --------------------------
(***************************************************************************)
(* Proofs about Upstream, for every number of miners and links and any     *)
(* limits: the links it may have, the miners it may not forget, the        *)
(* rosters that must agree with the homes, and the job of every miner,     *)
(* which must be that of its home.                                         *)
(*                                                                         *)
(* What makes these hard is the gap between the await in pick() and the    *)
(* code after it, so the invariants speak of what is still to be done: the *)
(* miners some attach is under way for (Due), those a lost link left       *)
(* behind that attach has yet to be called for (Orphan), and those that    *)
(* have yet to hear of a new job (Renewing).                               *)
(***************************************************************************)
EXTENDS Upstream, TLAPS, SequenceTheorems, FiniteSetTheorems

-----------------------------------------------------------------------------
(* Types.                                                                   *)

Task == [kind : Attaching, client : Clients, from : {None}]
            \union [kind : {"chunk", "renew", "sweep"}, client : Clients, from : LinkIds]

Waiter == [task : Task, roomiest : LinkIds \union {None}]

\* What todo holds; a link that pick settled on, or the error None.
Work ==
    [op : {"pick"}, task : Task]
    \union [op : {"settled"}, task : Task, on : LinkIds \union {None}]
    \union [op : {"renew", "move"}, on : LinkIds, clients : SUBSET Clients]
    \union [op : {"rehome"}, clients : SUBSET Clients]
    \union [op : {"sweep"}, on : LinkIds]
    \union [op : {"consolidate"}]

MomentType ==
    [clients : [LinkIds -> SUBSET Clients], load : [LinkIds -> Nat],
     idle : [LinkIds -> BOOLEAN], home : [Clients -> LinkIds \union {None}],
     left : [LinkIds -> 0 .. Units], has : [Clients -> (LinkIds \union {None}) \X Nat]]

\* A link is awaited exactly while it connects.
Awaited == \A l \in LinkIds : waiting[l] # <<>> <=> phase[l] \in {"tcp", "login"}

Typed ==
    /\ links \in Seq(LinkIds)
    /\ \A i, k \in DOMAIN links : i # k => links[i] # links[k]
    /\ phase \in [LinkIds -> {"tcp", "login", "up", "down"}]
    /\ job \in [LinkIds -> 0 .. MaxJobs]
    /\ Moment \in MomentType
    /\ live \in SUBSET Clients
    /\ session \in [Clients -> {"out", "in", "kicked", "gone"}]
    /\ closed \in BOOLEAN
    /\ todo \in Seq(Work)
    /\ waiting \in [LinkIds -> Seq(Waiter)]
    /\ crossed \subseteq Clients
    /\ Awaited

-----------------------------------------------------------------------------
(* What is still to be done.                                                *)

Items(seq) == {seq[i] : i \in DOMAIN seq}

\* An item of todo, or of a list of waiters, that is an attach of the miner.
AttachTask(t, c) == t.client = c /\ t.kind \in Attaching

AttachItem(x, c) == x.op \in {"pick", "settled"} /\ AttachTask(x.task, c)

Due(c) ==
    \/ \E x \in Items(todo) : AttachItem(x, c)
    \/ \E l \in LinkIds : \E w \in Items(waiting[l]) : AttachTask(w.task, c)

Orphan(c) == \E x \in Items(todo) : x.op = "rehome" /\ c \in x.clients

\* A loop over orphans is what the event loop runs now: only a call of pick
\* is ever before it.
RehomeFirst ==
    \A i \in DOMAIN todo : todo[i].op = "rehome" =>
        i = 1 \/ (i = 2 /\ todo[1].op = "pick")

-----------------------------------------------------------------------------
(* The inductive invariant.                                                 *)

NoneLost == \A c \in live : home[c] # None \/ Due(c) \/ Orphan(c)

\* One moment: the home of the miner lists it; only its home lists it; the
\* load is the number of those listed.
Lists(m, c) == m.home[c] # None => c \in m.clients[m.home[c]]

Alone(m, c) == \A l \in LinkIds : c \in m.clients[l] <=> m.home[c] = l

Counted(m) ==
    \A l \in LinkIds : IsFiniteSet(m.clients[l]) /\ m.load[l] = Cardinality(m.clients[l])

\* A miner with one placement at most: where it is listed is where it lives,
\* it lives nowhere while an attach is due, and nothing is left of it when it
\* is out.
Clean(c) ==
    /\ Alone(Moment, c)
    /\ Due(c) \/ Orphan(c) => home[c] = None
    /\ session[c] \in {"out", "gone"} => c \notin live /\ home[c] = None /\ ~ Orphan(c)

Rosters ==
    ~ closed =>
        /\ \A c \in Clients : Lists(Moment, c)
        /\ \A c \in Clients \ crossed : Clean(c)
        /\ crossed = {} => Counted(Moment)

PlacedOnce == \A c \in Clients \ crossed : ~ (Placements(c) > 1)

OneConnects == \A l, k \in Connecting : l = k

LinksOK == Len(links) <= MaxLinks /\ OneConnects

IInv == Typed /\ RehomeFirst /\ PlacedOnce /\ LinksOK /\ NoneLost /\ Rosters

\* All of it but PlacedOnce, which the history sees to.
Core == Typed /\ RehomeFirst /\ LinksOK /\ NoneLost /\ Rosters

\* What every step does to the history.
Remembers ==
    /\ crossed \subseteq crossed' /\ crossed' \subseteq Clients
    /\ \A c \in Clients \ behind' : Current(c)' \/ c \notin behind \union Stalling

-----------------------------------------------------------------------------
(* Sequences, by what is in them.                                           *)

LEMMA SeqParts ==
    ASSUME NEW S, NEW s \in Seq(S)
    PROVE  /\ Len(s) \in Nat /\ DOMAIN s = 1 .. Len(s)
           /\ \A i \in DOMAIN s : s[i] \in S
           /\ Items(s) \subseteq S
<1>1. Len(s) \in Nat /\ DOMAIN s = 1 .. Len(s)
    BY LenProperties
<1>2. \A i \in 1 .. Len(s) : s[i] \in S
    BY ElementOfSeq
<1> QED
    BY <1>1, <1>2 DEF Items

LEMMA SeqTail ==
    ASSUME NEW S, NEW s \in Seq(S), s # <<>>
    PROVE  /\ Head(s) \in S /\ Tail(s) \in Seq(S) /\ Head(s) = s[1] /\ 1 \in DOMAIN s
           /\ Len(Tail(s)) = Len(s) - 1
           /\ DOMAIN Tail(s) = 1 .. (Len(s) - 1)
           /\ \A i \in DOMAIN Tail(s) : Tail(s)[i] = s[i + 1] /\ i + 1 \in DOMAIN s
           /\ Items(s) = {Head(s)} \union Items(Tail(s))
<1>1. /\ Len(s) \in Nat \ {0} /\ DOMAIN s = 1 .. Len(s)
    BY EmptySeq, SeqParts
<1>2. /\ Tail(s) \in Seq(S) /\ Len(Tail(s)) = Len(s) - 1
      /\ \A i \in 1 .. Len(Tail(s)) : Tail(s)[i] = s[i + 1]
    BY HeadTailProperties
<1>3. DOMAIN Tail(s) = 1 .. (Len(s) - 1)
    BY <1>2, SeqParts
<1>4. Head(s) = s[1] /\ 1 \in DOMAIN s
    BY <1>1
<1>5. Head(s) \in S
    BY <1>4, SeqParts
<1>6. \A i \in DOMAIN s : i = 1 \/ (i - 1 \in DOMAIN Tail(s) /\ s[i] = Tail(s)[i - 1])
  <2>1. \A i \in DOMAIN s : i = 1 \/ (i - 1 \in 1 .. (Len(s) - 1) /\ i = (i - 1) + 1)
      BY <1>1
  <2>2. \A j \in 1 .. (Len(s) - 1) : Tail(s)[j] = s[j + 1]
      BY <1>2
  <2> QED BY <1>3, <2>1, <2>2
<1>7. \A i \in DOMAIN Tail(s) : Tail(s)[i] = s[i + 1] /\ i + 1 \in DOMAIN s
    BY <1>1, <1>2, <1>3
<1>8. Items(s) \subseteq {Head(s)} \union Items(Tail(s))
  <2>1. \A i \in DOMAIN s : s[i] = Head(s) \/ s[i] \in Items(Tail(s))
      BY <1>4, <1>6 DEF Items
  <2> QED BY <2>1 DEF Items
<1>9. {Head(s)} \union Items(Tail(s)) \subseteq Items(s)
    BY <1>4, <1>7 DEF Items
<1>10. Items(s) = {Head(s)} \union Items(Tail(s))
    BY <1>8, <1>9
<1> QED
    BY <1>2, <1>3, <1>4, <1>5, <1>7, <1>10

LEMMA SeqAppend ==
    ASSUME NEW S, NEW s \in Seq(S), NEW x \in S
    PROVE  /\ Append(s, x) \in Seq(S) /\ Len(Append(s, x)) = Len(s) + 1
           /\ DOMAIN Append(s, x) = 1 .. (Len(s) + 1)
           /\ \A i \in 1 .. Len(s) : Append(s, x)[i] = s[i]
           /\ Append(s, x)[Len(s) + 1] = x
           /\ Items(Append(s, x)) = Items(s) \union {x}
<1>1. /\ Append(s, x) \in Seq(S) /\ Len(Append(s, x)) = Len(s) + 1
      /\ \A i \in 1 .. Len(s) : Append(s, x)[i] = s[i]
      /\ Append(s, x)[Len(s) + 1] = x
    BY AppendProperties
<1>2. Len(s) \in Nat /\ DOMAIN s = 1 .. Len(s) /\ DOMAIN Append(s, x) = 1 .. (Len(s) + 1)
    BY <1>1, SeqParts
<1>3. \A i : i \in 1 .. (Len(s) + 1) <=> i \in 1 .. Len(s) \/ i = Len(s) + 1
    BY <1>2
<1>4. Items(Append(s, x)) = Items(s) \union {x}
  <2> DEFINE t == Append(s, x)
  <2>1. /\ DOMAIN t = 1 .. (Len(s) + 1) /\ DOMAIN s = 1 .. Len(s)
        /\ \A i \in 1 .. Len(s) : t[i] = s[i]
        /\ t[Len(s) + 1] = x
      BY <1>1, <1>2
  <2> HIDE DEF t
  <2>2. \A y : y \in Items(t) <=> y \in Items(s) \/ y = x
      BY <1>3, <2>1 DEF Items
  <2> QED BY <2>2 DEF t
<1> QED
    BY <1>1, <1>2, <1>4

LEMMA SeqConcat ==
    ASSUME NEW S, NEW s \in Seq(S), NEW t \in Seq(S)
    PROVE  /\ s \o t \in Seq(S) /\ Len(s \o t) = Len(s) + Len(t)
           /\ DOMAIN (s \o t) = 1 .. (Len(s) + Len(t))
           /\ \A i \in 1 .. Len(s) : (s \o t)[i] = s[i]
           /\ \A i \in 1 .. Len(t) : (s \o t)[Len(s) + i] = t[i]
           /\ Items(s \o t) = Items(s) \union Items(t)
<1>1. /\ s \o t \in Seq(S) /\ Len(s \o t) = Len(s) + Len(t)
      /\ \A i \in 1 .. (Len(s) + Len(t)) :
             (s \o t)[i] = IF i <= Len(s) THEN s[i] ELSE t[i - Len(s)]
    BY ConcatProperties
<1>2. /\ Len(s) \in Nat /\ DOMAIN s = 1 .. Len(s)
      /\ Len(t) \in Nat /\ DOMAIN t = 1 .. Len(t)
      /\ DOMAIN (s \o t) = 1 .. (Len(s) + Len(t))
    BY <1>1, SeqParts
<1>3. \A i \in 1 .. Len(s) : (s \o t)[i] = s[i] /\ i \in 1 .. (Len(s) + Len(t))
    BY <1>1, <1>2
<1>4. \A i \in 1 .. Len(t) : (s \o t)[Len(s) + i] = t[i] /\ Len(s) + i \in 1 .. (Len(s) + Len(t))
    BY <1>1, <1>2
<1>5. \A i \in 1 .. (Len(s) + Len(t)) : i \in 1 .. Len(s) \/ i - Len(s) \in 1 .. Len(t)
    BY <1>2
<1>6. Items(s \o t) \subseteq Items(s) \union Items(t)
  <2>1. \A i \in 1 .. (Len(s) + Len(t)) : i \notin 1 .. Len(s) => (s \o t)[i] = t[i - Len(s)]
      BY <1>1, <1>2
  <2> QED BY <1>2, <1>3, <1>5, <2>1 DEF Items
<1>7. Items(s) \union Items(t) \subseteq Items(s \o t)
    BY <1>2, <1>3, <1>4 DEF Items
<1>8. Items(s \o t) = Items(s) \union Items(t)
    BY <1>6, <1>7
<1> QED
    BY <1>1, <1>2, <1>3, <1>4, <1>8

\* u is s and t behind it.
Joins(S, s, t, u) ==
    /\ u \in Seq(S) /\ Len(u) = Len(s) + Len(t) /\ DOMAIN u = 1 .. (Len(s) + Len(t))
    /\ \A i \in 1 .. Len(s) : u[i] = s[i]
    /\ \A i \in 1 .. Len(t) : u[Len(s) + i] = t[i]
    /\ Items(u) = Items(s) \union Items(t)

\* The same of a concatenation that has a name.
LEMMA SeqJoins ==
    ASSUME NEW S, NEW s \in Seq(S), NEW t \in Seq(S), NEW u, u = s \o t
    PROVE  Joins(S, s, t, u)
BY SeqConcat DEF Joins

LEMMA NoItems ==
    ASSUME NEW S
    PROVE  <<>> \in Seq(S) /\ Items(<<>>) = {}
<1>1. Items(<<>>) = {}
    BY DEF Items
<1> QED
    BY <1>1

\* A call put before what is left of the work, and two of them: names for the
\* provers, which match a name in a lemma's hypotheses better than a concatenation.
Atop(x, t) == <<x>> \o t

AtopTwo(x, y, t) == <<x, y>> \o t

\* The work u is x, and then the items of t.
Led(u, x, t) ==
    /\ u \in Seq(Work) /\ u # <<>> /\ u[1] = x
    /\ Items(u) = {x} \union Items(t)
    /\ \A i \in DOMAIN u : i = 1 \/ u[i] \in Items(t)

\* A sequence that is one item, or two, and then t.
LEMMA OneBefore ==
    ASSUME NEW t \in Seq(Work), NEW x \in Work, NEW u, u = Atop(x, t)
    PROVE  Led(u, x, t)
<1>9. PICK one : one = <<x>>
    OBVIOUS
<1>1. /\ one \in Seq(Work) /\ Len(one) = 1 /\ one[1] = x /\ DOMAIN one = 1 .. 1
      /\ u = one \o t
    BY <1>9 DEF Atop
<1>2. Items(one) = {x}
    BY <1>1 DEF Items
<1>3. Joins(Work, one, t, u)
    BY <1>1, SeqJoins
<1>4. Len(t) \in Nat /\ DOMAIN t = 1 .. Len(t)
    BY SeqParts
<1>5. /\ u \in Seq(Work) /\ DOMAIN u = 1 .. (1 + Len(t)) /\ u[1] = x
      /\ \A i \in 1 .. Len(t) : u[1 + i] = t[i]
      /\ Items(u) = {x} \union Items(t)
    BY <1>1, <1>2, <1>3, <1>4 DEF Joins
<1>6. \A i \in DOMAIN u : i = 1 \/ (i - 1 \in DOMAIN t /\ i = 1 + (i - 1))
    BY <1>4, <1>5
<1>7. \A i \in DOMAIN u : i = 1 \/ u[i] \in Items(t)
    BY <1>4, <1>5, <1>6 DEF Items
<1>8. u # <<>>
    BY <1>4, <1>5
<1> QED
    BY <1>5, <1>7, <1>8 DEF Led

LEMMA TwoBefore ==
    ASSUME NEW t \in Seq(Work), NEW x \in Work, NEW y \in Work, NEW u, u = AtopTwo(x, y, t)
    PROVE  /\ u \in Seq(Work) /\ u # <<>> /\ u[1] = x
           /\ Items(u) = {x, y} \union Items(t)
           /\ \A i \in DOMAIN u : i = 1 \/ i = 2 \/ u[i] \in Items(t)
<1>9. PICK two : two = <<x, y>>
    OBVIOUS
<1>1. /\ two \in Seq(Work) /\ Len(two) = 2 /\ two[1] = x /\ two[2] = y /\ DOMAIN two = 1 .. 2
      /\ u = two \o t
    BY <1>9 DEF AtopTwo
<1>2. Items(two) = {x, y}
    BY <1>1 DEF Items
<1>3. Joins(Work, two, t, u)
    BY <1>1, SeqJoins
<1>4. Len(t) \in Nat /\ DOMAIN t = 1 .. Len(t)
    BY SeqParts
<1>5. /\ u \in Seq(Work) /\ DOMAIN u = 1 .. (2 + Len(t)) /\ u[1] = x
      /\ \A i \in 1 .. Len(t) : u[2 + i] = t[i]
      /\ Items(u) = {x, y} \union Items(t)
  <2>1. \A i \in 1 .. 2 : u[i] = two[i]
      BY <1>1, <1>3 DEF Joins
  <2>2. u[1] = x
    <3>1. 1 \in 1 .. 2
        OBVIOUS
    <3>2. u[1] = two[1]
        BY <2>1, <3>1
    <3> QED BY <1>1, <3>2
  <2> QED BY <1>1, <1>2, <1>3, <1>4, <2>2 DEF Joins
<1>6. \A i \in DOMAIN u : i = 1 \/ i = 2 \/ (i - 2 \in DOMAIN t /\ i = 2 + (i - 2))
    BY <1>4, <1>5
<1>7. \A i \in DOMAIN u : i = 1 \/ i = 2 \/ u[i] \in Items(t)
    BY <1>4, <1>5, <1>6 DEF Items
<1>8. u # <<>>
    BY <1>4, <1>5
<1> QED
    BY <1>5, <1>7, <1>8

-----------------------------------------------------------------------------
(* Items of todo.                                                           *)

LEMMA TaskParts ==
    ASSUME NEW t \in Task
    PROVE  /\ t.client \in Clients /\ t.from \in LinkIds \union {None}
           /\ t.kind \in Attaching => t.from = None
           /\ t.kind \notin Attaching => t.from \in LinkIds
<1> QED
    BY DEF Task, Attaching

\* What an item is, by its op.
LEMMA WorkParts ==
    ASSUME NEW x \in Work
    PROVE  /\ x.op \in {"pick", "settled", "renew", "move", "rehome", "sweep", "consolidate"}
           /\ x.op = "pick" => x = PickCall(x.task) /\ x.task \in Task
           /\ x.op = "settled" =>
                 x = Settled(x.task, x.on) /\ x.task \in Task /\ x.on \in LinkIds \union {None}
           /\ x.op = "renew" =>
                 x = RenewCall(x.on, x.clients) /\ x.on \in LinkIds /\ x.clients \in SUBSET Clients
           /\ x.op = "move" =>
                 x = MoveCall(x.on, x.clients) /\ x.on \in LinkIds /\ x.clients \in SUBSET Clients
           /\ x.op = "rehome" => x = RehomeCall(x.clients) /\ x.clients \in SUBSET Clients
           /\ x.op = "sweep" => x.on \in LinkIds
           /\ "task" \in DOMAIN x <=> x.op \in {"pick", "settled"}
<1>1. CASE x \in [op : {"pick"}, task : Task]
    BY <1>1 DEF PickCall
<1>2. CASE x \in [op : {"settled"}, task : Task, on : LinkIds \union {None}]
    BY <1>2 DEF Settled
<1>3. CASE x \in [op : {"renew", "move"}, on : LinkIds, clients : SUBSET Clients]
    BY <1>3 DEF RenewCall, MoveCall
<1>4. CASE x \in [op : {"rehome"}, clients : SUBSET Clients]
    BY <1>4 DEF RehomeCall
<1>5. CASE x \in [op : {"sweep"}, on : LinkIds]
    BY <1>5
<1>6. CASE x \in [op : {"consolidate"}]
    BY <1>6
<1> QED
    BY <1>1, <1>2, <1>3, <1>4, <1>5, <1>6 DEF Work

\* The items the actions make.
LEMMA WorkMade ==
    /\ \A t \in Task : PickCall(t) \in Work /\ PickCall(t).op = "pick" /\ PickCall(t).task = t
    /\ \A t \in Task, l \in LinkIds \union {None} :
          /\ Settled(t, l) \in Work /\ Settled(t, l).op = "settled"
          /\ Settled(t, l).task = t /\ Settled(t, l).on = l
    /\ \A l \in LinkIds, cs \in SUBSET Clients :
          /\ RenewCall(l, cs) \in Work /\ RenewCall(l, cs).op = "renew"
          /\ RenewCall(l, cs).on = l /\ RenewCall(l, cs).clients = cs
          /\ MoveCall(l, cs) \in Work /\ MoveCall(l, cs).op = "move"
          /\ MoveCall(l, cs).on = l /\ MoveCall(l, cs).clients = cs
    /\ \A cs \in SUBSET Clients :
          RehomeCall(cs) \in Work /\ RehomeCall(cs).op = "rehome" /\ RehomeCall(cs).clients = cs
    /\ \A l \in LinkIds : SweepCall(l) \in Work /\ SweepCall(l).op = "sweep"
    /\ Consolidate \in Work /\ Consolidate.op = "consolidate"
<1> QED
    BY DEF Work, PickCall, Settled, RenewCall, MoveCall, RehomeCall, SweepCall, Consolidate

\* The tasks the actions make: of attach, and of migrate.
LEMMA AttachMade ==
    ASSUME NEW c \in Clients, NEW kind \in Attaching, NEW t,
           t = [kind |-> kind, client |-> c, from |-> None]
    PROVE  t \in Task /\ t.client = c /\ t.kind \in Attaching
<1> QED
    BY DEF Task

LEMMA MigrateMade ==
    ASSUME NEW c \in Clients, NEW l \in LinkIds, NEW kind \in {"chunk", "renew", "sweep"}, NEW t,
           t = [kind |-> kind, client |-> c, from |-> l]
    PROVE  t \in Task /\ t.kind \notin Attaching
<1> QED
    BY DEF Task, Attaching

-----------------------------------------------------------------------------
(* One moment: house, evict and a grant, field by field.                    *)

LEMMA MomentParts ==
    ASSUME NEW m \in MomentType
    PROVE  /\ m.clients \in [LinkIds -> SUBSET Clients] /\ m.load \in [LinkIds -> Nat]
           /\ m.idle \in [LinkIds -> BOOLEAN] /\ m.home \in [Clients -> LinkIds \union {None}]
           /\ m.left \in [LinkIds -> 0 .. Units]
           /\ m.has \in [Clients -> (LinkIds \union {None}) \X Nat]
           /\ m = [clients |-> m.clients, load |-> m.load, idle |-> m.idle, home |-> m.home,
                   left |-> m.left, has |-> m.has]
<1> QED
    BY DEF MomentType

LEMMA MomentFields ==
    /\ Moment.clients = clients /\ Moment.load = load /\ Moment.idle = idle
    /\ Moment.home = home /\ Moment.left = left /\ Moment.has = has
<1> QED
    BY DEF Moment

LEMMA BecomeIs ==
    ASSUME NEW m \in MomentType, Become(m)
    PROVE  Moment' = m
<1> QED
    BY MomentParts DEF Become, Moment

LEMMA HouseIs ==
    ASSUME NEW m \in MomentType, NEW l \in LinkIds, NEW c \in Clients
    PROVE  LET h == House(m, l, c) IN
           /\ h \in MomentType
           /\ h.clients = [m.clients EXCEPT ![l] = m.clients[l] \union {c}]
           /\ h.load = [m.load EXCEPT ![l] = m.load[l] + 1]
           /\ h.home = [m.home EXCEPT ![c] = l]
           /\ h.left = m.left /\ h.has = m.has
<1> DEFINE cl == [m.clients EXCEPT ![l] = m.clients[l] \union {c}]
           lo == [m.load EXCEPT ![l] = m.load[l] + 1]
           id == [m.idle EXCEPT ![l] = FALSE]
           ho == [m.home EXCEPT ![c] = l]
<1>1. House(m, l, c) = [m EXCEPT !.clients = cl, !.load = lo, !.idle = id, !.home = ho]
    BY DEF House
<1>2. /\ cl \in [LinkIds -> SUBSET Clients] /\ lo \in [LinkIds -> Nat]
      /\ ho \in [Clients -> LinkIds \union {None}]
    BY MomentParts
<1>3. id \in [LinkIds -> BOOLEAN]
    BY MomentParts
<1> HIDE DEF cl, lo, id, ho
<1>4. House(m, l, c) = [clients |-> cl, load |-> lo, idle |-> id, home |-> ho,
                        left |-> m.left, has |-> m.has]
    BY <1>1 DEF MomentType
<1> QED
    BY <1>2, <1>3, <1>4, MomentParts DEF MomentType, cl, lo, ho

LEMMA EvictIs ==
    ASSUME NEW m \in MomentType, NEW c \in Clients
    PROVE  LET e == Evict(m, c)
               l == m.home[c] IN
           /\ e \in MomentType
           /\ l = None => e = m
           /\ l # None =>
                /\ l \in LinkIds
                /\ e.clients = [m.clients EXCEPT ![l] = m.clients[l] \ {c}]
                /\ e.load = [m.load EXCEPT ![l] = IF m.load[l] > 0 THEN m.load[l] - 1 ELSE 0]
           /\ e.home = [m.home EXCEPT ![c] = None]
           /\ e.left = m.left /\ e.has = m.has
<1> DEFINE l  == m.home[c]
           cl == [m.clients EXCEPT ![l] = m.clients[l] \ {c}]
           lo == [m.load EXCEPT ![l] = IF m.load[l] > 0 THEN m.load[l] - 1 ELSE 0]
           id == [m.idle EXCEPT ![l] = m.idle[l] \/ m.clients[l] \subseteq {c}]
           ho == [m.home EXCEPT ![c] = None]
<1>1. CASE l = None
  <2>1. Evict(m, c) = m
      BY <1>1 DEF Evict
  <2>2. m.home = [m.home EXCEPT ![c] = None]
      BY <1>1, MomentParts
  <2> QED BY <1>1, <2>1, <2>2
<1>2. CASE l # None
  <2>1. Evict(m, c) = [m EXCEPT !.clients = cl, !.load = lo, !.idle = id, !.home = ho]
      BY <1>2 DEF Evict
  <2>2. l \in LinkIds
      BY <1>2, MomentParts
  <2>3. /\ cl \in [LinkIds -> SUBSET Clients]
        /\ ho \in [Clients -> LinkIds \union {None}]
      BY <2>2, MomentParts
  <2>4. lo \in [LinkIds -> Nat]
      BY <2>2, MomentParts
  <2>5. id \in [LinkIds -> BOOLEAN]
    <3>1. m.idle \in [LinkIds -> BOOLEAN]
        BY MomentParts
    <3>2. (m.idle[l] \/ m.clients[l] \subseteq {c}) \in BOOLEAN
        BY Zenon
    <3> QED BY <2>2, <3>1, <3>2, Zenon
  <2> HIDE DEF cl, lo, id, ho
  <2>6. Evict(m, c) = [clients |-> cl, load |-> lo, idle |-> id, home |-> ho,
                       left |-> m.left, has |-> m.has]
      BY <2>1 DEF MomentType
  <2>7. Evict(m, c) \in MomentType
      BY <2>3, <2>4, <2>5, <2>6, MomentParts DEF MomentType
  <2> QED BY <1>2, <2>2, <2>6, <2>7 DEF cl, lo, ho
<1> QED
    BY <1>1, <1>2

\* A grant touches what is left and what was pushed.
LEMMA GrantIs ==
    ASSUME NEW m \in MomentType, NEW l \in LinkIds, NEW c \in Clients, m.left[l] > 0,
           job \in [LinkIds -> 0 .. MaxJobs]
    PROVE  LET g == Grant(m, l, c) IN
           /\ g \in MomentType
           /\ g.clients = m.clients /\ g.load = m.load /\ g.home = m.home
<1> DEFINE le == [m.left EXCEPT ![l] = m.left[l] - 1]
           ha == [m.has EXCEPT ![c] = IF job[l] > 0 THEN <<l, job[l]>> ELSE m.has[c]]
<1>1. Grant(m, l, c) = [m EXCEPT !.left = le, !.has = ha]
    BY DEF Grant
<1>2. le \in [LinkIds -> 0 .. Units]
    BY MomentParts, UpstreamAssumption
<1>3. ha \in [Clients -> (LinkIds \union {None}) \X Nat]
  <2>1. <<l, job[l]>> \in (LinkIds \union {None}) \X Nat
      BY UpstreamAssumption
  <2> QED BY <2>1, MomentParts
<1> HIDE DEF le, ha
<1>4. Grant(m, l, c) = [clients |-> m.clients, load |-> m.load, idle |-> m.idle,
                        home |-> m.home, left |-> le, has |-> ha]
    BY <1>1 DEF MomentType
<1> QED
    BY <1>2, <1>3, <1>4, MomentParts DEF MomentType

\* detach: evicted, and nothing pushed.
LEMMA GoneIs ==
    ASSUME NEW m \in MomentType, NEW c \in Clients
    PROVE  LET g == Gone(m, c)
               e == Evict(m, c) IN
           /\ g \in MomentType
           /\ g.clients = e.clients /\ g.load = e.load /\ g.home = e.home
<1> DEFINE e  == Evict(m, c)
           ha == [e.has EXCEPT ![c] = NoJob]
<1>1. e \in MomentType
    BY EvictIs
<1>2. Gone(m, c) = [e EXCEPT !.has = ha]
    BY DEF Gone
<1> HIDE DEF e
<1>3. ha \in [Clients -> (LinkIds \union {None}) \X Nat]
    BY <1>1, MomentParts DEF NoJob
<1> HIDE DEF ha
<1>4. Gone(m, c) = [clients |-> e.clients, load |-> e.load, idle |-> e.idle,
                    home |-> e.home, left |-> e.left, has |-> ha]
    BY <1>1, <1>2 DEF MomentType
<1>5. Gone(m, c) \in MomentType
    BY <1>1, <1>3, <1>4, MomentParts DEF MomentType
<1> QED
    BY <1>4, <1>5 DEF e

-----------------------------------------------------------------------------
(* One moment: what house and evict keep.                                   *)

LEMMA EvictFits ==
    ASSUME NEW m \in MomentType, NEW c \in Clients, NEW e, e = Evict(m, c)
    PROVE  e \in MomentType /\ e.left = m.left
<1>1. Evict(m, c) \in MomentType /\ Evict(m, c).left = m.left
    BY EvictIs
<1> QED
    BY <1>1

LEMMA EvictKeeps ==
    ASSUME NEW m \in MomentType, NEW c \in Clients, NEW e, e = Evict(m, c)
    PROVE  /\ \A d \in Clients : Lists(m, d) => Lists(e, d)
           /\ \A d \in Clients : Alone(m, d) => Alone(e, d)
           /\ Counted(m) /\ Alone(m, c) => Counted(e)
           /\ e.home[c] = None
           /\ \A d \in Clients \ {c} : e.home[d] = m.home[d]
<1>1. CASE m.home[c] = None
    BY <1>1, EvictIs, MomentParts
<1>2. CASE m.home[c] # None
  <2> DEFINE l == m.home[c]
  <2>1. /\ l \in LinkIds /\ e \in MomentType
        /\ e.clients = [m.clients EXCEPT ![l] = m.clients[l] \ {c}]
        /\ e.load = [m.load EXCEPT ![l] = IF m.load[l] > 0 THEN m.load[l] - 1 ELSE 0]
        /\ e.home = [m.home EXCEPT ![c] = None]
      BY <1>2, EvictIs
  <2>2. /\ m.clients \in [LinkIds -> SUBSET Clients] /\ m.load \in [LinkIds -> Nat]
        /\ m.home \in [Clients -> LinkIds \union {None}]
      BY MomentParts
  <2> HIDE DEF l
  <2>3. /\ e.home[c] = None
        /\ \A d \in Clients \ {c} : e.home[d] = m.home[d]
        /\ \A k \in LinkIds : e.clients[k] = IF k = l THEN m.clients[k] \ {c} ELSE m.clients[k]
        /\ \A k \in LinkIds : k # l => e.load[k] = m.load[k]
        /\ e.load[l] = IF m.load[l] > 0 THEN m.load[l] - 1 ELSE 0
      BY <2>1, <2>2
  <2>4. \A d \in Clients : Lists(m, d) => Lists(e, d)
      BY <2>2, <2>3 DEF Lists
  <2>5. \A d \in Clients : Alone(m, d) => Alone(e, d)
    <3>1. None \notin LinkIds
        BY NoneAssumption
    <3>2. ASSUME NEW d \in Clients, d # c, Alone(m, d), NEW k \in LinkIds
          PROVE  d \in e.clients[k] <=> e.home[d] = k
      <4>1. d \in m.clients[k] <=> m.home[d] = k
          BY <3>2 DEF Alone
      <4>2. e.home[d] = m.home[d]
          BY <2>3, <3>2
      <4>3. d \in e.clients[k] <=> d \in m.clients[k]
          BY <2>3, <3>2
      <4> QED BY <4>1, <4>2, <4>3
    <3>3. ASSUME Alone(m, c), NEW k \in LinkIds PROVE c \notin e.clients[k] /\ e.home[c] # k
      <4>1. c \in m.clients[k] => k = l
          BY <3>3 DEF Alone, l
      <4> QED BY <2>3, <3>1, <4>1
    <3>4. Alone(m, c) => Alone(e, c)
        BY <3>3 DEF Alone
    <3>5. ASSUME NEW d \in Clients, d # c, Alone(m, d) PROVE Alone(e, d)
        BY <3>2, <3>5 DEF Alone
    <3> QED BY <3>4, <3>5
  <2>6. ASSUME Counted(m), Alone(m, c) PROVE Counted(e)
    <3>1. c \in m.clients[l] /\ IsFiniteSet(m.clients[l]) /\ m.load[l] = Cardinality(m.clients[l])
        BY <2>1, <2>6 DEF Alone, Counted, l
    <3>2. /\ IsFiniteSet(m.clients[l] \ {c})
          /\ Cardinality(m.clients[l] \ {c}) = Cardinality(m.clients[l]) - 1
        BY <3>1, FS_RemoveElement
    <3>3. Cardinality(m.clients[l] \ {c}) \in Nat
        BY <3>2, FS_CardinalityType
    <3>4. e.load[l] = Cardinality(m.clients[l] \ {c})
        BY <2>1, <2>2, <2>3, <3>1, <3>2, <3>3
    <3> QED BY <2>1, <2>3, <2>6, <3>2, <3>4 DEF Counted
  <2> QED BY <2>3, <2>4, <2>5, <2>6
<1> QED
    BY <1>1, <1>2

LEMMA HouseKeeps ==
    ASSUME NEW m \in MomentType, NEW l \in LinkIds, NEW c \in Clients, NEW h, h = House(m, l, c)
    PROVE  /\ \A d \in Clients : Lists(m, d) => Lists(h, d)
           /\ \A d \in Clients \ {c} : Alone(m, d) => Alone(h, d)
           /\ Alone(m, c) /\ m.home[c] = None => Alone(h, c)
           /\ Counted(m) /\ Alone(m, c) /\ m.home[c] = None => Counted(h)
           /\ h.home[c] = l
           /\ \A d \in Clients \ {c} : h.home[d] = m.home[d]
<1>1. /\ h \in MomentType
      /\ h.clients = [m.clients EXCEPT ![l] = m.clients[l] \union {c}]
      /\ h.load = [m.load EXCEPT ![l] = m.load[l] + 1]
      /\ h.home = [m.home EXCEPT ![c] = l]
    BY HouseIs
<1>2. /\ m.clients \in [LinkIds -> SUBSET Clients] /\ m.load \in [LinkIds -> Nat]
      /\ m.home \in [Clients -> LinkIds \union {None}]
    BY MomentParts
<1>3. /\ h.home[c] = l
      /\ \A d \in Clients \ {c} : h.home[d] = m.home[d]
      /\ \A k \in LinkIds : h.clients[k] = IF k = l THEN m.clients[k] \union {c} ELSE m.clients[k]
      /\ \A k \in LinkIds : k # l => h.load[k] = m.load[k]
      /\ h.load[l] = m.load[l] + 1
    BY <1>1, <1>2
<1>4. None \notin LinkIds
    BY NoneAssumption
<1>5. ASSUME NEW d \in Clients, Lists(m, d) PROVE Lists(h, d)
  <2>1. CASE d = c
    <3>1. h.home[d] = l /\ d \in h.clients[l]
        BY <1>3, <2>1
    <3> QED BY <3>1 DEF Lists
  <2>2. CASE d # c
    <3>1. h.home[d] = m.home[d] /\ m.home[d] \in LinkIds \union {None}
        BY <1>2, <1>3, <2>2
    <3>2. \A k \in LinkIds : m.clients[k] \subseteq h.clients[k]
        BY <1>3
    <3> QED BY <1>5, <3>1, <3>2 DEF Lists
  <2> QED BY <2>1, <2>2
<1>6. ASSUME NEW d \in Clients \ {c}, Alone(m, d) PROVE Alone(h, d)
  <2> SUFFICES ASSUME NEW k \in LinkIds PROVE d \in h.clients[k] <=> h.home[d] = k
      BY DEF Alone
  <2>1. d \in h.clients[k] <=> d \in m.clients[k]
      BY <1>3
  <2>2. d \in m.clients[k] <=> m.home[d] = k
      BY <1>6 DEF Alone
  <2> QED BY <1>3, <2>1, <2>2
<1>7. ASSUME Alone(m, c), m.home[c] = None PROVE Alone(h, c)
  <2>1. \A k \in LinkIds : c \notin m.clients[k]
      BY <1>4, <1>7 DEF Alone
  <2>2. \A k \in LinkIds : c \in h.clients[k] <=> k = l
      BY <1>3, <2>1
  <2> QED BY <1>3, <2>2 DEF Alone
<1>8. ASSUME Counted(m), Alone(m, c), m.home[c] = None PROVE Counted(h)
  <2>1. c \notin m.clients[l] /\ IsFiniteSet(m.clients[l]) /\ m.load[l] = Cardinality(m.clients[l])
      BY <1>4, <1>8 DEF Alone, Counted
  <2>2. /\ IsFiniteSet(m.clients[l] \union {c})
        /\ Cardinality(m.clients[l] \union {c}) = Cardinality(m.clients[l]) + 1
      BY <2>1, FS_AddElement
  <2>3. h.load[l] = Cardinality(m.clients[l] \union {c})
      BY <1>3, <2>1, <2>2
  <2> QED BY <1>3, <1>8, <2>2, <2>3 DEF Counted
<1> QED
    BY <1>3, <1>5, <1>6, <1>7, <1>8

-----------------------------------------------------------------------------
(* What the steps have in common.                                           *)

LEMMA TypedParts ==
    ASSUME Typed
    PROVE  /\ clients \in [LinkIds -> SUBSET Clients] /\ load \in [LinkIds -> Nat]
           /\ idle \in [LinkIds -> BOOLEAN] /\ home \in [Clients -> LinkIds \union {None}]
           /\ left \in [LinkIds -> 0 .. Units]
           /\ has \in [Clients -> (LinkIds \union {None}) \X Nat]
           /\ Listed \subseteq LinkIds
<1>1. /\ clients \in [LinkIds -> SUBSET Clients] /\ load \in [LinkIds -> Nat]
      /\ idle \in [LinkIds -> BOOLEAN] /\ home \in [Clients -> LinkIds \union {None}]
      /\ left \in [LinkIds -> 0 .. Units]
      /\ has \in [Clients -> (LinkIds \union {None}) \X Nat]
    BY MomentParts, MomentFields DEF Typed
<1>2. Listed \subseteq LinkIds
    BY SeqParts DEF Typed, Listed
<1> QED
    BY <1>1, <1>2

\* A step of the loop changes todo and the rosters.
LEMMA TypedStep ==
    ASSUME Typed, Remembers, links' = links, phase' = phase, waiting' = waiting, job' = job,
           Moment' \in MomentType, live' \in SUBSET Clients,
           session' \in [Clients -> {"out", "in", "kicked", "gone"}],
           closed' = closed, todo' \in Seq(Work)
    PROVE  Typed'
<1> QED
    BY DEF Typed, Awaited, Remembers

LEMMA LinksSame ==
    ASSUME LinksOK, links' = links, phase' = phase
    PROVE  LinksOK'
<1> QED
    BY DEF LinksOK, OneConnects, Connecting, Listed

LEMMA MomentSame ==
    ASSUME clients' = clients, load' = load, idle' = idle, home' = home, left' = left, has' = has
    PROVE  Moment' = Moment
<1> QED
    BY DEF Moment

\* What any step must do to keep the miners and the rosters, one miner at a time.
LEMMA KeepLost ==
    ASSUME Typed, NoneLost, live' \in SUBSET Clients,
           \A d \in live' : \/ home'[d] # None \/ Due(d)' \/ Orphan(d)'
                            \/ d \in live /\ home'[d] = home[d] /\ (Due(d) => Due(d)')
                               /\ (Orphan(d) => Orphan(d)')
    PROVE  NoneLost'
<1> QED
    BY DEF NoneLost, Typed

LEMMA KeepClean ==
    ASSUME NEW d \in Clients, Clean(d), Alone(Moment, d) => Alone(Moment', d), home'[d] = home[d],
           Due(d)' => Due(d), Orphan(d)' => Orphan(d),
           session'[d] \in {"out", "gone"} => session[d] \in {"out", "gone"},
           d \in live' => d \in live
    PROVE  Clean(d)'
<1> QED
    BY DEF Clean, Alone

LEMMA KeepRosters ==
    ASSUME Rosters, Remembers, closed => closed',
           ~ closed =>
               /\ \A d \in Clients : Lists(Moment, d) => Lists(Moment', d)
               /\ crossed = {} /\ (\A d \in Clients : Clean(d)) /\ Counted(Moment) => Counted(Moment')
               /\ \A d \in Clients \ crossed : Clean(d) => Clean(d)'
    PROVE  Rosters'
<1> SUFFICES ASSUME ~ closed' PROVE Rosters'
    BY DEF Rosters
<1>1. \A d \in Clients : Lists(Moment, d)'
    BY DEF Rosters, Lists
<1>2. \A d \in Clients \ crossed' : Clean(d)'
    BY DEF Rosters, Remembers
<1>3. crossed' = {} => Counted(Moment)'
    BY DEF Rosters, Remembers, Counted
<1> QED
    BY <1>1, <1>2, <1>3 DEF Rosters

\* A step that touches neither.
LEMMA Quiet ==
    ASSUME Typed, NoneLost, Rosters, Remembers,
           Moment'.clients = clients, Moment'.load = load, home' = home, live' = live,
           closed => closed',
           \A d \in Clients : session'[d] \in {"out", "gone"} => session[d] \in {"out", "gone"},
           \A d : (Due(d)' <=> Due(d)) /\ (Orphan(d)' <=> Orphan(d))
    PROVE  NoneLost' /\ Rosters'
<1>1. live' \in SUBSET Clients
    BY DEF Typed
<1>2. NoneLost'
    BY <1>1, KeepLost
<1>3. Moment'.home = home /\ Moment.home = home /\ Moment.clients = clients /\ Moment.load = load
    BY DEF Moment
<1>4. /\ \A d \in Clients : Lists(Moment, d) => Lists(Moment', d)
      /\ \A d \in Clients : Alone(Moment, d) => Alone(Moment', d)
      /\ Counted(Moment) => Counted(Moment')
    BY <1>3 DEF Lists, Alone, Counted
<1>5. \A d \in Clients : Clean(d) => Clean(d)'
    BY <1>4, KeepClean
<1>6. Rosters'
    BY <1>4, <1>5, KeepRosters
<1> QED
    BY <1>2, <1>6

\* An item that is neither an attach nor a loop over orphans.
Plain(x) == x.op # "rehome" /\ \A d : ~ AttachItem(x, d)

LEMMA PlainItems ==
    /\ \A l \in LinkIds, cs \in SUBSET Clients : Plain(RenewCall(l, cs)) /\ Plain(MoveCall(l, cs))
    /\ \A l \in LinkIds : Plain(SweepCall(l))
    /\ Plain(Consolidate)
    /\ \A t \in Task : t.kind \notin Attaching => Plain(PickCall(t))
    /\ \A t \in Task, l \in LinkIds \union {None} : t.kind \notin Attaching => Plain(Settled(t, l))
<1> QED
    BY WorkMade DEF Plain, AttachItem, AttachTask

LEMMA PlainChange ==
    ASSUME waiting' = waiting, NEW B, \A x \in B : Plain(x),
           Items(todo) \subseteq Items(todo') \union B,
           Items(todo') \subseteq Items(todo) \union B
    PROVE  \A d : (Due(d)' <=> Due(d)) /\ (Orphan(d)' <=> Orphan(d))
<1> TAKE d
<1>1. Due(d)' <=> \/ \E x \in Items(todo') : AttachItem(x, d)
                  \/ \E l \in LinkIds : \E w \in Items(waiting[l]) : AttachTask(w.task, d)
    BY DEF Due, Items, AttachItem, AttachTask
<1>2. Orphan(d)' <=> \E x \in Items(todo') : x.op = "rehome" /\ d \in x.clients
    BY DEF Orphan, Items
<1> QED
    BY <1>1, <1>2 DEF Due, Orphan, Plain

\* Nothing but plain items comes or goes.
PlainlyChanged ==
    \E B : /\ \A x \in B : Plain(x)
           /\ Items(todo) \subseteq Items(todo') \union B
           /\ Items(todo') \subseteq Items(todo) \union B

\* Only pick is ever before a loop over orphans.
LEMMA NoRehome ==
    ASSUME Typed, RehomeFirst, todo # <<>>, Head(todo).op \notin {"pick", "rehome"}
    PROVE  \A x \in Items(todo) : x.op # "rehome"
<1>1. Head(todo) = todo[1]
    BY SeqTail DEF Typed
<1> QED
    BY <1>1 DEF RehomeFirst, Items

LEMMA RehomeNone ==
    ASSUME \A x \in Items(todo') : x.op # "rehome"
    PROVE  RehomeFirst'
<1> QED
    BY DEF RehomeFirst, Items

\* The placements of a miner, in any list of work and of waiters.
Here(T, c) == {i \in DOMAIN T : "task" \in DOMAIN T[i] /\ T[i].task.client = c}

There(W, c) ==
    LET at(l) == {i \in DOMAIN W[l] : W[l][i].task.client = c}
    IN  UNION {{<<l, i>> : i \in at(l)} : l \in LinkIds}

Many(T, W, c) == Cardinality(Here(T, c)) + Cardinality(There(W, c))

LEMMA ManyCounted ==
    ASSUME NEW T \in Seq(Work), NEW W \in [LinkIds -> Seq(Waiter)], NEW c
    PROVE  /\ IsFiniteSet(Here(T, c)) /\ Cardinality(Here(T, c)) \in Nat
           /\ IsFiniteSet(There(W, c)) /\ Cardinality(There(W, c)) \in Nat
<1> DEFINE here == {i \in DOMAIN T : "task" \in DOMAIN T[i] /\ T[i].task.client = c}
           at(l) == {i \in DOMAIN W[l] : W[l][i].task.client = c}
           there == UNION {{<<l, i>> : i \in at(l)} : l \in LinkIds}
<1>1. IsFiniteSet(here) /\ Cardinality(here) \in Nat
  <2>1. here \subseteq 1 .. Len(T) /\ Len(T) \in Nat
      BY SeqParts
  <2>2. IsFiniteSet(1 .. Len(T))
      BY <2>1, FS_Interval
  <2> HIDE DEF here
  <2> QED BY <2>1, <2>2, FS_Subset, FS_CardinalityType
<1>2. IsFiniteSet(there) /\ Cardinality(there) \in Nat
  <2>1. ASSUME NEW l \in LinkIds PROVE IsFiniteSet({<<l, i>> : i \in at(l)})
    <3>1. W[l] \in Seq(Waiter)
        OBVIOUS
    <3>2. at(l) \subseteq 1 .. Len(W[l]) /\ Len(W[l]) \in Nat
        BY <3>1, SeqParts
    <3>3. PICK n \in Nat : n = Len(W[l])
        BY <3>2
    <3>7. IsFiniteSet(1 .. n)
        BY FS_Interval
    <3> HIDE DEF at
    <3>4. IsFiniteSet(at(l))
        BY <3>2, <3>3, <3>7, FS_Subset
    <3> DEFINE f == [i \in at(l) |-> <<l, i>>]
    <3>5. {<<l, i>> : i \in at(l)} = {f[i] : i \in at(l)}
        OBVIOUS
    <3>6. f \in Surjection(at(l), {<<l, i>> : i \in at(l)})
        BY DEF Surjection
    <3> QED BY <3>4, <3>6, FS_Surjection
  <2> DEFINE pairs(l) == {<<l, i>> : i \in at(l)}
             sets == {pairs(l) : l \in LinkIds}
  <2>6. \A l \in LinkIds : IsFiniteSet(pairs(l))
      BY <2>1
  <2>7. there = UNION sets
      OBVIOUS
  <2> HIDE DEF pairs
  <2>2. IsFiniteSet(LinkIds)
      BY UpstreamAssumption
  <2>3. IsFiniteSet(sets)
    <3> DEFINE g == [l \in LinkIds |-> pairs(l)]
    <3>1. g \in Surjection(LinkIds, sets)
        BY DEF Surjection
    <3> QED BY <2>2, <3>1, FS_Surjection
  <2>4. \A S \in sets : IsFiniteSet(S)
      BY <2>6
  <2> HIDE DEF sets, there
  <2>5. IsFiniteSet(UNION sets)
      BY <2>3, <2>4, FS_UNION
  <2> QED BY <2>5, <2>7, FS_CardinalityType
<1> QED
    BY <1>1, <1>2 DEF Here, There

LEMMA SingleIn ==
    ASSUME NEW T \in Seq(Work), NEW W \in [LinkIds -> Seq(Waiter)], NEW c, ~ (Many(T, W, c) > 1),
           T # <<>>, Head(T).op \in {"pick", "settled"}, Head(T).task.client = c
    PROVE  /\ \A x \in Items(Tail(T)) : x.op \in {"pick", "settled"} => x.task.client # c
           /\ \A l \in LinkIds : \A w \in Items(W[l]) : w.task.client # c
<1> DEFINE here == {i \in DOMAIN T : "task" \in DOMAIN T[i] /\ T[i].task.client = c}
           at(l) == {i \in DOMAIN W[l] : W[l][i].task.client = c}
           there == UNION {{<<l, i>> : i \in at(l)} : l \in LinkIds}
<1>1. Many(T, W, c) = Cardinality(here) + Cardinality(there)
    BY DEF Many, Here, There
<1>2. ~ (Many(T, W, c) > 1)
    OBVIOUS
<1>3. IsFiniteSet(here) /\ Cardinality(here) \in Nat
    BY ManyCounted DEF Here
<1>4. IsFiniteSet(there) /\ Cardinality(there) \in Nat
  <2>1. there = There(W, c)
      BY DEF There
  <2> HIDE DEF there
  <2> QED BY <2>1, ManyCounted
<1>5. 1 \in here
  <2>1. Head(T) \in Work /\ Head(T) = T[1] /\ 1 \in DOMAIN T
      BY SeqTail
  <2> QED BY <2>1, WorkParts
<1>6. ASSUME NEW i \in here, i # 1 PROVE FALSE
  <2> HIDE DEF here
  <2>1. IsFiniteSet({1}) /\ Cardinality({1}) = 1
      BY FS_Singleton
  <2>2. PICK one : one = {1}
      OBVIOUS
  <2>3. IsFiniteSet(one) /\ Cardinality(one) = 1 /\ i \notin one
      BY <1>6, <2>1, <2>2
  <2>4. Cardinality(one \union {i}) = 2
    <3>1. Cardinality(one \union {i}) = Cardinality(one) + 1
        BY <2>3, FS_AddElement, Zenon
    <3> QED BY <2>3, <3>1
  <2>5. one \union {i} \in SUBSET here
      BY <1>5, <1>6, <2>2
  <2>6. Cardinality(one \union {i}) <= Cardinality(here)
      BY <1>3, <2>5, FS_Subset
  <2> HIDE DEF there
  <2> QED BY <1>1, <1>2, <1>3, <1>4, <2>4, <2>6
<1>7. ASSUME NEW p \in there PROVE FALSE
  <2> HIDE DEF here, there
  <2>1. Cardinality({1}) = 1 /\ Cardinality({p}) = 1
      BY FS_Singleton
  <2>2. Cardinality({1}) <= Cardinality(here) /\ Cardinality({p}) <= Cardinality(there)
      BY <1>3, <1>4, <1>5, <1>7, FS_Subset
  <2> QED BY <1>1, <1>2, <1>3, <1>4, <2>1, <2>2
<1>8. ASSUME NEW x \in Items(Tail(T)), x.op \in {"pick", "settled"}, x.task.client = c
      PROVE  FALSE
  <2>1. PICK i \in DOMAIN Tail(T) : x = Tail(T)[i]
      BY <1>8 DEF Items
  <2>2. /\ x = T[i + 1] /\ i + 1 \in DOMAIN T /\ i \in Nat /\ i >= 1
        /\ x \in Work
    <3>2. DOMAIN Tail(T) = 1 .. (Len(T) - 1) /\ Len(T) \in Nat
        BY SeqTail, SeqParts
    <3> QED BY <2>1, <3>2, SeqTail, SeqParts
  <2>3. i + 1 \in here
      BY <1>8, <2>2, WorkParts
  <2> HIDE DEF here
  <2> QED BY <1>6, <2>2, <2>3
<1>9. ASSUME NEW l \in LinkIds, NEW w \in Items(W[l]), w.task.client = c PROVE FALSE
  <2>1. PICK i \in DOMAIN W[l] : w = W[l][i]
      BY <1>9 DEF Items
  <2>2. i \in at(l)
      BY <1>9, <2>1
  <2> HIDE DEF at
  <2>3. <<l, i>> \in there
      BY <1>9, <2>2
  <2> HIDE DEF there
  <2> QED BY <1>7, <2>3
<1> QED
    BY <1>8, <1>9

\* A miner with one placement has no other than the one that runs.
LEMMA Single ==
    ASSUME Typed, PlacedOnce, todo # <<>>, Head(todo).op \in {"pick", "settled"},
           NEW c \in Clients \ crossed, Head(todo).task.client = c
    PROVE  /\ \A x \in Items(Tail(todo)) : x.op \in {"pick", "settled"} => x.task.client # c
           /\ \A l \in LinkIds : \A w \in Items(waiting[l]) : w.task.client # c
<1>1. ~ (Many(todo, waiting, c) > 1)
    BY DEF PlacedOnce, Placements, Many, Here, There
<1>2. todo \in Seq(Work) /\ waiting \in [LinkIds -> Seq(Waiter)]
    BY DEF Typed
<1> QED
    BY <1>1, <1>2, SingleIn

LEMMA DuePrime ==
    \A d : /\ Due(d)' <=> \/ \E x \in Items(todo') : AttachItem(x, d)
                          \/ \E l \in LinkIds : \E w \in Items(waiting'[l]) : AttachTask(w.task, d)
           /\ Orphan(d)' <=> \E x \in Items(todo') : x.op = "rehome" /\ d \in x.clients
<1> QED
    BY DEF Due, Orphan, Items, AttachItem, AttachTask

\* What the head of todo is when it is a call of pick or a settled task.
LEMMA HeadParts ==
    ASSUME Typed, todo # <<>>
    PROVE  /\ Head(todo) \in Work /\ Tail(todo) \in Seq(Work)
           /\ Items(todo) = {Head(todo)} \union Items(Tail(todo))
           /\ Items(Tail(todo)) \subseteq Work
           /\ Head(todo).op = "pick" => Head(todo).task \in Task
           /\ Head(todo).op = "settled" =>
                 Head(todo).task \in Task /\ Head(todo).on \in LinkIds \union {None}
<1>1. todo \in Seq(Work)
    BY DEF Typed
<1>2. /\ Head(todo) \in Work /\ Tail(todo) \in Seq(Work)
      /\ Items(todo) = {Head(todo)} \union Items(Tail(todo))
    BY <1>1, SeqTail
<1>3. Items(Tail(todo)) \subseteq Work
    BY <1>2, SeqParts
<1> QED
    BY <1>2, <1>3, WorkParts

-----------------------------------------------------------------------------
(* pick().                                                                  *)

LEMMA PickRehome ==
    ASSUME Typed, RehomeFirst, todo # <<>>, Head(todo).op = "pick",
           \/ todo' = Tail(todo)
           \/ \E x \in Work : x.op # "rehome" /\ todo' = Append(Tail(todo), x)
    PROVE  RehomeFirst'
<1> DEFINE rest == Tail(todo)
<1>1. todo \in Seq(Work) /\ rest \in Seq(Work)
    BY SeqTail DEF Typed
<1>2. /\ DOMAIN rest = 1 .. (Len(todo) - 1) /\ Len(todo) \in Nat
      /\ \A i \in DOMAIN rest : rest[i] = todo[i + 1] /\ i + 1 \in DOMAIN todo
    BY <1>1, SeqTail, SeqParts
<1>3. Len(rest) = Len(todo) - 1 /\ Len(rest) \in Nat
    BY <1>1, SeqTail, SeqParts
<1>4. \A i \in DOMAIN rest : rest[i].op = "rehome" => i = 1
  <2>1. \A i \in DOMAIN rest : i \in Nat /\ i >= 1
      BY <1>2
  <2>2. \A i \in DOMAIN rest : rest[i].op = "rehome" => i + 1 = 1 \/ i + 1 = 2
      BY <1>2 DEF RehomeFirst
  <2> QED BY <2>1, <2>2
<1> HIDE DEF rest
<1>5. CASE todo' = rest
    BY <1>4, <1>5 DEF RehomeFirst
<1>6. ASSUME NEW x \in Work, x.op # "rehome", todo' = Append(rest, x) PROVE RehomeFirst'
  <2>1. /\ DOMAIN todo' = 1 .. (Len(rest) + 1)
        /\ \A i \in 1 .. Len(rest) : todo'[i] = rest[i]
        /\ todo'[Len(rest) + 1] = x
      BY <1>1, <1>6, SeqAppend
  <2>2. \A i \in DOMAIN todo' : i \in 1 .. Len(rest) \/ i = Len(rest) + 1
      BY <1>3, <2>1
  <2>3. DOMAIN rest = 1 .. Len(rest)
      BY <1>2, <1>3
  <2> QED BY <1>4, <1>6, <2>1, <2>2, <2>3 DEF RehomeFirst
<1> QED
    BY <1>5, <1>6 DEF rest

\* The call moves from the head of todo to its end, settled.
LEMMA PickSettles ==
    ASSUME IInv, Remembers, todo # <<>>, Head(todo).op = "pick",
           NEW l \in LinkIds \union {None},
           todo' = Append(Tail(todo), Settled(Head(todo).task, l)),
           UNCHANGED <<link, waiting, has, home, live, session, closed>>
    PROVE  Core'
<1>1. Typed /\ RehomeFirst /\ LinksOK /\ NoneLost /\ Rosters
    BY DEF IInv
<1>2. /\ links' = links /\ phase' = phase /\ job' = job /\ left' = left /\ clients' = clients
      /\ load' = load /\ idle' = idle /\ waiting' = waiting /\ has' = has /\ home' = home
      /\ live' = live /\ session' = session /\ closed' = closed
    BY DEF link
<1>3. /\ Head(todo) \in Work /\ Head(todo).task \in Task /\ Tail(todo) \in Seq(Work)
      /\ Items(todo) = {Head(todo)} \union Items(Tail(todo))
    BY <1>1, HeadParts
<1>4. PICK x \in Work : x = Settled(Head(todo).task, l) /\ x.op = "settled" /\ x.task = Head(todo).task
    BY <1>3, WorkMade
<1>5. todo' \in Seq(Work) /\ Items(todo') = Items(Tail(todo)) \union {x}
  <2>1. PICK rest \in Seq(Work) : rest = Tail(todo)
      BY <1>3
  <2>2. /\ Append(rest, x) \in Seq(Work)
        /\ Items(Append(rest, x)) = Items(rest) \union {x}
      BY SeqAppend
  <2>3. todo' = Append(rest, x)
      BY <1>4, <2>1
  <2> QED BY <2>1, <2>2, <2>3
<1>6. Moment' = Moment
    BY <1>2, MomentSame
<1>7. Typed'
    BY <1>1, <1>2, <1>5, <1>6, TypedStep DEF Typed
<1>8. RehomeFirst'
    BY <1>1, <1>4, PickRehome
<1>9. LinksOK'
    BY <1>1, <1>2, LinksSame
<1>10. \A d : (Due(d)' <=> Due(d)) /\ (Orphan(d)' <=> Orphan(d))
  <2>1. \A d : AttachItem(x, d) <=> AttachItem(Head(todo), d)
      BY <1>4 DEF AttachItem
  <2>2. Head(todo).op # "rehome" /\ x.op # "rehome"
      BY <1>4
  <2> QED BY <1>2, <1>3, <1>5, <2>1, <2>2, DuePrime DEF Due, Orphan
<1>11. NoneLost' /\ Rosters'
    BY <1>1, <1>2, <1>6, <1>10, MomentFields, Quiet
<1> QED
    BY <1>7, <1>8, <1>9, <1>11 DEF Core

\* The call waits for a link that connects.
LEMMA PickWaits ==
    ASSUME IInv, Remembers, todo # <<>>, Head(todo).op = "pick",
           NEW l \in Connecting,
           waiting' = [waiting EXCEPT ![l] =
                         Append(waiting[l], [task |-> Head(todo).task, roomiest |-> None])],
           todo' = Tail(todo),
           UNCHANGED <<link, has, home, live, session, closed>>
    PROVE  Core'
<1>1. Typed /\ RehomeFirst /\ LinksOK /\ NoneLost /\ Rosters
    BY DEF IInv
<1>2. /\ links' = links /\ phase' = phase /\ job' = job /\ left' = left /\ clients' = clients
      /\ load' = load /\ idle' = idle /\ has' = has /\ home' = home
      /\ live' = live /\ session' = session /\ closed' = closed
    BY DEF link
<1>3. /\ Head(todo) \in Work /\ Head(todo).task \in Task /\ Tail(todo) \in Seq(Work)
      /\ Items(todo) = {Head(todo)} \union Items(Tail(todo))
    BY <1>1, HeadParts
<1> DEFINE w == [task |-> Head(todo).task, roomiest |-> None]
<1>4. w \in Waiter /\ w.task = Head(todo).task
    BY <1>3 DEF Waiter
<1> HIDE DEF w
<1>5. /\ l \in LinkIds /\ phase[l] \in {"tcp", "login"}
      /\ waiting \in [LinkIds -> Seq(Waiter)] /\ waiting[l] \in Seq(Waiter)
    BY <1>1, TypedParts DEF Connecting, Typed
<1>6. /\ waiting'[l] = Append(waiting[l], w)
      /\ \A k \in LinkIds : k # l => waiting'[k] = waiting[k]
    BY <1>5 DEF w
<1>7. /\ waiting'[l] \in Seq(Waiter) /\ Items(waiting'[l]) = Items(waiting[l]) \union {w}
      /\ waiting'[l] # <<>>
  <2>1. PICK s \in Seq(Waiter) : s = waiting[l]
      BY <1>5
  <2>2. PICK v \in Waiter : v = w
      BY <1>4
  <2>3. /\ Append(s, v) \in Seq(Waiter) /\ Len(Append(s, v)) = Len(s) + 1
        /\ Append(s, v)[Len(s) + 1] = v
        /\ Items(Append(s, v)) = Items(s) \union {v}
      BY SeqAppend
  <2>4. Append(s, v) # <<>>
      BY <2>3, SeqParts
  <2>5. waiting'[l] = Append(s, v)
      BY <1>6, <2>1, <2>2
  <2> QED BY <2>1, <2>2, <2>3, <2>4, <2>5
<1>8. waiting' \in [LinkIds -> Seq(Waiter)]
    BY <1>5, <1>6, <1>7
<1>9. Moment' = Moment
    BY <1>2, MomentSame
<1>10. Awaited'
    BY <1>1, <1>2, <1>5, <1>6, <1>7 DEF Awaited, Typed
<1>11. Typed'
    BY <1>1, <1>2, <1>3, <1>8, <1>9, <1>10 DEF Typed, Remembers
<1>12. RehomeFirst'
    BY <1>1, PickRehome
<1>13. LinksOK'
    BY <1>1, <1>2, LinksSame
<1>14. \A d : (Due(d)' <=> Due(d)) /\ (Orphan(d)' <=> Orphan(d))
  <2>1. \A d : AttachTask(w.task, d) <=> AttachItem(Head(todo), d)
      BY <1>4 DEF AttachItem
  <2>2. Head(todo).op # "rehome"
      OBVIOUS
  <2>3. \A d : (\E k \in LinkIds : \E v \in Items(waiting'[k]) : AttachTask(v.task, d)) <=>
                 \/ \E k \in LinkIds : \E v \in Items(waiting[k]) : AttachTask(v.task, d)
                 \/ AttachTask(w.task, d)
      BY <1>5, <1>6, <1>7
  <2> QED BY <1>3, <2>1, <2>2, <2>3, DuePrime DEF Due, Orphan
<1>15. NoneLost' /\ Rosters'
    BY <1>1, <1>2, <1>9, <1>14, MomentFields, Quiet
<1> QED
    BY <1>11, <1>12, <1>13, <1>15 DEF Core

\* The call opens a link: there is room for one more, and none connects.
LEMMA PickOpens ==
    ASSUME IInv, Remembers, todo # <<>>, Head(todo).op = "pick",
           ~ closed, Connecting = {}, Len(links) < MaxLinks,
           NEW l \in LinkIds, Unused(l), NEW r \in LinkIds \union {None},
           links' = Append(links, l),
           phase' = [phase EXCEPT ![l] = "tcp"],
           job' = [job EXCEPT ![l] = 0],
           left' = [left EXCEPT ![l] = 0],
           load' = [load EXCEPT ![l] = 0],
           idle' = [idle EXCEPT ![l] = FALSE],
           waiting' = [waiting EXCEPT ![l] = <<[task |-> Head(todo).task, roomiest |-> r]>>],
           has' = [c \in Clients |-> IF has[c][1] = l THEN NoJob ELSE has[c]],
           todo' = Tail(todo),
           UNCHANGED <<clients, home, live, session, closed>>
    PROVE  Core'
<1>1. Typed /\ RehomeFirst /\ LinksOK /\ NoneLost /\ Rosters
    BY DEF IInv
<1>2. /\ clients' = clients /\ home' = home /\ live' = live /\ session' = session
      /\ closed' = closed
    OBVIOUS
<1>3. /\ Head(todo) \in Work /\ Head(todo).task \in Task /\ Tail(todo) \in Seq(Work)
      /\ Items(todo) = {Head(todo)} \union Items(Tail(todo))
    BY <1>1, HeadParts
<1> DEFINE w == [task |-> Head(todo).task, roomiest |-> r]
<1>4. w \in Waiter /\ w.task = Head(todo).task
    BY <1>3 DEF Waiter
<1> HIDE DEF w
<1>5. /\ waiting \in [LinkIds -> Seq(Waiter)] /\ waiting[l] = <<>> /\ l \notin Listed
      /\ clients[l] = {} /\ phase \in [LinkIds -> {"tcp", "login", "up", "down"}]
      /\ links \in Seq(LinkIds)
    BY <1>1 DEF Unused, Typed
<1>6. /\ waiting'[l] = <<w>>
      /\ \A k \in LinkIds : k # l => waiting'[k] = waiting[k]
    BY <1>5 DEF w
<1>7. /\ waiting'[l] \in Seq(Waiter) /\ Items(waiting'[l]) = {w} /\ waiting'[l] # <<>>
      /\ Items(waiting[l]) = {}
    BY <1>4, <1>5, <1>6 DEF Items
<1>8. waiting' \in [LinkIds -> Seq(Waiter)]
    BY <1>5, <1>6, <1>7
<1>9. /\ links' \in Seq(LinkIds) /\ Len(links') = Len(links) + 1
      /\ Items(links') = Items(links) \union {l}
      /\ DOMAIN links' = 1 .. (Len(links) + 1) /\ links'[Len(links) + 1] = l
      /\ \A i \in 1 .. Len(links) : links'[i] = links[i]
    BY <1>5, SeqAppend
<1>10. Len(links) \in Nat /\ DOMAIN links = 1 .. Len(links)
    BY <1>5, SeqParts
<1>11. \A i, k \in DOMAIN links' : i # k => links'[i] # links'[k]
  <2>1. \A i \in DOMAIN links' : i \in DOMAIN links \/ i = Len(links) + 1
      BY <1>9, <1>10
  <2>2. \A i \in DOMAIN links : links[i] # l
      BY <1>5 DEF Listed
  <2> QED BY <1>1, <1>9, <1>10, <2>1, <2>2 DEF Typed
<1>12. Moment' \in MomentType
  <2>1. /\ left' \in [LinkIds -> 0 .. Units] /\ load' \in [LinkIds -> Nat]
        /\ clients' \in [LinkIds -> SUBSET Clients] /\ home' \in [Clients -> LinkIds \union {None}]
      BY <1>1, <1>2, TypedParts, UpstreamAssumption
  <2>2. idle' \in [LinkIds -> BOOLEAN]
      BY <1>1, TypedParts
  <2>3. has' \in [Clients -> (LinkIds \union {None}) \X Nat]
      BY <1>1, TypedParts DEF NoJob
  <2> QED BY <2>1, <2>2, <2>3 DEF Moment, MomentType
<1>13. /\ phase' \in [LinkIds -> {"tcp", "login", "up", "down"}]
       /\ \A k \in LinkIds : k # l => phase'[k] = phase[k]
       /\ phase'[l] = "tcp"
    BY <1>5
<1>14. Awaited'
    BY <1>1, <1>6, <1>7, <1>13 DEF Awaited, Typed
<1>15. job' \in [LinkIds -> 0 .. MaxJobs]
    BY <1>1, UpstreamAssumption DEF Typed
<1>16. Typed'
    BY <1>1, <1>2, <1>3, <1>8, <1>9, <1>11, <1>12, <1>13, <1>14, <1>15 DEF Typed, Remembers
<1>17. RehomeFirst'
    BY <1>1, PickRehome
<1>18. LinksOK'
  <2>1. \A k \in Connecting' : k = l
    <3>1. Listed' = Items(links') /\ Listed = Items(links) /\ Listed \subseteq LinkIds
        BY <1>1, TypedParts DEF Listed, Items
    <3>2. \A k \in Connecting' : k # l => k \in Connecting
        BY <1>9, <1>13, <3>1 DEF Connecting
    <3> QED BY <3>2
  <2>2. Len(links') <= MaxLinks
      BY <1>9, <1>10, UpstreamAssumption
  <2> QED BY <2>1, <2>2 DEF LinksOK, OneConnects
<1>19. \A d : (Due(d)' <=> Due(d)) /\ (Orphan(d)' <=> Orphan(d))
  <2>1. \A d : AttachTask(w.task, d) <=> AttachItem(Head(todo), d)
      BY <1>4 DEF AttachItem
  <2>2. Head(todo).op # "rehome"
      OBVIOUS
  <2>3. \A d : (\E k \in LinkIds : \E v \in Items(waiting'[k]) : AttachTask(v.task, d)) <=>
                 \/ \E k \in LinkIds : \E v \in Items(waiting[k]) : AttachTask(v.task, d)
                 \/ AttachTask(w.task, d)
      BY <1>6, <1>7
  <2> QED BY <1>3, <2>1, <2>2, <2>3, DuePrime DEF Due, Orphan
<1>20. live' \in SUBSET Clients
    BY <1>1 DEF Typed
<1>21. NoneLost'
    BY <1>1, <1>2, <1>19, <1>20, KeepLost
<1>22. Rosters'
  <2>1. /\ Moment'.clients = clients /\ Moment'.home = home /\ Moment'.load = load'
        /\ Moment.clients = clients /\ Moment.home = home /\ Moment.load = load
      BY <1>2 DEF Moment
  <2>2. /\ \A d \in Clients : Lists(Moment, d) => Lists(Moment', d)
        /\ \A d \in Clients : Alone(Moment, d) => Alone(Moment', d)
      BY <2>1 DEF Lists, Alone
  <2>3. \A d \in Clients : Clean(d) => Clean(d)'
      BY <1>2, <1>19, <2>2, KeepClean
  <2>4. ASSUME Counted(Moment) PROVE Counted(Moment')
    <3>1. IsFiniteSet({}) /\ Cardinality({}) = 0
        BY FS_EmptySet
    <3>2. load'[l] = 0 /\ \A k \in LinkIds : k # l => load'[k] = load[k]
        BY <1>1, TypedParts
    <3>3. ASSUME NEW k \in LinkIds PROVE IsFiniteSet(clients[k]) /\ load'[k] = Cardinality(clients[k])
      <4>1. IsFiniteSet(clients[k]) /\ load[k] = Cardinality(clients[k])
          BY <2>1, <2>4 DEF Counted
      <4>2. k = l => clients[k] = {}
          BY <1>5
      <4> QED BY <3>1, <3>2, <4>1, <4>2
    <3> QED BY <2>1, <3>3 DEF Counted
  <2> QED BY <1>1, <1>2, <2>2, <2>3, <2>4, KeepRosters
<1> QED
    BY <1>16, <1>17, <1>18, <1>21, <1>22 DEF Core

LEMMA StepPick ==
    ASSUME IInv, Remembers, RunPick
    PROVE  Core'
<1>1. /\ todo # <<>> /\ Head(todo).op = "pick" /\ Pick(Head(todo).task, Tail(todo))
      /\ UNCHANGED <<home, live, session, closed>>
    BY DEF RunPick
<1> DEFINE task == Head(todo).task
           rest == Tail(todo)
<1>2. Candidates(task) \subseteq LinkIds /\ Roomiest(task) \subseteq LinkIds \union {None}
    BY TypedParts DEF IInv, Candidates, Roomiest
<1>3. CASE closed /\ todo' = Append(rest, Settled(task, None)) /\ UNCHANGED <<link, waiting, has>>
    BY <1>1, <1>3, PickSettles
<1>4. CASE /\ ~ closed
           /\ \E best \in Candidates(task) : todo' = Append(rest, Settled(task, best))
           /\ UNCHANGED <<link, waiting, has>>
    BY <1>1, <1>2, <1>4, PickSettles
<1>5. CASE /\ ~ closed /\ Connecting # {}
           /\ \E l \in Connecting :
                 waiting' = [waiting EXCEPT ![l] =
                               Append(waiting[l], [task |-> task, roomiest |-> None])]
           /\ todo' = rest
           /\ UNCHANGED <<link, has>>
    BY <1>1, <1>5, PickWaits
<1>6. CASE /\ ~ closed /\ Connecting = {} /\ Len(links) >= MaxLinks
           /\ \E l \in Roomiest(task) : todo' = Append(rest, Settled(task, l))
           /\ UNCHANGED <<link, waiting, has>>
    BY <1>1, <1>2, <1>6, PickSettles
<1>7. CASE /\ ~ closed /\ Connecting = {} /\ Len(links) < MaxLinks
           /\ \E l \in {k \in LinkIds : Unused(k)}, r \in Roomiest(task) :
                 /\ links' = Append(links, l)
                 /\ phase' = [phase EXCEPT ![l] = "tcp"]
                 /\ job' = [job EXCEPT ![l] = 0]
                 /\ left' = [left EXCEPT ![l] = 0]
                 /\ load' = [load EXCEPT ![l] = 0]
                 /\ idle' = [idle EXCEPT ![l] = FALSE]
                 /\ waiting' = [waiting EXCEPT ![l] = <<[task |-> task, roomiest |-> r]>>]
                 /\ has' = [c \in Clients |-> IF has[c][1] = l THEN NoJob ELSE has[c]]
           /\ todo' = rest
           /\ UNCHANGED clients
  <2>1. PICK l \in {k \in LinkIds : Unused(k)}, r \in Roomiest(task) :
                 /\ links' = Append(links, l)
                 /\ phase' = [phase EXCEPT ![l] = "tcp"]
                 /\ job' = [job EXCEPT ![l] = 0]
                 /\ left' = [left EXCEPT ![l] = 0]
                 /\ load' = [load EXCEPT ![l] = 0]
                 /\ idle' = [idle EXCEPT ![l] = FALSE]
                 /\ waiting' = [waiting EXCEPT ![l] = <<[task |-> task, roomiest |-> r]>>]
                 /\ has' = [c \in Clients |-> IF has[c][1] = l THEN NoJob ELSE has[c]]
      BY <1>7
  <2>2. r \in LinkIds \union {None} /\ l \in LinkIds /\ Unused(l)
      BY <1>2
  <2> QED BY <1>1, <1>7, <2>1, <2>2, PickOpens
<1> QED
    BY <1>1, <1>3, <1>4, <1>5, <1>6, <1>7 DEF Pick

-----------------------------------------------------------------------------
(* The loops that serve one miner a turn.                                   *)

\* A step that puts plain items in todo, or takes them out, and touches no roster.
LEMMA PlainStep ==
    ASSUME IInv, Remembers, \A x \in Items(todo) : x.op # "rehome",
           PlainlyChanged, todo' \in Seq(Work), Moment' \in MomentType,
           Moment'.clients = clients, Moment'.load = load, home' = home,
           links' = links, phase' = phase, waiting' = waiting, job' = job, closed' = closed,
           live' = live,
           session' \in [Clients -> {"out", "in", "kicked", "gone"}],
           \A d \in Clients : session'[d] \in {"out", "gone"} => session[d] \in {"out", "gone"}
    PROVE  Core'
<1>1. Typed /\ RehomeFirst /\ LinksOK /\ NoneLost /\ Rosters
    BY DEF IInv
<1>2. Typed'
    BY <1>1, TypedStep DEF Typed
<1>3. RehomeFirst'
    BY RehomeNone DEF Plain, PlainlyChanged
<1>4. LinksOK'
    BY <1>1, LinksSame
<1>5. \A d : (Due(d)' <=> Due(d)) /\ (Orphan(d)' <=> Orphan(d))
    BY PlainChange DEF PlainlyChanged
<1>6. NoneLost' /\ Rosters'
    BY <1>1, <1>5, Quiet
<1> QED
    BY <1>2, <1>3, <1>4, <1>6 DEF Core

\* A turn of a loop: the call of pick comes first, then what is left of the loop.
LEMMA TurnIs ==
    ASSUME Typed, todo # <<>>, NEW t \in Task, NEW next \in Work, TurnTo(t, next)
    PROVE  /\ todo' \in Seq(Work) /\ todo' # <<>> /\ todo'[1] = PickCall(t)
           /\ Items(todo') = {PickCall(t)} \union (IF next.clients = {} THEN {} ELSE {next})
                                \union Items(Tail(todo))
           /\ \A i \in DOMAIN todo' :
                 i = 1 \/ (i = 2 /\ next.clients # {}) \/ todo'[i] \in Items(Tail(todo))
<1>1. PICK rest \in Seq(Work) : rest = Tail(todo)
    BY HeadParts
<1>2. PICK p \in Work : p = PickCall(t)
    BY WorkMade
<1>3. todo' = IF next.clients = {} THEN <<p>> \o rest ELSE <<p, next>> \o rest
    BY <1>1, <1>2 DEF TurnTo
<1>4. CASE next.clients = {}
  <2>1. PICK u : u = Atop(p, rest)
      OBVIOUS
  <2>2. /\ u \in Seq(Work) /\ u # <<>> /\ u[1] = p
        /\ Items(u) = {p} \union Items(rest)
        /\ \A i \in DOMAIN u : i = 1 \/ u[i] \in Items(rest)
    <3>1. Led(u, p, rest)
        BY <2>1, OneBefore
    <3> QED BY <3>1 DEF Led
  <2>3. todo' = u
      BY <1>3, <1>4, <2>1 DEF Atop
  <2> QED BY <1>1, <1>2, <1>4, <2>2, <2>3
<1>5. CASE next.clients # {}
  <2>1. PICK u : u = AtopTwo(p, next, rest)
      OBVIOUS
  <2>2. /\ u \in Seq(Work) /\ u # <<>> /\ u[1] = p
        /\ Items(u) = {p, next} \union Items(rest)
        /\ \A i \in DOMAIN u : i = 1 \/ i = 2 \/ u[i] \in Items(rest)
      BY <2>1, TwoBefore
  <2>3. todo' = u
      BY <1>3, <1>5, <2>1 DEF AtopTwo
  <2> QED BY <1>1, <1>2, <1>5, <2>2, <2>3
<1> QED
    BY <1>4, <1>5

LEMMA StepRenew ==
    ASSUME IInv, Remembers, RunRenew
    PROVE  Core'
<1>1. Typed /\ RehomeFirst /\ todo # <<>> /\ Head(todo).op = "renew"
    BY DEF IInv, RunRenew
<1>2. /\ Head(todo) \in Work /\ Tail(todo) \in Seq(Work)
      /\ Items(todo) = {Head(todo)} \union Items(Tail(todo))
    BY <1>1, HeadParts
<1>3. PICK h \in Work : h = Head(todo)
    BY <1>2
<1>4. h.on \in LinkIds /\ h.clients \in SUBSET Clients /\ h = RenewCall(h.on, h.clients)
    BY <1>1, <1>3, WorkParts
<1>5. PICK c \in h.clients :
          LET next == RenewCall(h.on, h.clients \ {c})
          IN  IF left[h.on] > 0
              THEN /\ Become(Grant(Moment, h.on, c))
                   /\ todo' = IF next.clients = {} THEN Tail(todo) ELSE <<next>> \o Tail(todo)
              ELSE /\ TurnTo([kind |-> "renew", client |-> c, from |-> h.on], next)
                   /\ Become(Moment)
    BY <1>3 DEF RunRenew
<1>6. PICK next \in Work : next = RenewCall(h.on, h.clients \ {c}) /\ Plain(next)
    BY <1>4, WorkMade, PlainItems
<1>7. c \in Clients /\ Plain(h)
    BY <1>4, PlainItems
<1>8. UNCHANGED <<links, phase, job, live, session, closed, waiting>>
    BY DEF RunRenew
<1>9. \A x \in Items(todo) : x.op # "rehome"
    BY <1>1, NoRehome
<1>10. /\ session \in [Clients -> {"out", "in", "kicked", "gone"}]
       /\ Moment \in MomentType /\ job \in [LinkIds -> 0 .. MaxJobs]
    BY <1>1 DEF Typed
<1>11. CASE left[h.on] > 0
  <2>1. PICK rest \in Seq(Work) : rest = Tail(todo)
      BY <1>2
  <2>2. todo' = rest \/ todo' = <<next>> \o rest
      BY <1>5, <1>6, <1>11, <2>1
  <2>3. /\ todo' \in Seq(Work) /\ Items(rest) \subseteq Items(todo')
        /\ Items(todo') \subseteq Items(rest) \union {next}
    <3>1. PICK u : u = Atop(next, rest)
        OBVIOUS
    <3>2. u \in Seq(Work) /\ Items(u) = {next} \union Items(rest)
      <4>1. Led(u, next, rest)
          BY <3>1, OneBefore
      <4> QED BY <4>1 DEF Led
    <3>3. todo' = rest \/ todo' = u
        BY <2>2, <3>1 DEF Atop
    <3> QED BY <3>2, <3>3
  <2>4. PICK m \in MomentType : m = Grant(Moment, h.on, c) /\ m.clients = clients
                                /\ m.load = load /\ m.home = home
      BY <1>4, <1>7, <1>10, <1>11, GrantIs, MomentFields
  <2>5. Moment' = m
      BY <1>5, <1>11, <2>4, BecomeIs
  <2>6. home' = home
      BY <2>4, <2>5 DEF Moment
  <2>7. PlainlyChanged
    <3>1. PICK B : B = {h, next}
        OBVIOUS
    <3>2. /\ \A x \in B : Plain(x)
          /\ Items(todo) \subseteq Items(todo') \union B
          /\ Items(todo') \subseteq Items(todo) \union B
        BY <1>2, <1>3, <1>6, <1>7, <2>1, <2>3, <3>1
    <3> QED BY <3>2 DEF PlainlyChanged
  <2> QED BY <1>8, <1>9, <1>10, <2>3, <2>4, <2>5, <2>6, <2>7, PlainStep
<1>12. CASE ~ (left[h.on] > 0)
  <2>1. PICK t \in Task : /\ t = [kind |-> "renew", client |-> c, from |-> h.on]
                          /\ Plain(PickCall(t))
    <3>1. PICK t : t = [kind |-> "renew", client |-> c, from |-> h.on]
        OBVIOUS
    <3>2. t \in Task /\ t.kind \notin Attaching
        BY <1>4, <1>7, <3>1, MigrateMade
    <3> QED BY <3>1, <3>2, PlainItems
  <2>2. TurnTo(t, next) /\ Become(Moment)
      BY <1>5, <1>6, <1>12, <2>1
  <2>3. /\ todo' \in Seq(Work) /\ Items(Tail(todo)) \subseteq Items(todo')
        /\ Items(todo') \subseteq Items(Tail(todo)) \union {PickCall(t), next}
      BY <1>1, <2>2, TurnIs
  <2>4. Moment' = Moment
      BY <1>10, <2>2, BecomeIs
  <2>5. home' = home /\ Moment.clients = clients /\ Moment.load = load
      BY <2>4 DEF Moment
  <2>6. PlainlyChanged
    <3>1. PICK B : B = {h, next, PickCall(t)}
        OBVIOUS
    <3>2. /\ \A x \in B : Plain(x)
          /\ Items(todo) \subseteq Items(todo') \union B
          /\ Items(todo') \subseteq Items(todo) \union B
        BY <1>2, <1>3, <1>6, <1>7, <2>1, <2>3, <3>1
    <3> QED BY <3>2 DEF PlainlyChanged
  <2> QED BY <1>8, <1>9, <1>10, <2>3, <2>4, <2>5, <2>6, PlainStep
<1> QED
    BY <1>11, <1>12

LEMMA StepMove ==
    ASSUME IInv, Remembers, RunMove
    PROVE  Core'
<1>1. Typed /\ RehomeFirst /\ todo # <<>> /\ Head(todo).op = "move"
    BY DEF IInv, RunMove
<1>2. /\ Head(todo) \in Work /\ Tail(todo) \in Seq(Work)
      /\ Items(todo) = {Head(todo)} \union Items(Tail(todo))
    BY <1>1, HeadParts
<1>3. PICK h \in Work : h = Head(todo)
    BY <1>2
<1>4. h.on \in LinkIds /\ h.clients \in SUBSET Clients /\ h = MoveCall(h.on, h.clients)
    BY <1>1, <1>3, WorkParts
<1>5. PICK c \in h.clients :
          TurnTo([kind |-> "sweep", client |-> c, from |-> h.on], MoveCall(h.on, h.clients \ {c}))
    BY <1>3 DEF RunMove
<1>6. PICK next \in Work : next = MoveCall(h.on, h.clients \ {c}) /\ Plain(next)
    BY <1>4, WorkMade, PlainItems
<1>7. c \in Clients /\ Plain(h)
    BY <1>4, PlainItems
<1>8. PICK t \in Task : t = [kind |-> "sweep", client |-> c, from |-> h.on] /\ Plain(PickCall(t))
  <2>1. PICK t : t = [kind |-> "sweep", client |-> c, from |-> h.on]
      OBVIOUS
  <2>2. t \in Task /\ t.kind \notin Attaching
      BY <1>4, <1>7, <2>1, MigrateMade
  <2> QED BY <2>1, <2>2, PlainItems
<1>9. /\ todo' \in Seq(Work) /\ Items(Tail(todo)) \subseteq Items(todo')
      /\ Items(todo') \subseteq Items(Tail(todo)) \union {PickCall(t), next}
  <2>1. TurnTo(t, next)
      BY <1>5, <1>6, <1>8
  <2> QED BY <1>1, <2>1, TurnIs
<1>10. UNCHANGED <<link, who, closed, waiting>>
    BY DEF RunMove
<1>11. /\ Moment' = Moment /\ Moment \in MomentType /\ home' = home
       /\ Moment.clients = clients /\ Moment.load = load
    BY <1>1, <1>10 DEF Moment, link, who, Typed
<1>12. /\ links' = links /\ phase' = phase /\ job' = job /\ live' = live /\ session' = session
       /\ closed' = closed /\ waiting' = waiting
       /\ session \in [Clients -> {"out", "in", "kicked", "gone"}]
    BY <1>1, <1>10 DEF link, who, Typed
<1>13. \A x \in Items(todo) : x.op # "rehome"
    BY <1>1, NoRehome
<1>14. PlainlyChanged
  <2>1. PICK B : B = {h, next, PickCall(t)}
      OBVIOUS
  <2>2. /\ \A x \in B : Plain(x)
        /\ Items(todo) \subseteq Items(todo') \union B
        /\ Items(todo') \subseteq Items(todo) \union B
      BY <1>2, <1>3, <1>6, <1>7, <1>8, <1>9, <2>1
  <2> QED BY <2>2 DEF PlainlyChanged
<1> QED
    BY <1>9, <1>11, <1>12, <1>13, <1>14, PlainStep

LEMMA StepConsolidate ==
    ASSUME IInv, Remembers, RunConsolidate
    PROVE  Core'
<1>1. Typed /\ RehomeFirst /\ todo # <<>> /\ Head(todo).op = "consolidate"
    BY DEF IInv, RunConsolidate
<1>2. /\ Head(todo) \in Work /\ Tail(todo) \in Seq(Work)
      /\ Items(todo) = {Head(todo)} \union Items(Tail(todo))
    BY <1>1, HeadParts
<1>3. PICK h \in Work : h = Head(todo) /\ h.op = "consolidate" /\ Plain(h)
    BY <1>1, <1>2 DEF Plain, AttachItem
<1>4. PICK rest \in Seq(Work) : rest = Tail(todo)
    BY <1>2
<1>5. \E B : /\ \A x \in B : Plain(x)
             /\ todo' \in Seq(Work) /\ Items(rest) \subseteq Items(todo')
             /\ Items(todo') \subseteq Items(rest) \union B
  <2>1. ASSUME todo' = rest
        PROVE  \E B : /\ \A x \in B : Plain(x)
                      /\ todo' \in Seq(Work) /\ Items(rest) \subseteq Items(todo')
                      /\ Items(todo') \subseteq Items(rest) \union B
    <3>1. PICK B : B = {}
        OBVIOUS
    <3>2. \A x \in B : Plain(x)
        BY <3>1
    <3>3. /\ todo' \in Seq(Work) /\ Items(rest) \subseteq Items(todo')
          /\ Items(todo') \subseteq Items(rest) \union B
        BY <2>1
    <3> QED BY <3>2, <3>3
  <2>2. ASSUME NEW l \in Listed, todo' = <<MoveCall(l, clients[l])>> \o rest
        PROVE  \E B : /\ \A x \in B : Plain(x)
                      /\ todo' \in Seq(Work) /\ Items(rest) \subseteq Items(todo')
                      /\ Items(todo') \subseteq Items(rest) \union B
    <3>1. l \in LinkIds /\ clients[l] \in SUBSET Clients
        BY <1>1, TypedParts
    <3>2. PICK x \in Work : x = MoveCall(l, clients[l]) /\ Plain(x)
        BY <3>1, WorkMade, PlainItems
    <3>3. todo' \in Seq(Work) /\ Items(todo') = {x} \union Items(rest)
      <4>1. PICK u : u = Atop(x, rest)
          OBVIOUS
      <4>2. u \in Seq(Work) /\ Items(u) = {x} \union Items(rest)
        <5>1. Led(u, x, rest)
            BY <4>1, OneBefore
        <5> QED BY <5>1 DEF Led
      <4>3. todo' = u
          BY <2>2, <3>2, <4>1 DEF Atop
      <4> QED BY <4>2, <4>3
    <3>4. PICK B : B = {x}
        OBVIOUS
    <3>5. /\ \A y \in B : Plain(y)
          /\ Items(rest) \subseteq Items(todo') /\ Items(todo') \subseteq Items(rest) \union B
        BY <3>2, <3>3, <3>4
    <3> QED BY <3>3, <3>5
  <2> QED BY <1>4, <2>1, <2>2 DEF RunConsolidate
<1>6. UNCHANGED <<link, who, closed, waiting>>
    BY DEF RunConsolidate
<1>7. /\ Moment' = Moment /\ Moment \in MomentType /\ home' = home
      /\ Moment.clients = clients /\ Moment.load = load
    BY <1>1, <1>6 DEF Moment, link, who, Typed
<1>8. /\ links' = links /\ phase' = phase /\ job' = job /\ live' = live /\ session' = session
      /\ closed' = closed /\ waiting' = waiting
      /\ session \in [Clients -> {"out", "in", "kicked", "gone"}]
    BY <1>1, <1>6 DEF link, who, Typed
<1>9. \A x \in Items(todo) : x.op # "rehome"
    BY <1>1, NoRehome
<1>10. PICK B : /\ \A x \in B : Plain(x)
                /\ todo' \in Seq(Work) /\ Items(rest) \subseteq Items(todo')
                /\ Items(todo') \subseteq Items(rest) \union B
    BY <1>5
<1>11. PlainlyChanged
  <2>1. PICK C : C = B \union {h}
      OBVIOUS
  <2>2. /\ \A x \in C : Plain(x)
        /\ Items(todo) \subseteq Items(todo') \union C
        /\ Items(todo') \subseteq Items(todo) \union C
      BY <1>2, <1>3, <1>4, <1>10, <2>1
  <2> QED BY <2>2 DEF PlainlyChanged
<1> QED
    BY <1>7, <1>8, <1>9, <1>10, <1>11, PlainStep

-----------------------------------------------------------------------------
(* What follows pick in attach and migrate.                                 *)

\* Evicted and housed again.
LEMMA MoveKeeps ==
    ASSUME NEW m \in MomentType, NEW l \in LinkIds, NEW c \in Clients,
           NEW n, n = House(Evict(m, c), l, c)
    PROVE  /\ n \in MomentType /\ n.left = m.left
           /\ \A d \in Clients : Lists(m, d) => Lists(n, d)
           /\ \A d \in Clients : Alone(m, d) => Alone(n, d)
           /\ Counted(m) /\ Alone(m, c) => Counted(n)
           /\ n.home[c] = l
           /\ \A d \in Clients \ {c} : n.home[d] = m.home[d]
<1>1. PICK e : e = Evict(m, c)
    OBVIOUS
<1>6. e \in MomentType /\ e.left = m.left
    BY <1>1, EvictFits
<1>2. /\ \A d \in Clients : Lists(m, d) => Lists(e, d)
      /\ \A d \in Clients : Alone(m, d) => Alone(e, d)
      /\ Counted(m) /\ Alone(m, c) => Counted(e)
      /\ e.home[c] = None
      /\ \A d \in Clients \ {c} : e.home[d] = m.home[d]
    BY <1>1, EvictKeeps
<1>3. n = House(e, l, c)
    BY <1>1
<1>4. n \in MomentType /\ n.left = e.left
  <2>1. /\ n \in MomentType
        /\ n.clients = [e.clients EXCEPT ![l] = e.clients[l] \union {c}]
        /\ n.load = [e.load EXCEPT ![l] = e.load[l] + 1]
        /\ n.home = [e.home EXCEPT ![c] = l]
        /\ n.left = e.left /\ n.has = e.has
      BY <1>3, <1>6, HouseIs
  <2> QED BY <2>1
<1>5. /\ \A d \in Clients : Lists(e, d) => Lists(n, d)
      /\ \A d \in Clients \ {c} : Alone(e, d) => Alone(n, d)
      /\ Alone(e, c) /\ e.home[c] = None => Alone(n, c)
      /\ Counted(e) /\ Alone(e, c) /\ e.home[c] = None => Counted(n)
      /\ n.home[c] = l
      /\ \A d \in Clients \ {c} : n.home[d] = e.home[d]
    BY <1>3, <1>6, HouseKeeps
<1> QED
    BY <1>1, <1>2, <1>4, <1>5, <1>6

\* A settled task leaves todo: its miner has no other, unless it is crossed.
LEMMA HeadSettled ==
    ASSUME Typed, RehomeFirst, PlacedOnce, todo # <<>>, Head(todo).op = "settled",
           todo' = Tail(todo), waiting' = waiting, NEW c, Head(todo).task.client = c
    PROVE  /\ todo' \in Seq(Work) /\ RehomeFirst'
           /\ \A d : ~ Orphan(d) /\ ~ Orphan(d)'
           /\ \A d : Due(d)' => Due(d)
           /\ \A d : d # c => (Due(d) => Due(d)')
           /\ Head(todo).task.kind \notin Attaching => \A d : Due(d) => Due(d)'
           /\ Head(todo).task.kind \in Attaching => Due(c)
           /\ c \in Clients \ crossed => ~ Due(c)'
<1>1. /\ Head(todo) \in Work /\ Tail(todo) \in Seq(Work) /\ Items(todo') \subseteq Work
      /\ Items(todo) = {Head(todo)} \union Items(todo')
    BY HeadParts
<1>2. \A x \in Items(todo) : x.op # "rehome"
    BY NoRehome
<1>3. RehomeFirst'
    BY <1>1, <1>2, RehomeNone
<1>4. \A d : ~ Orphan(d) /\ ~ Orphan(d)'
    BY <1>1, <1>2, DuePrime DEF Orphan
<1>5. \A d : Due(d)' => Due(d)
    BY <1>1, DuePrime DEF Due
<1>6. \A d : d # c \/ Head(todo).task.kind \notin Attaching =>
          (Due(d) => Due(d)')
    BY <1>1, DuePrime DEF Due, AttachItem, AttachTask
<1>7. Head(todo).task.kind \in Attaching => Due(c)
    BY <1>1 DEF Due, AttachItem, AttachTask
<1>8. ASSUME c \in Clients \ crossed PROVE ~ Due(c)'
  <2>1. /\ \A x \in Items(todo') : x.op \in {"pick", "settled"} => x.task.client # c
        /\ \A l \in LinkIds : \A w \in Items(waiting'[l]) : w.task.client # c
      BY <1>8, Single
  <2> QED BY <2>1, DuePrime DEF AttachItem, AttachTask
<1>9. /\ \A d : d # c => (Due(d) => Due(d)')
      /\ Head(todo).task.kind \notin Attaching => \A d : Due(d) => Due(d)'
    BY <1>6, Zenon
<1>10. c \in Clients \ crossed => ~ Due(c)'
    BY <1>8, Zenon
<1> QED
    BY <1>1, <1>3, <1>4, <1>5, <1>7, <1>9, <1>10, Zenon

\* The miner of a settled task is placed, stays or goes; the others stay.
LEMMA OnePlaced ==
    ASSUME IInv, Remembers, todo # <<>>, Head(todo).op = "settled", todo' = Tail(todo),
           UNCHANGED <<links, phase, job, closed, waiting>>,
           NEW c \in Clients, Head(todo).task.client = c,
           NEW m \in MomentType, Become(m),
           live' \in SUBSET Clients,
           session' \in [Clients -> {"out", "in", "kicked", "gone"}],
           \A d \in Clients \ {c} : m.home[d] = home[d] /\ session'[d] = session[d],
           \A d \in Clients \ {c} : d \in live' => d \in live,
           \A d \in Clients : Lists(Moment, d) => Lists(m, d),
           \A d \in Clients \ {c} : Alone(Moment, d) => Alone(m, d),
           c \in live' =>
               m.home[c] # None \/ (/\ c \in live /\ m.home[c] = home[c]
                                    /\ Head(todo).task.kind \notin Attaching),
           Clean(c) => /\ Alone(m, c)
                       /\ Counted(Moment) => Counted(m)
                       /\ session'[c] \in {"out", "gone"} => c \notin live' /\ m.home[c] = None
    PROVE  Core'
<1>1. Typed /\ RehomeFirst /\ PlacedOnce /\ LinksOK /\ NoneLost /\ Rosters
    BY DEF IInv
<1>2. /\ todo' \in Seq(Work) /\ RehomeFirst'
      /\ \A d : ~ Orphan(d) /\ ~ Orphan(d)'
      /\ \A d : Due(d)' => Due(d)
      /\ \A d : d # c => (Due(d) => Due(d)')
      /\ Head(todo).task.kind \notin Attaching => \A d : Due(d) => Due(d)'
      /\ c \in Clients \ crossed => ~ Due(c)'
    BY <1>1, HeadSettled, Zenon
<1>3. Moment' = m
    BY BecomeIs
<1>4. home' = m.home
    BY DEF Become
<1>5. Typed'
    BY <1>1, <1>2, <1>3, TypedStep
<1>6. LinksOK'
    BY <1>1, LinksSame
<1>7. NoneLost'
  <2>1. ASSUME NEW d \in live'
        PROVE  \/ home'[d] # None \/ Due(d)' \/ Orphan(d)'
               \/ d \in live /\ home'[d] = home[d] /\ (Due(d) => Due(d)')
                  /\ (Orphan(d) => Orphan(d)')
    <3>1. CASE d = c
        BY <1>2, <1>4, <2>1, <3>1
    <3>2. CASE d # c
      <4>1. d \in Clients \ {c}
          BY <2>1, <3>2
      <4> QED BY <1>2, <1>4, <2>1, <4>1
    <3> QED BY <3>1, <3>2
  <2> QED BY <1>1, <2>1, KeepLost
<1>8. Rosters'
  <2>1. \A d \in Clients : Lists(Moment, d) => Lists(Moment', d)
      BY <1>3
  <2>2. crossed = {} /\ (\A d \in Clients : Clean(d)) /\ Counted(Moment) => Counted(Moment')
      BY <1>3
  <2>3. ASSUME NEW d \in Clients \ crossed, Clean(d) PROVE Clean(d)'
    <3>1. CASE d = c
      <4>1. /\ Alone(Moment', c) /\ ~ Due(c)' /\ ~ Orphan(c)'
            /\ session'[c] \in {"out", "gone"} => c \notin live' /\ home'[c] = None
          BY <1>2, <1>3, <1>4, <2>3, <3>1
      <4> QED BY <3>1, <4>1 DEF Clean, Alone
    <3>2. CASE d # c
      <4>1. /\ d \in Clients /\ home'[d] = home[d] /\ session'[d] = session[d]
            /\ Alone(Moment, d) => Alone(Moment', d)
            /\ d \in live' => d \in live
            /\ Due(d)' => Due(d)
            /\ Orphan(d)' => Orphan(d)
          BY <1>2, <1>3, <1>4, <2>3, <3>2
      <4> QED BY <2>3, <4>1, KeepClean
    <3> QED BY <3>1, <3>2
  <2> QED BY <1>1, <2>1, <2>2, <2>3, KeepRosters
<1> QED
    BY <1>2, <1>5, <1>6, <1>7, <1>8 DEF Core

\* kick touches the session of one miner, and none goes by it.
LEMMA KickIs ==
    ASSUME session \in [Clients -> {"out", "in", "kicked", "gone"}], NEW c \in Clients, Kick(c)
    PROVE  /\ session' \in [Clients -> {"out", "in", "kicked", "gone"}]
           /\ \A d \in Clients \ {c} : session'[d] = session[d]
           /\ \A d \in Clients : session'[d] \in {"out", "gone"} => session[d] \in {"out", "gone"}
<1> QED
    BY DEF Kick

LEMMA StepAttached ==
    ASSUME IInv, Remembers, RunAttached
    PROVE  Core'
<1>1. /\ Typed /\ todo # <<>> /\ Head(todo).op = "settled" /\ todo' = Tail(todo)
      /\ Head(todo).task.kind \in Attaching
      /\ UNCHANGED <<links, phase, job, closed, waiting>>
    BY DEF IInv, RunAttached
<1>2. Head(todo).task \in Task /\ Head(todo).on \in LinkIds \union {None}
    BY <1>1, HeadParts
<1>3. PICK c \in Clients : c = Head(todo).task.client
    BY <1>2, TaskParts
<1>4. PICK l \in LinkIds \union {None} : l = Head(todo).on
    BY <1>2
<1>5. /\ Moment \in MomentType /\ job \in [LinkIds -> 0 .. MaxJobs] /\ live \in SUBSET Clients
      /\ session \in [Clients -> {"out", "in", "kicked", "gone"}]
    BY <1>1 DEF Typed
<1>6. Moment.home = home /\ Moment.left = left
    BY MomentFields
<1>7. Clean(c) => Alone(Moment, c) /\ home[c] = None
  <2>1. Due(c)
      BY <1>1, <1>3, HeadSettled DEF IInv
  <2> QED BY <2>1 DEF Clean
<1>8. CASE l # None /\ c \in live /\ left[l] > 0 /\ job[l] > 0
  <2>1. l \in LinkIds
      BY <1>8
  <2>2. PICK h \in MomentType : h = House(Moment, l, c) /\ h.left = left
    <3>1. PICK n \in MomentType : n = Moment
        BY <1>5
    <3>2. PICK h : h = House(n, l, c)
        OBVIOUS
    <3>3. /\ h \in MomentType
          /\ h.clients = [n.clients EXCEPT ![l] = n.clients[l] \union {c}]
          /\ h.load = [n.load EXCEPT ![l] = n.load[l] + 1]
          /\ h.home = [n.home EXCEPT ![c] = l]
          /\ h.left = n.left /\ h.has = n.has
        BY <2>1, <3>2, HouseIs
    <3> QED BY <1>6, <3>1, <3>2, <3>3
  <2>3. /\ \A d \in Clients : Lists(Moment, d) => Lists(h, d)
        /\ \A d \in Clients \ {c} : Alone(Moment, d) => Alone(h, d)
        /\ Alone(Moment, c) /\ Moment.home[c] = None => Alone(h, c)
        /\ Counted(Moment) /\ Alone(Moment, c) /\ Moment.home[c] = None => Counted(h)
        /\ h.home[c] = l
        /\ \A d \in Clients \ {c} : h.home[d] = Moment.home[d]
      BY <1>5, <2>1, <2>2, HouseKeeps
  <2>4. PICK m \in MomentType : /\ m = Grant(h, l, c)
                                /\ m.clients = h.clients /\ m.load = h.load /\ m.home = h.home
      BY <1>5, <1>8, <2>1, <2>2, GrantIs
  <2>5. Become(m) /\ live' = live /\ session' = session
      BY <1>3, <1>4, <1>8, <2>2, <2>4 DEF RunAttached
  <2>6. /\ \A d \in Clients : Lists(Moment, d) => Lists(m, d)
        /\ \A d \in Clients \ {c} : Alone(Moment, d) => Alone(m, d)
        /\ Clean(c) => Alone(m, c) /\ (Counted(Moment) => Counted(m))
        /\ m.home[c] # None
        /\ \A d \in Clients \ {c} : m.home[d] = home[d]
    <3>1. /\ \A d \in Clients : Lists(h, d) <=> Lists(m, d)
          /\ \A d \in Clients : Alone(h, d) <=> Alone(m, d)
          /\ Counted(h) <=> Counted(m)
        BY <2>4 DEF Lists, Alone, Counted
    <3> QED BY <1>6, <1>7, <1>8, <2>3, <2>4, <3>1
  <2>7. Clean(c) => ~ (session'[c] \in {"out", "gone"})
      BY <1>8, <2>5 DEF Clean
  <2> QED BY <1>1, <1>3, <1>5, <2>5, <2>6, <2>7, OnePlaced
<1>9. CASE ~ (l # None /\ c \in live /\ left[l] > 0 /\ job[l] > 0)
  <2>1. PICK h \in MomentType :
            /\ h = IF l # None /\ c \in live THEN House(Moment, l, c) ELSE Moment
            /\ \A d \in Clients : Lists(Moment, d) => Lists(h, d)
            /\ \A d \in Clients \ {c} : Alone(Moment, d) => Alone(h, d)
            /\ Clean(c) => Alone(h, c) /\ (Counted(Moment) => Counted(h))
            /\ \A d \in Clients \ {c} : h.home[d] = home[d]
    <3>1. CASE l # None /\ c \in live
      <4>1. PICK h : h = House(Moment, l, c)
          OBVIOUS
      <4>2. h \in MomentType
          BY <1>5, <3>1, <4>1, HouseIs
      <4>3. /\ \A d \in Clients : Lists(Moment, d) => Lists(h, d)
            /\ \A d \in Clients \ {c} : Alone(Moment, d) => Alone(h, d)
            /\ Alone(Moment, c) /\ Moment.home[c] = None => Alone(h, c)
            /\ Counted(Moment) /\ Alone(Moment, c) /\ Moment.home[c] = None => Counted(h)
            /\ h.home[c] = l
            /\ \A d \in Clients \ {c} : h.home[d] = Moment.home[d]
          BY <1>5, <3>1, <4>1, HouseKeeps
      <4> QED BY <1>6, <1>7, <3>1, <4>1, <4>2, <4>3
    <3>2. CASE ~ (l # None /\ c \in live)
        BY <1>5, <1>6, <1>7, <3>2
    <3> QED BY <3>1, <3>2
  <2>2. PICK e : e = Evict(h, c)
      OBVIOUS
  <2>3. /\ \A d \in Clients : Lists(h, d) => Lists(e, d)
        /\ \A d \in Clients : Alone(h, d) => Alone(e, d)
        /\ Counted(h) /\ Alone(h, c) => Counted(e)
        /\ e.home[c] = None
        /\ \A d \in Clients \ {c} : e.home[d] = h.home[d]
      BY <2>2, EvictKeeps
  <2>4. PICK m \in MomentType : /\ m = Gone(h, c)
                                /\ m.clients = e.clients /\ m.load = e.load /\ m.home = e.home
      BY <2>2, GoneIs
  <2>5. /\ \A d \in Clients : Lists(e, d) <=> Lists(m, d)
        /\ \A d \in Clients : Alone(e, d) <=> Alone(m, d)
        /\ Counted(e) <=> Counted(m)
      BY <2>4 DEF Lists, Alone, Counted
  <2>6. /\ \A d \in Clients : Lists(Moment, d) => Lists(m, d)
        /\ \A d \in Clients \ {c} : Alone(Moment, d) => Alone(m, d)
        /\ Clean(c) => Alone(m, c) /\ (Counted(Moment) => Counted(m))
        /\ m.home[c] = None
        /\ \A d \in Clients \ {c} : m.home[d] = home[d]
      BY <2>1, <2>3, <2>4, <2>5
  <2>7. /\ Become(m) /\ live' = live \ {c}
        /\ Kick(c) \/ session' = [session EXCEPT ![c] = "gone"]
      BY <1>3, <1>4, <1>9, <2>1, <2>4 DEF RunAttached
  <2>8. /\ session' \in [Clients -> {"out", "in", "kicked", "gone"}]
        /\ \A d \in Clients \ {c} : session'[d] = session[d]
      BY <1>5, <2>7, KickIs
  <2>9. live' \in SUBSET Clients /\ c \notin live' /\ \A d \in live' : d \in live
      BY <1>5, <2>7
  <2> QED BY <1>1, <1>3, <2>6, <2>7, <2>8, <2>9, OnePlaced
<1> QED
    BY <1>8, <1>9

LEMMA StepMigrated ==
    ASSUME IInv, Remembers, RunMigrated
    PROVE  Core'
<1>1. /\ Typed /\ todo # <<>> /\ Head(todo).op = "settled" /\ todo' = Tail(todo)
      /\ Head(todo).task.kind \notin Attaching
      /\ UNCHANGED <<links, phase, job, live, closed, waiting>>
    BY DEF IInv, RunMigrated
<1>2. Head(todo).task \in Task /\ Head(todo).on \in LinkIds \union {None}
    BY <1>1, HeadParts
<1>3. PICK c \in Clients : c = Head(todo).task.client
    BY <1>2, TaskParts
<1>4. PICK l \in LinkIds \union {None} : l = Head(todo).on
    BY <1>2
<1>5. PICK from \in LinkIds : from = Head(todo).task.from
    BY <1>1, <1>2, TaskParts
<1>6. /\ Moment \in MomentType /\ job \in [LinkIds -> 0 .. MaxJobs] /\ live \in SUBSET Clients
      /\ session \in [Clients -> {"out", "in", "kicked", "gone"}]
    BY <1>1 DEF Typed
<1>7. Moment.home = home /\ Moment.left = left
    BY MomentFields
<1>8. PICK moved : moved = House(Evict(Moment, c), l, c)
    OBVIOUS
<1>9. \/ /\ l = None \/ c \notin live
         /\ Become(Moment) /\ (Kick(c) \/ UNCHANGED session)
      \/ /\ l # None /\ c \in live /\ left[l] > 0
         /\ Become(Grant(moved, l, c)) /\ UNCHANGED session
      \/ /\ l # None /\ c \in live /\ left[l] = 0
         /\ Become(IF phase[from] = "up" THEN House(Evict(moved, c), from, c) ELSE moved)
         /\ Kick(c) \/ UNCHANGED session
    BY <1>3, <1>4, <1>5, <1>8 DEF RunMigrated
<1>10. /\ session' \in [Clients -> {"out", "in", "kicked", "gone"}]
       /\ \A d \in Clients \ {c} : session'[d] = session[d]
       /\ \A d \in Clients : session'[d] \in {"out", "gone"} => session[d] \in {"out", "gone"}
    BY <1>6, <1>9, KickIs
<1>11. Clean(c) => /\ Alone(Moment, c)
                   /\ session'[c] \in {"out", "gone"} => c \notin live /\ home[c] = None
    BY <1>10 DEF Clean
<1>12. CASE l = None \/ c \notin live
  <2>1. Become(Moment)
      BY <1>9, <1>12
  <2>2. PICK m \in MomentType : m = Moment
      BY <1>6
  <2> QED BY <1>1, <1>3, <1>6, <1>7, <1>10, <1>11, <2>1, <2>2, OnePlaced
<1>13. CASE ~ (l = None \/ c \notin live)
  <2>1. l \in LinkIds /\ c \in live
      BY <1>13
  <2>2. /\ moved \in MomentType /\ moved.left = Moment.left
        /\ \A d \in Clients : Lists(Moment, d) => Lists(moved, d)
        /\ \A d \in Clients : Alone(Moment, d) => Alone(moved, d)
        /\ Counted(Moment) /\ Alone(Moment, c) => Counted(moved)
        /\ moved.home[c] = l
        /\ \A d \in Clients \ {c} : moved.home[d] = Moment.home[d]
      BY <1>6, <1>8, <2>1, MoveKeeps
  <2>3. PICK m \in MomentType :
            /\ Become(m)
            /\ \A d \in Clients : Lists(Moment, d) => Lists(m, d)
            /\ \A d \in Clients : Alone(Moment, d) => Alone(m, d)
            /\ Counted(Moment) /\ Alone(Moment, c) => Counted(m)
            /\ m.home[c] # None
            /\ \A d \in Clients \ {c} : m.home[d] = home[d]
    <3>1. CASE left[l] > 0
      <4>1. PICK m \in MomentType :
                /\ m = Grant(moved, l, c)
                /\ m.clients = moved.clients /\ m.load = moved.load /\ m.home = moved.home
          BY <1>6, <1>7, <2>1, <2>2, <3>1, GrantIs
      <4>2. /\ \A d \in Clients : Lists(moved, d) <=> Lists(m, d)
            /\ \A d \in Clients : Alone(moved, d) <=> Alone(m, d)
            /\ Counted(moved) <=> Counted(m)
          BY <4>1 DEF Lists, Alone, Counted
      <4>3. Become(m)
          BY <1>9, <1>13, <3>1, <4>1
      <4> QED BY <1>7, <1>13, <2>2, <4>1, <4>2, <4>3
    <3>2. CASE ~ (left[l] > 0) /\ phase[from] = "up"
      <4>1. PICK m : m = House(Evict(moved, c), from, c)
          OBVIOUS
      <4>2. /\ m \in MomentType /\ m.left = moved.left
            /\ \A d \in Clients : Lists(moved, d) => Lists(m, d)
            /\ \A d \in Clients : Alone(moved, d) => Alone(m, d)
            /\ Counted(moved) /\ Alone(moved, c) => Counted(m)
            /\ m.home[c] = from
            /\ \A d \in Clients \ {c} : m.home[d] = moved.home[d]
          BY <2>2, <4>1, MoveKeeps
      <4>3. Become(m)
          BY <1>9, <1>13, <3>2, <4>1
      <4>4. from # None
          BY NoneAssumption
      <4>5. /\ \A d \in Clients : Lists(Moment, d) => Lists(m, d)
            /\ \A d \in Clients : Alone(Moment, d) => Alone(m, d)
          BY <2>2, <4>2
      <4>6. Counted(Moment) /\ Alone(Moment, c) => Counted(m)
          BY <2>2, <4>2
      <4>7. \A d \in Clients \ {c} : m.home[d] = home[d]
          BY <1>7, <2>2, <4>2
      <4> QED BY <4>2, <4>3, <4>4, <4>5, <4>6, <4>7
    <3>3. CASE ~ (left[l] > 0) /\ phase[from] # "up"
      <4>1. Become(moved)
          BY <1>9, <1>13, <3>3
      <4> QED BY <1>7, <1>13, <2>2, <4>1
    <3> QED BY <3>1, <3>2, <3>3
  <2>4. \A d \in Clients \ {c} : m.home[d] = home[d] /\ session'[d] = session[d]
      BY <1>10, <2>3
  <2>5. Clean(c) => /\ Alone(m, c)
                    /\ Counted(Moment) => Counted(m)
                    /\ session'[c] \in {"out", "gone"} => c \notin live' /\ m.home[c] = None
      BY <1>11, <2>1, <2>3
  <2>6. live' = live /\ UNCHANGED <<links, phase, job, closed, waiting>>
      BY <1>1
  <2> QED BY <1>1, <1>3, <1>6, <1>10, <2>3, <2>4, <2>5, <2>6, OnePlaced
<1> QED
    BY <1>12, <1>13

LEMMA StepRehome ==
    ASSUME IInv, Remembers, RunRehome
    PROVE  Core'
<1>1. /\ Typed /\ RehomeFirst /\ LinksOK /\ NoneLost /\ Rosters
      /\ todo # <<>> /\ Head(todo).op = "rehome"
    BY DEF IInv, RunRehome
<1>2. /\ Head(todo) \in Work /\ Tail(todo) \in Seq(Work)
      /\ Items(todo) = {Head(todo)} \union Items(Tail(todo))
    BY <1>1, HeadParts
<1>3. PICK h \in Work : h = Head(todo)
    BY <1>2
<1>4. h.op = "rehome" /\ h.clients \in SUBSET Clients
    BY <1>1, <1>3, WorkParts
<1>5. PICK c \in h.clients :
          /\ TurnTo([kind |-> "rehome", client |-> c, from |-> None], RehomeCall(h.clients \ {c}))
          /\ live' = live \union {c}
    BY <1>3 DEF RunRehome
<1>6. PICK next \in Work : /\ next = RehomeCall(h.clients \ {c}) /\ next.op = "rehome"
                           /\ next.clients = h.clients \ {c}
    BY <1>4, WorkMade
<1>7. c \in Clients
    BY <1>4
<1>8. PICK t \in Task : /\ t = [kind |-> "rehome", client |-> c, from |-> None]
                        /\ t.client = c /\ t.kind \in Attaching
  <2>1. PICK t : t = [kind |-> "rehome", client |-> c, from |-> None]
      OBVIOUS
  <2>2. "rehome" \in Attaching
      BY DEF Attaching
  <2> QED BY <1>7, <2>1, <2>2, AttachMade
<1>9. PICK p \in Work : p = PickCall(t) /\ p.op = "pick" /\ p.task = t
    BY WorkMade
<1>10. TurnTo(t, next)
    BY <1>5, <1>6, <1>8
<1>11. /\ todo' \in Seq(Work) /\ todo' # <<>> /\ todo'[1] = p
       /\ Items(todo') = {p} \union (IF next.clients = {} THEN {} ELSE {next})
                            \union Items(Tail(todo))
       /\ \A i \in DOMAIN todo' :
             i = 1 \/ (i = 2 /\ next.clients # {}) \/ todo'[i] \in Items(Tail(todo))
  <2>1. /\ todo' \in Seq(Work) /\ todo' # <<>> /\ todo'[1] = PickCall(t)
        /\ Items(todo') = {PickCall(t)} \union (IF next.clients = {} THEN {} ELSE {next})
                             \union Items(Tail(todo))
        /\ \A i \in DOMAIN todo' :
              i = 1 \/ (i = 2 /\ next.clients # {}) \/ todo'[i] \in Items(Tail(todo))
      BY <1>1, <1>10, TurnIs
  <2> QED BY <1>9, <2>1
<1>12. \A x \in Items(Tail(todo)) : x.op # "rehome"
  <2>1. todo \in Seq(Work) /\ Len(todo) \in Nat
      BY <1>1, SeqParts DEF Typed
  <2>2. /\ Head(todo) = todo[1] /\ DOMAIN Tail(todo) = 1 .. (Len(todo) - 1)
        /\ \A i \in DOMAIN Tail(todo) : Tail(todo)[i] = todo[i + 1] /\ i + 1 \in DOMAIN todo
      BY <1>1, <2>1, SeqTail
  <2>3. \A i \in DOMAIN todo : todo[i].op = "rehome" => i = 1
      BY <1>1, <2>2 DEF RehomeFirst
  <2>4. \A i \in DOMAIN Tail(todo) : i + 1 # 1
      BY <2>1, <2>2
  <2> QED BY <2>2, <2>3, <2>4 DEF Items
<1>13. RehomeFirst'
    BY <1>9, <1>11, <1>12 DEF RehomeFirst
<1>14. UNCHANGED <<link, home, session, has, closed, waiting>>
    BY DEF RunRehome
<1>15. /\ links' = links /\ phase' = phase /\ job' = job /\ clients' = clients /\ load' = load
       /\ home' = home /\ session' = session /\ closed' = closed /\ waiting' = waiting
       /\ Moment' = Moment
    BY <1>14 DEF link, Moment
<1>16. live' \in SUBSET Clients
    BY <1>1, <1>5, <1>7 DEF Typed
<1>17. Typed'
    BY <1>1, <1>11, <1>15, <1>16, TypedStep DEF Typed
<1>18. LinksOK'
    BY <1>1, <1>15, LinksSame
<1>19. /\ \A d : Orphan(d) <=> d \in h.clients
       /\ \A d : Orphan(d)' <=> d \in h.clients \ {c}
       /\ \A d : Due(d)' <=> Due(d) \/ d = c
  <2>1. \A d : Orphan(d) <=> d \in h.clients
      BY <1>2, <1>3, <1>4, <1>12 DEF Orphan
  <2>2. \A x \in Items(todo') : x = p \/ x = next \/ x \in Items(Tail(todo))
      BY <1>11
  <2>3. next.clients # {} => next \in Items(todo')
      BY <1>11
  <2>4. \A d : Orphan(d)' <=> d \in h.clients \ {c}
      BY <1>6, <1>9, <1>12, <2>2, <2>3, DuePrime
  <2>5. p \in Items(todo') /\ Items(Tail(todo)) \subseteq Items(todo')
      BY <1>11
  <2>6. \A d : /\ AttachItem(p, d) <=> d = c
               /\ ~ AttachItem(next, d) /\ ~ AttachItem(Head(todo), d)
      BY <1>1, <1>6, <1>8, <1>9 DEF AttachItem, AttachTask
  <2>7. ASSUME NEW d PROVE Due(d)' <=> Due(d) \/ d = c
    <3>1. (\E x \in Items(todo') : AttachItem(x, d)) <=>
             (\E x \in Items(todo) : AttachItem(x, d)) \/ d = c
        BY <1>2, <2>2, <2>5, <2>6
    <3>2. Due(d)' <=> \/ \E x \in Items(todo') : AttachItem(x, d)
                      \/ \E l \in LinkIds : \E w \in Items(waiting[l]) : AttachTask(w.task, d)
        BY <1>15, DuePrime
    <3> QED BY <3>1, <3>2 DEF Due
  <2> QED BY <2>1, <2>4, <2>7, Zenon
<1>20. NoneLost'
    BY <1>1, <1>5, <1>15, <1>16, <1>19, KeepLost
<1>21. Rosters'
  <2>1. ASSUME NEW d \in Clients, Clean(d) PROVE Clean(d)'
    <3>1. CASE d = c
        BY <1>15, <1>19, <2>1, <3>1 DEF Clean, Alone
    <3>2. CASE d # c
        BY <1>5, <1>15, <1>19, <2>1, <3>2, KeepClean
    <3> QED BY <3>1, <3>2
  <2> QED BY <1>1, <1>15, <2>1, KeepRosters
<1> QED
    BY <1>13, <1>17, <1>18, <1>20, <1>21 DEF Core

-----------------------------------------------------------------------------
(* A link goes.                                                             *)

LEMMA WithoutIs ==
    ASSUME NEW s \in Seq(LinkIds), \A i, k \in DOMAIN s : i # k => s[i] # s[k],
           NEW l, NEW t, t = Without(s, l)
    PROVE  /\ t \in Seq(LinkIds) /\ Len(t) <= Len(s)
           /\ \A i, k \in DOMAIN t : i # k => t[i] # t[k]
           /\ Items(t) \subseteq Items(s)
<1>1. Len(s) \in Nat /\ DOMAIN s = 1 .. Len(s) /\ \A i \in DOMAIN s : s[i] \in LinkIds
    BY SeqParts
<1>2. CASE \A i \in DOMAIN s : s[i] # l
    BY <1>1, <1>2 DEF Without
<1>3. CASE ~ \A i \in DOMAIN s : s[i] # l
  <2> DEFINE index == CHOOSE i \in DOMAIN s : s[i] = l
             at(k) == IF k < index THEN k ELSE k + 1
  <2>1. index \in 1 .. Len(s)
      BY <1>1, <1>3
  <2>2. t = [k \in 1 .. Len(s) - 1 |-> IF k < index THEN s[k] ELSE s[k + 1]]
      BY <1>3 DEF Without
  <2> HIDE DEF index
  <2>3. \A k \in 1 .. Len(s) - 1 : at(k) \in DOMAIN s /\ t[k] = s[at(k)]
      BY <1>1, <2>1, <2>2
  <2>4. \A j, k \in 1 .. Len(s) - 1 : j # k => at(j) # at(k)
      BY <1>1, <2>1
  <2>5. DOMAIN t = 1 .. Len(s) - 1
      BY <2>2
  <2>6. Len(s) - 1 \in Nat
      BY <1>1, <2>1
  <2> HIDE DEF at
  <2>7. t \in [1 .. Len(s) - 1 -> LinkIds]
      BY <1>1, <2>2, <2>3
  <2>8. t \in Seq(LinkIds) /\ Len(t) = Len(s) - 1
      BY <2>5, <2>6, <2>7
  <2>9. \A i, k \in DOMAIN t : i # k => t[i] # t[k]
      BY <2>3, <2>4, <2>5
  <2>10. Items(t) \subseteq Items(s)
      BY <2>3, <2>5 DEF Items
  <2> QED BY <1>1, <2>8, <2>9, <2>10
<1> QED
    BY <1>2, <1>3

\* A link that leaves the list connects no more.
LEMMA LinksWithout ==
    ASSUME Typed, LinksOK, NEW l \in LinkIds, links' = Without(links, l),
           phase' = [phase EXCEPT ![l] = "down"]
    PROVE  /\ LinksOK' /\ links' \in Seq(LinkIds)
           /\ \A i, k \in DOMAIN links' : i # k => links'[i] # links'[k]
<1>1. /\ links \in Seq(LinkIds) /\ \A i, k \in DOMAIN links : i # k => links[i] # links[k]
      /\ phase \in [LinkIds -> {"tcp", "login", "up", "down"}]
    BY DEF Typed
<1>2. PICK t : t = Without(links, l)
    OBVIOUS
<1>3. /\ t \in Seq(LinkIds) /\ Len(t) <= Len(links)
      /\ \A i, k \in DOMAIN t : i # k => t[i] # t[k]
      /\ Items(t) \subseteq Items(links)
    BY <1>1, <1>2, WithoutIs
<1>4. links' = t
    BY <1>2
<1>5. Len(t) \in Nat /\ Len(links) \in Nat
    BY <1>1, <1>3, SeqParts
<1>6. Len(links') <= MaxLinks
    BY <1>3, <1>4, <1>5, UpstreamAssumption DEF LinksOK
<1>7. Listed' \subseteq Listed /\ Listed \subseteq LinkIds
  <2>1. Listed = Items(links) /\ Listed' = Items(t)
      BY <1>4 DEF Listed, Items
  <2> QED BY <1>3, <2>1, TypedParts
<1>8. \A k \in LinkIds : phase'[k] \in {"tcp", "login"} => phase[k] \in {"tcp", "login"}
    BY <1>1
<1>9. Connecting' \subseteq Connecting
    BY <1>7, <1>8 DEF Connecting
<1>10. OneConnects'
    BY <1>9 DEF OneConnects, LinksOK
<1> QED
    BY <1>3, <1>4, <1>6, <1>10 DEF LinksOK

\* The attach calls in a list of work and in what awaits the links after the step.
AttachedIn(rest, d) ==
    \/ \E x \in Items(rest) : AttachItem(x, d)
    \/ \E k \in LinkIds : \E w \in Items(waiting'[k]) : AttachTask(w.task, d)

\* A link that is lost: no attach call is, and its miners are orphans.
LEMMA Severed ==
    ASSUME Typed, LinksOK, NoneLost, Rosters, Remembers,
           \A x \in Items(todo) : x.op # "rehome",
           NEW l \in LinkIds, NEW rest \in Seq(Work), Sever(l, rest),
           \A x \in Items(rest) : x.op # "rehome",
           waiting' \in [LinkIds -> Seq(Waiter)], waiting'[l] = <<>>,
           \A k \in LinkIds : k # l => waiting'[k] = waiting[k],
           \A d : Due(d) <=> AttachedIn(rest, d)
    PROVE  Core'
<1>1. PICK cs \in SUBSET Clients : cs = clients[l]
    BY TypedParts
<1>2. /\ links' = Without(links, l)
      /\ phase' = [phase EXCEPT ![l] = "down"]
      /\ job' = [job EXCEPT ![l] = 0]
      /\ load' = [load EXCEPT ![l] = 0]
      /\ clients' = [clients EXCEPT ![l] = {}]
      /\ home' = Orphaned(cs)
      /\ todo' = IF cs = {} THEN rest ELSE <<RehomeCall(cs)>> \o rest
      /\ closed' \in BOOLEAN /\ (closed => closed')
      /\ left' = left /\ idle' = idle /\ live' = live /\ session' = session /\ has' = has
    BY <1>1 DEF Sever, Typed
<1>3. /\ LinksOK' /\ links' \in Seq(LinkIds)
      /\ \A i, k \in DOMAIN links' : i # k => links'[i] # links'[k]
    BY <1>2, LinksWithout
<1>4. PICK r \in Work : r = RehomeCall(cs) /\ r.op = "rehome" /\ r.clients = cs
    BY WorkMade
<1>5. /\ todo' \in Seq(Work)
      /\ Items(todo') = Items(rest) \union (IF cs = {} THEN {} ELSE {r})
      /\ \A i \in DOMAIN todo' : i = 1 \/ todo'[i] \in Items(rest)
  <2>1. CASE cs = {}
    <3>1. todo' = rest
        BY <1>2, <2>1
    <3>2. \A i \in DOMAIN rest : rest[i] \in Items(rest)
        BY DEF Items
    <3> QED BY <2>1, <3>1, <3>2
  <2>2. CASE cs # {}
    <3>1. PICK u : u = Atop(r, rest)
        OBVIOUS
    <3>2. /\ u \in Seq(Work) /\ u # <<>> /\ u[1] = r
          /\ Items(u) = {r} \union Items(rest)
          /\ \A i \in DOMAIN u : i = 1 \/ u[i] \in Items(rest)
      <4>1. Led(u, r, rest)
          BY <3>1, OneBefore
      <4> QED BY <4>1 DEF Led
    <3>3. todo' = <<RehomeCall(cs)>> \o rest
        BY <1>2, <2>2
    <3>4. todo' = u
        BY <1>4, <3>1, <3>3 DEF Atop
    <3> QED BY <2>2, <3>2, <3>4
  <2> QED BY <2>1, <2>2
<1>6. RehomeFirst'
    BY <1>5 DEF RehomeFirst
<1>7. /\ clients \in [LinkIds -> SUBSET Clients] /\ load \in [LinkIds -> Nat]
      /\ home \in [Clients -> LinkIds \union {None}]
    BY TypedParts
<1>8. /\ clients'[l] = {} /\ load'[l] = 0
      /\ \A k \in LinkIds : k # l => clients'[k] = clients[k] /\ load'[k] = load[k]
      /\ \A d \in Clients : home'[d] = IF d \in cs THEN None ELSE home[d]
      /\ home' \in [Clients -> LinkIds \union {None}]
    BY <1>2, <1>7 DEF Orphaned
<1>9. Moment' \in MomentType
  <2>1. /\ clients' \in [LinkIds -> SUBSET Clients] /\ load' \in [LinkIds -> Nat]
      BY <1>2, <1>7
  <2>2. /\ left' \in [LinkIds -> 0 .. Units]
        /\ has' \in [Clients -> (LinkIds \union {None}) \X Nat]
      BY <1>2, TypedParts
  <2>3. idle' \in [LinkIds -> BOOLEAN]
      BY <1>2, TypedParts
  <2> QED BY <1>8, <2>1, <2>2, <2>3 DEF Moment, MomentType
<1>10. Typed'
  <2>1. /\ phase' \in [LinkIds -> {"tcp", "login", "up", "down"}]
        /\ phase'[l] = "down" /\ \A k \in LinkIds : k # l => phase'[k] = phase[k]
        /\ job' \in [LinkIds -> 0 .. MaxJobs]
      BY <1>2, UpstreamAssumption DEF Typed
  <2>2. Awaited'
      BY <2>1 DEF Typed, Awaited
  <2> QED BY <1>2, <1>3, <1>5, <1>9, <2>1, <2>2 DEF Typed, Remembers
<1>11. /\ \A d : ~ Orphan(d)
       /\ \A d : Orphan(d)' <=> d \in cs
       /\ \A d : Due(d)' <=> Due(d)
  <2>1. \A d : ~ Orphan(d)
      BY DEF Orphan
  <2>2. \A d : Orphan(d)' <=> d \in cs
      BY <1>4, <1>5, DuePrime
  <2>3. \A d : ~ AttachItem(r, d)
      BY <1>4 DEF AttachItem
  <2>4. \A d : Due(d)' <=> AttachedIn(rest, d)
      BY <1>5, <2>3, DuePrime DEF AttachedIn
  <2> QED BY <2>1, <2>2, <2>4, Zenon
<1>12. NoneLost'
  <2>1. live' \in SUBSET Clients
      BY <1>2 DEF Typed
  <2>2. ASSUME NEW d \in live'
        PROVE  \/ home'[d] # None \/ Due(d)' \/ Orphan(d)'
               \/ d \in live /\ home'[d] = home[d] /\ (Due(d) => Due(d)')
                  /\ (Orphan(d) => Orphan(d)')
      BY <1>2, <1>8, <1>11, <2>1
  <2> QED BY <2>1, <2>2, KeepLost
<1>13. Rosters'
  <2>1. /\ Moment'.clients = clients' /\ Moment'.load = load' /\ Moment'.home = home'
        /\ Moment.clients = clients /\ Moment.load = load /\ Moment.home = home
      BY DEF Moment
  <2>2. ASSUME NEW d \in Clients, Lists(Moment, d) PROVE Lists(Moment', d)
    <3>1. home[d] # None => d \in clients[home[d]]
        BY <2>1, <2>2 DEF Lists
    <3>2. home'[d] # None => home'[d] = home[d] /\ home[d] # l /\ home[d] \in LinkIds
        BY <1>1, <1>7, <1>8, <3>1
    <3>3. home'[d] # None => d \in clients'[home'[d]]
        BY <1>8, <3>1, <3>2
    <3> QED BY <2>1, <3>3 DEF Lists
  <2>3. None \notin LinkIds
      BY NoneAssumption
  <2>4. Counted(Moment) => Counted(Moment')
    <3>1. IsFiniteSet({}) /\ Cardinality({}) = 0
        BY FS_EmptySet
    <3> QED BY <1>8, <2>1, <3>1 DEF Counted
  <2>5. ASSUME NEW d \in Clients, Clean(d) PROVE Clean(d)'
    <3>1. /\ \A k \in LinkIds : d \in clients[k] <=> home[d] = k
          /\ Due(d) => home[d] = None
          /\ session[d] \in {"out", "gone"} => d \notin live /\ home[d] = None
        BY <2>1, <2>5 DEF Clean, Alone
    <3>2. \A k \in LinkIds : d \in clients'[k] <=> home'[d] = k
        BY <1>1, <1>8, <2>3, <3>1
    <3>3. d \in cs => home[d] = l
        BY <1>1, <3>1
    <3>4. /\ Due(d)' \/ Orphan(d)' => home'[d] = None
          /\ session'[d] \in {"out", "gone"} => d \notin live' /\ home'[d] = None /\ ~ Orphan(d)'
        BY <1>2, <1>8, <1>11, <2>3, <3>1, <3>3
    <3> QED BY <2>1, <3>2, <3>4 DEF Clean, Alone
  <2> QED BY <1>2, <2>2, <2>4, <2>5, KeepRosters
<1> QED
    BY <1>3, <1>6, <1>10, <1>12, <1>13 DEF Core

\* Nothing awaits the link any more.
Emptied(l) == waiting' = [waiting EXCEPT ![l] = <<>>]

\* What awaits a link goes on.
LEMMA Resumes ==
    ASSUME Typed, Idle, NEW l \in LinkIds, NEW on \in LinkIds \union {None},
           Emptied(l), NEW r, r = Resumed(l, on)
    PROVE  /\ r \in Seq(Work) /\ \A x \in Items(r) : x.op # "rehome"
           /\ \A d : Due(d) <=> AttachedIn(r, d)
           /\ waiting' \in [LinkIds -> Seq(Waiter)] /\ waiting'[l] = <<>>
           /\ \A k \in LinkIds : k # l => waiting'[k] = waiting[k]
<1>1. waiting \in [LinkIds -> Seq(Waiter)]
    BY DEF Typed
<1>2. /\ waiting' \in [LinkIds -> Seq(Waiter)] /\ waiting'[l] = <<>>
      /\ \A k \in LinkIds : k # l => waiting'[k] = waiting[k]
    BY <1>1 DEF Emptied
<1>3. PICK s \in Seq(Waiter) : s = waiting[l]
    BY <1>1
<1>4. Len(s) \in Nat /\ DOMAIN s = 1 .. Len(s) /\ \A i \in DOMAIN s : s[i] \in Waiter
    BY SeqParts
<1>5. /\ DOMAIN r = 1 .. Len(s)
      /\ \A i \in 1 .. Len(s) : r[i] = Settled(s[i].task, on) \/ r[i] = PickCall(s[i].task)
    BY <1>3, <1>4 DEF Resumed
<1>6. \A i \in DOMAIN s : s[i].task \in Task
    BY <1>4 DEF Waiter
<1>7. \A i \in 1 .. Len(s) :
          r[i] \in Work /\ r[i].op \in {"pick", "settled"} /\ r[i].task = s[i].task
    BY <1>4, <1>5, <1>6, WorkMade
<1>8. r \in Seq(Work)
  <2>1. r = [i \in 1 .. Len(s) |-> r[i]]
      BY <1>3, <1>4 DEF Resumed
  <2>2. r \in [1 .. Len(s) -> Work]
      BY <1>7, <2>1
  <2> QED BY <1>4, <2>2
<1>9. \A x \in Items(r) : x.op # "rehome"
    BY <1>5, <1>7 DEF Items
<1>10. \A d : (\E x \in Items(r) : AttachItem(x, d)) <=> (\E w \in Items(s) : AttachTask(w.task, d))
    BY <1>4, <1>5, <1>7 DEF Items, AttachItem
<1>11. \A x : x \notin Items(todo)
    BY DEF Idle, Items
<1>12. Items(<<>>) = {}
    BY DEF Items
<1>13. ASSUME NEW d PROVE Due(d) <=> AttachedIn(r, d)
  <2>1. Due(d) <=> \E k \in LinkIds : \E w \in Items(waiting[k]) : AttachTask(w.task, d)
      BY <1>11 DEF Due
  <2>2. (\E k \in LinkIds : \E w \in Items(waiting[k]) : AttachTask(w.task, d)) <=>
            \/ \E w \in Items(s) : AttachTask(w.task, d)
            \/ \E k \in LinkIds : \E w \in Items(waiting'[k]) : AttachTask(w.task, d)
      BY <1>2, <1>3, <1>12
  <2> QED BY <1>10, <2>1, <2>2 DEF AttachedIn
<1> QED
    BY <1>2, <1>8, <1>9, <1>13

-----------------------------------------------------------------------------
(* The sweep of rebalance, and links that are lost.                         *)

\* A plain item goes from the head of todo, and another may take its place.
LEMMA PlainHead ==
    ASSUME Typed, todo # <<>>, Plain(Head(todo)), NEW x \in Work, Plain(x),
           todo' = Tail(todo) \/ todo' = <<x>> \o Tail(todo)
    PROVE  PlainlyChanged /\ todo' \in Seq(Work)
<1>1. /\ Head(todo) \in Work /\ Tail(todo) \in Seq(Work)
      /\ Items(todo) = {Head(todo)} \union Items(Tail(todo))
    BY HeadParts
<1>2. PICK rest \in Seq(Work) : rest = Tail(todo)
    BY <1>1
<1>3. PICK u : u = Atop(x, rest)
    OBVIOUS
<1>4. /\ u \in Seq(Work) /\ u # <<>> /\ u[1] = x
      /\ Items(u) = {x} \union Items(rest)
      /\ \A i \in DOMAIN u : i = 1 \/ u[i] \in Items(rest)
  <2>1. Led(u, x, rest)
      BY <1>3, OneBefore
  <2> QED BY <2>1 DEF Led
<1>5. todo' = rest \/ todo' = u
    BY <1>2, <1>3 DEF Atop
<1>6. PICK B : B = {Head(todo), x}
    OBVIOUS
<1>7. /\ \A y \in B : Plain(y)
      /\ Items(todo) \subseteq Items(todo') \union B
      /\ Items(todo') \subseteq Items(todo) \union B
    BY <1>1, <1>2, <1>4, <1>5, <1>6
<1> QED
    BY <1>2, <1>4, <1>5, <1>7 DEF PlainlyChanged

LEMMA StepSweep ==
    ASSUME IInv, Remembers, RunSweep
    PROVE  Core'
<1>1. /\ Typed /\ RehomeFirst /\ LinksOK /\ NoneLost /\ Rosters
      /\ todo # <<>> /\ Head(todo).op = "sweep" /\ waiting' = waiting
    BY DEF IInv, RunSweep
<1>2. /\ Head(todo) \in Work /\ Tail(todo) \in Seq(Work)
      /\ Items(todo) = {Head(todo)} \union Items(Tail(todo))
    BY <1>1, HeadParts
<1>3. PICK l \in LinkIds : l = Head(todo).on
    BY <1>1, <1>2, WorkParts
<1>4. Plain(Head(todo)) /\ \A x \in Items(todo) : x.op # "rehome"
    BY <1>1, NoRehome DEF Plain, AttachItem
<1>5. /\ clients[l] \in SUBSET Clients /\ idle \in [LinkIds -> BOOLEAN]
      /\ Moment \in MomentType /\ phase \in [LinkIds -> {"tcp", "login", "up", "down"}]
      /\ session \in [Clients -> {"out", "in", "kicked", "gone"}]
    BY <1>1, TypedParts DEF Typed
<1>6. ASSUME NEW some \in SUBSET clients[l], NEW b \in BOOLEAN,
             idle' = [idle EXCEPT ![l] = b],
             todo' = IF some = {} THEN Tail(todo) ELSE <<MoveCall(l, some)>> \o Tail(todo),
             UNCHANGED <<links, phase, job, left, clients, load, who, closed>>
      PROVE  Core'
  <2>1. PICK x \in Work : x = MoveCall(l, some) /\ Plain(x)
      BY <1>5, WorkMade, PlainItems
  <2>2. todo' = Tail(todo) \/ todo' = <<x>> \o Tail(todo)
      BY <1>6, <2>1
  <2>3. PlainlyChanged /\ todo' \in Seq(Work)
      BY <1>1, <1>4, <2>1, <2>2, PlainHead
  <2>4. /\ links' = links /\ phase' = phase /\ job' = job /\ left' = left /\ clients' = clients
        /\ load' = load /\ home' = home /\ live' = live /\ session' = session /\ has' = has
        /\ closed' = closed
      BY <1>6 DEF who
  <2>5. idle' \in [LinkIds -> BOOLEAN]
      BY <1>5, <1>6
  <2>6. Moment' \in MomentType /\ Moment'.clients = clients /\ Moment'.load = load
    <3>1. /\ left' \in [LinkIds -> 0 .. Units] /\ load' \in [LinkIds -> Nat]
          /\ clients' \in [LinkIds -> SUBSET Clients] /\ home' \in [Clients -> LinkIds \union {None}]
          /\ has' \in [Clients -> (LinkIds \union {None}) \X Nat]
        BY <1>1, <2>4, TypedParts
    <3> QED BY <2>4, <2>5, <3>1 DEF Moment, MomentType
  <2> QED BY <1>1, <1>4, <1>5, <2>3, <2>4, <2>6, PlainStep
<1>7. CASE /\ clients[l] = {}
           /\ idle' = [idle EXCEPT ![l] = TRUE]
           /\ todo' = Tail(todo)
           /\ UNCHANGED <<links, phase, job, left, clients, load, who, closed>>
  <2>1. PICK some \in SUBSET clients[l] : some = {}
      OBVIOUS
  <2> QED BY <1>6, <1>7, <2>1
<1>8. CASE /\ clients[l] # {}
           /\ idle' = [idle EXCEPT ![l] = FALSE]
           /\ \E some \in SUBSET clients[l] :
                 /\ some # {} => Moves
                 /\ todo' = IF some = {} THEN Tail(todo)
                            ELSE <<MoveCall(l, some)>> \o Tail(todo)
           /\ UNCHANGED <<links, phase, job, left, clients, load, who, closed>>
    BY <1>6, <1>8
<1>9. CASE clients[l] = {} /\ idle[l] /\ phase[l] = "up" /\ Sever(l, Tail(todo))
  <2>1. PICK rest \in Seq(Work) : rest = Tail(todo)
      BY <1>2
  <2>2. Sever(l, rest) /\ \A x \in Items(rest) : x.op # "rehome"
      BY <1>2, <1>4, <1>9, <2>1
  <2>3. /\ waiting' \in [LinkIds -> Seq(Waiter)] /\ waiting'[l] = <<>>
        /\ \A k \in LinkIds : k # l => waiting'[k] = waiting[k]
      BY <1>1, <1>9 DEF Typed, Awaited
  <2>4. \A d : Due(d) <=> AttachedIn(rest, d)
      BY <1>1, <1>2, <1>4, <2>1 DEF Due, AttachedIn, Plain
  <2> QED BY <1>1, <1>4, <2>2, <2>3, <2>4, Severed
<1> QED
    BY <1>3, <1>7, <1>8, <1>9 DEF RunSweep

LEMMA StepLost ==
    ASSUME IInv, Remembers, NEW l \in LinkIds, Lost(l)
    PROVE  Core'
<1>1. /\ Typed /\ LinksOK /\ NoneLost /\ Rosters /\ todo = <<>> /\ phase[l] = "up"
      /\ Sever(l, <<>>) /\ waiting' = waiting
    BY DEF IInv, Lost, Idle
<1>2. PICK rest \in Seq(Work) : rest = <<>> /\ Items(rest) = {}
    BY NoItems
<1>3. /\ Sever(l, rest) /\ \A x \in Items(rest) : x.op # "rehome"
      /\ Items(todo) = {}
    BY <1>1, <1>2
<1>4. /\ waiting' \in [LinkIds -> Seq(Waiter)] /\ waiting'[l] = <<>>
      /\ \A k \in LinkIds : k # l => waiting'[k] = waiting[k]
    BY <1>1 DEF Typed, Awaited
<1>5. \A d : Due(d) <=> AttachedIn(rest, d)
    BY <1>1, <1>2, <1>3 DEF Due, AttachedIn
<1> QED
    BY <1>1, <1>3, <1>4, <1>5, Severed

\* What the task that opened the link falls back on.
LEMMA OpenerKnows ==
    ASSUME Typed, NEW l \in LinkIds, phase[l] \in {"tcp", "login"}
    PROVE  waiting[l][1].roomiest \in LinkIds \union {None}
<1>1. waiting[l] \in Seq(Waiter) /\ waiting[l] # <<>>
    BY DEF Typed, Awaited
<1>2. PICK s \in Seq(Waiter) : s = waiting[l]
    BY <1>1
<1>3. Head(s) \in Waiter /\ Head(s) = s[1]
    BY <1>1, <1>2, SeqTail
<1> QED
    BY <1>2, <1>3 DEF Waiter

LEMMA StepLostEarly ==
    ASSUME IInv, Remembers, NEW l \in LinkIds, LostEarly(l)
    PROVE  Core'
<1>1. /\ Typed /\ LinksOK /\ NoneLost /\ Rosters /\ Idle /\ phase[l] = "login"
      /\ Sever(l, Resumed(l, waiting[l][1].roomiest))
      /\ Emptied(l)
    BY DEF IInv, LostEarly, Emptied
<1>2. PICK on \in LinkIds \union {None} : on = waiting[l][1].roomiest
    BY <1>1, OpenerKnows
<1>3. PICK r : r = Resumed(l, on)
    OBVIOUS
<1>4. /\ r \in Seq(Work) /\ \A x \in Items(r) : x.op # "rehome"
      /\ \A d : Due(d) <=> AttachedIn(r, d)
      /\ waiting' \in [LinkIds -> Seq(Waiter)] /\ waiting'[l] = <<>>
      /\ \A k \in LinkIds : k # l => waiting'[k] = waiting[k]
    BY <1>1, <1>3, Resumes
<1>5. Sever(l, r) /\ Items(todo) = {}
    BY <1>1, <1>2, <1>3 DEF Idle, Items
<1> QED
    BY <1>1, <1>4, <1>5, Severed

-----------------------------------------------------------------------------
(* Links that open, and jobs.                                               *)

\* A step that touches links and what awaits them, and no miner.
LEMMA LinkStep ==
    ASSUME IInv, Remembers, Idle,
           links' \in Seq(LinkIds), \A i, k \in DOMAIN links' : i # k => links'[i] # links'[k],
           phase' \in [LinkIds -> {"tcp", "login", "up", "down"}],
           job' \in [LinkIds -> 0 .. MaxJobs], left' \in [LinkIds -> 0 .. Units],
           waiting' \in [LinkIds -> Seq(Waiter)], Awaited', LinksOK',
           todo' \in Seq(Work), \A x \in Items(todo') : x.op # "rehome",
           UNCHANGED <<clients, load, idle, who, closed>>,
           \A d : Due(d)' <=> Due(d)
    PROVE  Core'
<1>1. Typed /\ LinksOK /\ NoneLost /\ Rosters
    BY DEF IInv
<1>2. /\ clients' = clients /\ load' = load /\ idle' = idle /\ has' = has /\ home' = home
      /\ live' = live /\ session' = session /\ closed' = closed
    BY DEF who
<1>3. Moment' \in MomentType /\ Moment'.clients = clients /\ Moment'.load = load
  <2>1. /\ idle' \in [LinkIds -> BOOLEAN] /\ load' \in [LinkIds -> Nat]
        /\ clients' \in [LinkIds -> SUBSET Clients] /\ home' \in [Clients -> LinkIds \union {None}]
        /\ has' \in [Clients -> (LinkIds \union {None}) \X Nat]
      BY <1>1, <1>2, TypedParts
  <2> QED BY <1>2, <2>1 DEF Moment, MomentType
<1>4. Typed'
    BY <1>1, <1>2, <1>3 DEF Typed, Remembers
<1>5. RehomeFirst'
    BY RehomeNone
<1>6. \A d : (Due(d)' <=> Due(d)) /\ (Orphan(d)' <=> Orphan(d))
  <2>1. Items(todo) = {}
      BY DEF Idle, Items
  <2>2. \A d : ~ Orphan(d) /\ ~ Orphan(d)'
      BY <2>1, DuePrime DEF Orphan
  <2> QED BY <2>2
<1>7. NoneLost' /\ Rosters'
    BY <1>1, <1>2, <1>3, <1>6, Quiet
<1> QED
    BY <1>4, <1>5, <1>7 DEF Core

LEMMA LinksPhase ==
    ASSUME Typed, LinksOK, links' = links,
           \A k \in LinkIds : phase'[k] \in {"tcp", "login"} => phase[k] \in {"tcp", "login"}
    PROVE  LinksOK'
<1>1. Listed' = Listed /\ Listed \subseteq LinkIds
    BY TypedParts DEF Listed
<1>2. Connecting' \subseteq Connecting
    BY <1>1 DEF Connecting
<1> QED
    BY <1>2 DEF LinksOK, OneConnects

\* The attach calls under way in a list of work that has come to be todo.
LEMMA DueIn ==
    ASSUME NEW r \in Seq(Work), NEW B, Items(todo') = Items(r) \union B, \A x \in B : Plain(x),
           \A d : Due(d) <=> AttachedIn(r, d)
    PROVE  \A d : Due(d)' <=> Due(d)
<1> TAKE d
<1>1. Due(d)' <=> AttachedIn(r, d)
    BY DuePrime DEF AttachedIn, Plain
<1> QED
    BY <1>1

\* accept: the miners of the link are served before what comes after.
LEMMA AcceptIs ==
    ASSUME Typed, NEW l \in LinkIds, NEW r \in Seq(Work), Accept(l, r)
    PROVE  /\ job' \in [LinkIds -> 0 .. MaxJobs] /\ left' \in [LinkIds -> 0 .. Units]
           /\ todo' \in Seq(Work)
           /\ \E B : Items(todo') = Items(r) \union B /\ \A x \in B : Plain(x)
<1>1. /\ job \in [LinkIds -> 0 .. MaxJobs] /\ left \in [LinkIds -> 0 .. Units]
      /\ clients[l] \in SUBSET Clients
    BY TypedParts DEF Typed
<1>2. /\ job[l] < MaxJobs /\ job' = [job EXCEPT ![l] = job[l] + 1]
      /\ left' = [left EXCEPT ![l] = Units]
      /\ todo' = IF clients[l] = {} THEN r ELSE <<RenewCall(l, clients[l])>> \o r
    BY DEF Accept
<1>3. job' \in [LinkIds -> 0 .. MaxJobs] /\ left' \in [LinkIds -> 0 .. Units]
  <2>1. job[l] + 1 \in 0 .. MaxJobs /\ Units \in 0 .. Units
      BY <1>1, <1>2, UpstreamAssumption
  <2> QED BY <1>1, <1>2, <2>1
<1>4. PICK x \in Work : x = RenewCall(l, clients[l]) /\ Plain(x)
    BY <1>1, WorkMade, PlainItems
<1>5. PICK u : u = Atop(x, r)
    OBVIOUS
<1>6. /\ u \in Seq(Work) /\ u # <<>> /\ u[1] = x
      /\ Items(u) = {x} \union Items(r)
      /\ \A i \in DOMAIN u : i = 1 \/ u[i] \in Items(r)
  <2>1. Led(u, x, r)
      BY <1>5, OneBefore
  <2> QED BY <2>1 DEF Led
<1>7. CASE todo' = r
  <2>1. PICK B : B = {}
      OBVIOUS
  <2>2. Items(todo') = Items(r) \union B /\ \A y \in B : Plain(y)
      BY <1>7, <2>1
  <2> QED BY <1>3, <1>7, <2>2
<1>8. CASE todo' = u
  <2>1. PICK B : B = {x}
      OBVIOUS
  <2>2. Items(todo') = Items(r) \union B /\ \A y \in B : Plain(y)
      BY <1>4, <1>6, <1>8, <2>1
  <2> QED BY <1>3, <1>6, <1>8, <2>2
<1>9. todo' = IF clients[l] = {} THEN r ELSE u
    BY <1>2, <1>4, <1>5 DEF Atop
<1> QED
    BY <1>7, <1>8, <1>9

LEMMA StepConnected ==
    ASSUME IInv, Remembers, NEW l \in LinkIds, Connected(l)
    PROVE  Core'
<1>1. /\ Typed /\ LinksOK /\ Idle /\ phase[l] = "tcp"
      /\ phase' = [phase EXCEPT ![l] = "login"]
      /\ UNCHANGED <<links, job, left, clients, load, idle, who, closed, todo, waiting>>
    BY DEF IInv, Connected
<1>2. phase \in [LinkIds -> {"tcp", "login", "up", "down"}]
    BY <1>1 DEF Typed
<1>3. /\ phase' \in [LinkIds -> {"tcp", "login", "up", "down"}]
      /\ \A k \in LinkIds : phase'[k] \in {"tcp", "login"} <=> phase[k] \in {"tcp", "login"}
    BY <1>1, <1>2
<1>4. LinksOK'
    BY <1>1, <1>3, LinksPhase
<1>5. Awaited'
    BY <1>1, <1>3 DEF Typed, Awaited
<1>6. todo' \in Seq(Work) /\ \A x \in Items(todo') : x.op # "rehome"
  <2>1. todo' = <<>>
      BY <1>1 DEF Idle
  <2> QED BY <2>1, NoItems
<1>7. \A d : Due(d)' <=> Due(d)
  <2>1. todo' = todo /\ waiting' = waiting
      BY <1>1
  <2> QED BY <2>1, DuePrime DEF Due
<1>8. job' \in [LinkIds -> 0 .. MaxJobs] /\ left' \in [LinkIds -> 0 .. Units]
    BY <1>1, TypedParts DEF Typed
<1>9. /\ links' \in Seq(LinkIds) /\ \A i, k \in DOMAIN links' : i # k => links'[i] # links'[k]
      /\ waiting' \in [LinkIds -> Seq(Waiter)]
    BY <1>1 DEF Typed
<1> QED
    BY <1>1, <1>3, <1>4, <1>5, <1>6, <1>7, <1>8, <1>9, LinkStep

LEMMA StepJob ==
    ASSUME IInv, Remembers, NEW l \in LinkIds, Job(l)
    PROVE  Core'
<1>1. /\ Typed /\ LinksOK /\ Idle /\ Accept(l, <<>>)
      /\ UNCHANGED <<links, phase, clients, load, idle, who, closed, waiting>>
    BY DEF IInv, Job
<1>2. PICK r \in Seq(Work) : r = <<>> /\ Items(r) = {}
    BY NoItems
<1>3. Accept(l, r)
    BY <1>1, <1>2
<1>4. /\ job' \in [LinkIds -> 0 .. MaxJobs] /\ left' \in [LinkIds -> 0 .. Units]
      /\ todo' \in Seq(Work)
      /\ \E B : Items(todo') = Items(r) \union B /\ \A x \in B : Plain(x)
    BY <1>1, <1>3, AcceptIs
<1>5. PICK B : Items(todo') = Items(r) \union B /\ \A x \in B : Plain(x)
    BY <1>4
<1>6. \A x \in Items(todo') : x.op # "rehome"
    BY <1>2, <1>5 DEF Plain
<1>7. \A d : Due(d) <=> AttachedIn(r, d)
  <2>1. Items(todo) = {} /\ waiting' = waiting
      BY <1>1 DEF Idle, Items
  <2> QED BY <1>2, <2>1 DEF Due, AttachedIn
<1>8. \A d : Due(d)' <=> Due(d)
    BY <1>5, <1>7, DueIn
<1>9. LinksOK'
    BY <1>1, LinksSame
<1>10. Awaited'
    BY <1>1 DEF Typed, Awaited
<1>11. /\ links' \in Seq(LinkIds) /\ \A i, k \in DOMAIN links' : i # k => links'[i] # links'[k]
       /\ waiting' \in [LinkIds -> Seq(Waiter)]
       /\ phase' \in [LinkIds -> {"tcp", "login", "up", "down"}]
    BY <1>1 DEF Typed
<1> QED
    BY <1>1, <1>4, <1>6, <1>8, <1>9, <1>10, <1>11, LinkStep

LEMMA StepLinkUp ==
    ASSUME IInv, Remembers, NEW l \in LinkIds, LinkUp(l)
    PROVE  Core'
<1>1. /\ Typed /\ LinksOK /\ Idle /\ phase[l] = "login"
      /\ phase' = [phase EXCEPT ![l] = "up"]
      /\ Emptied(l)
      /\ IF job[l] = 0 THEN Accept(l, Resumed(l, l))
         ELSE todo' = Resumed(l, l) /\ UNCHANGED <<job, left>>
      /\ UNCHANGED <<links, clients, load, idle, who, closed>>
    BY DEF IInv, LinkUp, Emptied
<1>2. PICK r : r = Resumed(l, l)
    OBVIOUS
<1>3. PICK on \in LinkIds \union {None} : on = l
    OBVIOUS
<1>4. /\ r \in Seq(Work) /\ \A x \in Items(r) : x.op # "rehome"
      /\ \A d : Due(d) <=> AttachedIn(r, d)
      /\ waiting' \in [LinkIds -> Seq(Waiter)] /\ waiting'[l] = <<>>
      /\ \A k \in LinkIds : k # l => waiting'[k] = waiting[k]
  <2>1. r = Resumed(l, on)
      BY <1>2, <1>3
  <2> QED BY <1>1, <2>1, Resumes
<1>5. /\ job' \in [LinkIds -> 0 .. MaxJobs] /\ left' \in [LinkIds -> 0 .. Units]
      /\ todo' \in Seq(Work)
      /\ \E B : Items(todo') = Items(r) \union B /\ \A x \in B : Plain(x)
  <2>1. CASE Accept(l, r)
      BY <1>1, <1>4, <2>1, AcceptIs
  <2>2. CASE todo' = r /\ UNCHANGED <<job, left>>
    <3>1. PICK B : B = {}
        OBVIOUS
    <3>2. Items(todo') = Items(r) \union B /\ \A x \in B : Plain(x)
        BY <2>2, <3>1
    <3>3. job' \in [LinkIds -> 0 .. MaxJobs] /\ left' \in [LinkIds -> 0 .. Units]
        BY <1>1, <2>2, TypedParts DEF Typed
    <3> QED BY <1>4, <2>2, <3>2, <3>3
  <2> QED BY <1>1, <1>2, <2>1, <2>2
<1>6. PICK B : Items(todo') = Items(r) \union B /\ \A x \in B : Plain(x)
    BY <1>5
<1>7. \A x \in Items(todo') : x.op # "rehome"
    BY <1>4, <1>6 DEF Plain
<1>8. \A d : Due(d)' <=> Due(d)
    BY <1>4, <1>6, DueIn
<1>9. phase \in [LinkIds -> {"tcp", "login", "up", "down"}]
    BY <1>1 DEF Typed
<1>10. /\ phase' \in [LinkIds -> {"tcp", "login", "up", "down"}] /\ phase'[l] = "up"
       /\ \A k \in LinkIds : k # l => phase'[k] = phase[k]
    BY <1>1, <1>9
<1>11. LinksOK'
    BY <1>1, <1>10, LinksPhase
<1>12. Awaited'
    BY <1>1, <1>4, <1>10 DEF Typed, Awaited
<1>13. links' \in Seq(LinkIds) /\ \A i, k \in DOMAIN links' : i # k => links'[i] # links'[k]
    BY <1>1 DEF Typed
<1> QED
    BY <1>1, <1>4, <1>5, <1>7, <1>8, <1>10, <1>11, <1>12, <1>13, LinkStep

LEMMA StepOpenFails ==
    ASSUME IInv, Remembers, NEW l \in LinkIds, OpenFails(l)
    PROVE  Core'
<1>1. /\ Typed /\ LinksOK /\ Idle /\ phase[l] \in {"tcp", "login"}
      /\ links' = Without(links, l)
      /\ phase' = [phase EXCEPT ![l] = "down"]
      /\ todo' = Resumed(l, waiting[l][1].roomiest)
      /\ Emptied(l)
      /\ UNCHANGED <<job, left, clients, load, idle, who, closed>>
    BY DEF IInv, OpenFails, Emptied
<1>2. PICK on \in LinkIds \union {None} : on = waiting[l][1].roomiest
    BY <1>1, OpenerKnows
<1>3. PICK r : r = Resumed(l, on)
    OBVIOUS
<1>4. /\ r \in Seq(Work) /\ \A x \in Items(r) : x.op # "rehome"
      /\ \A d : Due(d) <=> AttachedIn(r, d)
      /\ waiting' \in [LinkIds -> Seq(Waiter)] /\ waiting'[l] = <<>>
      /\ \A k \in LinkIds : k # l => waiting'[k] = waiting[k]
    BY <1>1, <1>3, Resumes
<1>5. todo' = r
    BY <1>1, <1>2, <1>3
<1>6. \A d : Due(d)' <=> Due(d)
  <2>1. PICK B : B = {}
      OBVIOUS
  <2>2. Items(todo') = Items(r) \union B /\ \A x \in B : Plain(x)
      BY <1>5, <2>1
  <2> QED BY <1>4, <2>2, DueIn
<1>7. /\ LinksOK' /\ links' \in Seq(LinkIds)
      /\ \A i, k \in DOMAIN links' : i # k => links'[i] # links'[k]
    BY <1>1, LinksWithout
<1>8. phase \in [LinkIds -> {"tcp", "login", "up", "down"}]
    BY <1>1 DEF Typed
<1>9. /\ phase' \in [LinkIds -> {"tcp", "login", "up", "down"}] /\ phase'[l] = "down"
      /\ \A k \in LinkIds : k # l => phase'[k] = phase[k]
    BY <1>1, <1>8
<1>10. Awaited'
    BY <1>1, <1>4, <1>9 DEF Typed, Awaited
<1>11. job' \in [LinkIds -> 0 .. MaxJobs] /\ left' \in [LinkIds -> 0 .. Units]
    BY <1>1, TypedParts DEF Typed
<1> QED
    BY <1>1, <1>4, <1>5, <1>6, <1>7, <1>9, <1>10, <1>11, LinkStep

-----------------------------------------------------------------------------
(* Miners that come and go, and the end.                                    *)

LEMMA IdleIs ==
    ASSUME Idle
    PROVE  /\ Items(todo) = {} /\ \A x \in Items(todo) : x.op # "rehome"
           /\ \A d : ~ Orphan(d)
<1>1. Items(todo) = {}
    BY NoItems DEF Idle
<1> QED
    BY <1>1 DEF Orphan

LEMMA StepLogin ==
    ASSUME IInv, Remembers, NEW c \in Clients, Login(c)
    PROVE  Core'
<1>1. /\ Typed /\ LinksOK /\ NoneLost /\ Rosters /\ Idle /\ ~ closed
      /\ session[c] = "out"
      /\ session' = [session EXCEPT ![c] = "in"]
      /\ live' = live \union {c}
      /\ todo' = <<PickCall([kind |-> "login", client |-> c, from |-> None])>>
      /\ UNCHANGED <<link, home, has, closed, waiting>>
    BY DEF IInv, Login
<1>2. PICK t \in Task : /\ t = [kind |-> "login", client |-> c, from |-> None]
                        /\ t.client = c /\ t.kind \in Attaching
  <2>1. PICK t : t = [kind |-> "login", client |-> c, from |-> None]
      OBVIOUS
  <2>2. "login" \in Attaching
      BY DEF Attaching
  <2> QED BY <2>1, <2>2, AttachMade
<1>3. PICK p \in Work : p = PickCall(t) /\ p.op = "pick" /\ p.task = t
    BY WorkMade
<1>4. todo' \in Seq(Work) /\ Items(todo') = {p}
  <2>1. todo' = <<p>>
      BY <1>1, <1>2, <1>3
  <2> QED BY <2>1 DEF Items
<1>5. /\ links' = links /\ phase' = phase /\ job' = job /\ clients' = clients /\ load' = load
      /\ home' = home /\ closed' = closed /\ waiting' = waiting /\ Moment' = Moment
    BY <1>1 DEF link, Moment
<1>6. /\ session' \in [Clients -> {"out", "in", "kicked", "gone"}] /\ session'[c] = "in"
      /\ \A d \in Clients \ {c} : session'[d] = session[d]
      /\ live' \in SUBSET Clients
    BY <1>1 DEF Typed
<1>7. Typed'
    BY <1>1, <1>4, <1>5, <1>6, TypedStep DEF Typed
<1>8. RehomeFirst'
    BY <1>3, <1>4, RehomeNone
<1>9. LinksOK'
    BY <1>1, <1>5, LinksSame
<1>10. \A d : ~ Orphan(d) /\ ~ Orphan(d)' /\ (Due(d)' <=> Due(d) \/ d = c)
  <2>1. \A d : AttachItem(p, d) <=> d = c
      BY <1>2, <1>3 DEF AttachItem, AttachTask
  <2>2. \A d : Due(d)' <=> Due(d) \/ d = c
      BY <1>1, <1>4, <1>5, <2>1, DuePrime, IdleIs DEF Due
  <2>3. \A d : ~ Orphan(d) /\ ~ Orphan(d)'
      BY <1>1, <1>3, <1>4, DuePrime, IdleIs
  <2> QED BY <2>2, <2>3, Zenon
<1>11. NoneLost'
    BY <1>1, <1>5, <1>6, <1>10, KeepLost
<1>12. Rosters'
  <2>1. ASSUME NEW d \in Clients, Clean(d) PROVE Clean(d)'
    <3>1. CASE d = c
        BY <1>1, <1>5, <1>6, <1>10, <2>1, <3>1 DEF Clean, Alone
    <3>2. CASE d # c
        BY <1>1, <1>5, <1>6, <1>10, <2>1, <3>2, KeepClean
    <3> QED BY <3>1, <3>2
  <2> QED BY <1>1, <1>5, <2>1, KeepRosters
<1> QED
    BY <1>7, <1>8, <1>9, <1>11, <1>12 DEF Core

LEMMA StepDetach ==
    ASSUME IInv, Remembers, NEW c \in Clients, Detach(c)
    PROVE  Core'
<1>1. /\ Typed /\ LinksOK /\ NoneLost /\ Rosters /\ Idle
      /\ session' = [session EXCEPT ![c] = "gone"]
      /\ live' = live \ {c}
      /\ Become(Gone(Moment, c))
      /\ UNCHANGED <<links, phase, job, closed, todo, waiting>>
    BY DEF IInv, Detach
<1>2. PICK n \in MomentType : n = Moment
    BY <1>1 DEF Typed
<1>3. PICK e : e = Evict(n, c)
    OBVIOUS
<1>4. /\ \A d \in Clients : Lists(n, d) => Lists(e, d)
      /\ \A d \in Clients : Alone(n, d) => Alone(e, d)
      /\ Counted(n) /\ Alone(n, c) => Counted(e)
      /\ e.home[c] = None
      /\ \A d \in Clients \ {c} : e.home[d] = n.home[d]
    BY <1>3, EvictKeeps
<1>5. PICK m \in MomentType : /\ m = Gone(n, c)
                              /\ m.clients = e.clients /\ m.load = e.load /\ m.home = e.home
    BY <1>3, GoneIs
<1>6. /\ \A d \in Clients : Lists(e, d) <=> Lists(m, d)
      /\ \A d \in Clients : Alone(e, d) <=> Alone(m, d)
      /\ Counted(e) <=> Counted(m)
    BY <1>5 DEF Lists, Alone, Counted
<1>7. Moment' = m /\ home' = m.home
    BY <1>1, <1>2, <1>5, BecomeIs DEF Become
<1>8. /\ \A d \in Clients : Lists(Moment, d) => Lists(Moment', d)
      /\ \A d \in Clients : Alone(Moment, d) => Alone(Moment', d)
      /\ Counted(Moment) /\ Alone(Moment, c) => Counted(Moment')
      /\ home'[c] = None
      /\ \A d \in Clients \ {c} : home'[d] = home[d]
  <2>1. Moment.home = home
      BY MomentFields
  <2> QED BY <1>2, <1>4, <1>5, <1>6, <1>7, <2>1
<1>9. /\ session' \in [Clients -> {"out", "in", "kicked", "gone"}]
      /\ \A d \in Clients \ {c} : session'[d] = session[d]
      /\ live' \in SUBSET Clients /\ c \notin live'
    BY <1>1 DEF Typed
<1>10. todo' \in Seq(Work)
    BY <1>1 DEF Typed
<1>11. Typed'
    BY <1>1, <1>5, <1>7, <1>9, <1>10, TypedStep
<1>12. Items(todo') = {}
    BY <1>1, IdleIs
<1>13. RehomeFirst'
    BY <1>12, RehomeNone
<1>14. LinksOK'
    BY <1>1, LinksSame
<1>15. \A d : ~ Orphan(d) /\ ~ Orphan(d)' /\ (Due(d)' <=> Due(d))
  <2>1. \A d : ~ Orphan(d)
      BY <1>1, IdleIs
  <2>2. \A d : ~ Orphan(d)'
      BY <1>12, DuePrime
  <2>3. todo' = todo /\ waiting' = waiting
      BY <1>1
  <2>4. \A d : Due(d)' <=> Due(d)
      BY <2>3, DuePrime DEF Due
  <2> QED BY <2>1, <2>2, <2>4, Zenon
<1>16. NoneLost'
  <2>1. ASSUME NEW d \in live'
        PROVE  \/ home'[d] # None \/ Due(d)' \/ Orphan(d)'
               \/ d \in live /\ home'[d] = home[d] /\ (Due(d) => Due(d)')
                  /\ (Orphan(d) => Orphan(d)')
    <3>1. d \in live /\ d \in Clients \ {c}
        BY <1>1, <1>9, <2>1
    <3> QED BY <1>8, <1>15, <3>1
  <2> QED BY <1>1, <1>9, <2>1, KeepLost
<1>17. Rosters'
  <2>1. ASSUME NEW d \in Clients, Clean(d) PROVE Clean(d)'
    <3>1. Alone(Moment', d)
        BY <1>8, <2>1 DEF Clean
    <3>2. CASE d = c
        BY <1>8, <1>9, <1>15, <3>1, <3>2 DEF Clean, Alone
    <3>3. CASE d # c
      <4>1. d \in Clients \ {c}
          BY <2>1, <3>3
      <4>2. /\ home'[d] = home[d] /\ session'[d] = session[d]
            /\ d \in live' => d \in live
          BY <1>1, <1>8, <1>9, <4>1
      <4> QED BY <1>15, <2>1, <3>1, <4>2, KeepClean
    <3> QED BY <3>2, <3>3
  <2>2. crossed = {} /\ (\A d \in Clients : Clean(d)) /\ Counted(Moment) => Counted(Moment')
      BY <1>8 DEF Clean
  <2> QED BY <1>1, <1>8, <2>1, <2>2, KeepRosters
<1> QED
    BY <1>11, <1>13, <1>14, <1>16, <1>17 DEF Core

\* An event that leaves only plain items to do.
LEMMA PlainEvent ==
    ASSUME Idle, \A x \in Items(todo') : Plain(x)
    PROVE  PlainlyChanged /\ \A x \in Items(todo) : x.op # "rehome"
<1>1. Items(todo) = {}
    BY IdleIs
<1>2. PICK B : B = Items(todo')
    OBVIOUS
<1>3. /\ \A x \in B : Plain(x)
      /\ Items(todo) \subseteq Items(todo') \union B
      /\ Items(todo') \subseteq Items(todo) \union B
    BY <1>1, <1>2
<1> QED
    BY <1>1, <1>3 DEF PlainlyChanged

LEMMA StepChunk ==
    ASSUME IInv, Remembers, NEW c \in Clients, Chunk(c)
    PROVE  Core'
<1>1. /\ Typed /\ Idle /\ home[c] # None
      /\ UNCHANGED <<links, phase, job, live, session, closed, waiting>>
    BY DEF IInv, Chunk
<1>2. PICK l \in LinkIds : l = home[c]
    BY <1>1, TypedParts
<1>3. IF left[l] > 0
      THEN Become(Grant(Moment, l, c)) /\ UNCHANGED todo
      ELSE /\ todo' = <<PickCall([kind |-> "chunk", client |-> c, from |-> l])>>
           /\ Become(Moment)
    BY <1>2 DEF Chunk
<1>4. /\ session \in [Clients -> {"out", "in", "kicked", "gone"}]
      /\ Moment \in MomentType /\ job \in [LinkIds -> 0 .. MaxJobs]
      /\ Moment.left = left /\ Moment.clients = clients /\ Moment.load = load /\ Moment.home = home
    BY <1>1, MomentFields DEF Typed
<1>5. /\ Moment' \in MomentType /\ Moment'.clients = clients /\ Moment'.load = load
      /\ home' = home
  <2>1. CASE left[l] > 0
    <3>1. PICK m \in MomentType : m = Grant(Moment, l, c) /\ m.clients = clients
                                  /\ m.load = load /\ m.home = home
        BY <1>4, <2>1, GrantIs
    <3>2. Moment' = m
        BY <1>3, <2>1, <3>1, BecomeIs
    <3> QED BY <3>1, <3>2 DEF Moment
  <2>2. CASE ~ (left[l] > 0)
    <3>1. Moment' = Moment
        BY <1>3, <1>4, <2>2, BecomeIs
    <3> QED BY <1>4, <3>1 DEF Moment
  <2> QED BY <2>1, <2>2
<1>6. todo' \in Seq(Work) /\ \A x \in Items(todo') : Plain(x)
  <2>1. CASE left[l] > 0
    <3>1. todo' = <<>>
        BY <1>1, <1>3, <2>1 DEF Idle
    <3> QED BY <3>1, NoItems
  <2>2. CASE ~ (left[l] > 0)
    <3>1. PICK t \in Task : /\ t = [kind |-> "chunk", client |-> c, from |-> l]
                            /\ Plain(PickCall(t))
      <4>1. PICK t : t = [kind |-> "chunk", client |-> c, from |-> l]
          OBVIOUS
      <4>2. t \in Task /\ t.kind \notin Attaching
          BY <4>1, MigrateMade
      <4> QED BY <4>1, <4>2, PlainItems
    <3>2. PICK p \in Work : p = PickCall(t)
        BY WorkMade
    <3>3. todo' = <<p>>
        BY <1>3, <2>2, <3>1, <3>2
    <3>4. todo' \in Seq(Work) /\ Items(todo') = {p}
        BY <3>3 DEF Items
    <3> QED BY <3>1, <3>2, <3>4
  <2> QED BY <2>1, <2>2
<1>7. PlainlyChanged /\ \A x \in Items(todo) : x.op # "rehome"
    BY <1>1, <1>6, PlainEvent
<1> QED
    BY <1>1, <1>4, <1>5, <1>6, <1>7, PlainStep

LEMMA StepRebalance ==
    ASSUME IInv, Remembers, Rebalance
    PROVE  Core'
<1>1. /\ Typed /\ Idle
      /\ todo' = [i \in DOMAIN links |-> SweepCall(links[i])] \o <<Consolidate>>
      /\ UNCHANGED <<link, who, closed, waiting>>
    BY DEF IInv, Rebalance
<1>2. /\ Moment' = Moment /\ Moment \in MomentType /\ home' = home
      /\ Moment.clients = clients /\ Moment.load = load
    BY <1>1 DEF Moment, link, who, Typed
<1>3. /\ links' = links /\ phase' = phase /\ job' = job /\ live' = live /\ session' = session
      /\ closed' = closed /\ waiting' = waiting
      /\ session \in [Clients -> {"out", "in", "kicked", "gone"}]
    BY <1>1 DEF link, who, Typed
<1>4. /\ Len(links) \in Nat /\ DOMAIN links = 1 .. Len(links)
      /\ \A i \in DOMAIN links : links[i] \in LinkIds
  <2>1. links \in Seq(LinkIds)
      BY <1>1 DEF Typed
  <2> QED BY <2>1, SeqParts
<1>5. PICK s : s = [i \in DOMAIN links |-> SweepCall(links[i])]
    OBVIOUS
<1>6. s \in Seq(Work) /\ \A x \in Items(s) : Plain(x)
  <2>1. \A i \in DOMAIN links : SweepCall(links[i]) \in Work /\ Plain(SweepCall(links[i]))
      BY <1>4, WorkMade, PlainItems
  <2>2. s \in [1 .. Len(links) -> Work]
      BY <1>4, <1>5, <2>1
  <2>3. s \in Seq(Work)
      BY <1>4, <2>2
  <2>4. \A x \in Items(s) : Plain(x)
      BY <1>5, <2>1 DEF Items
  <2> QED BY <2>3, <2>4
<1>7. PICK k \in Work : k = Consolidate /\ Plain(k)
    BY WorkMade, PlainItems
<1>8. PICK t \in Seq(Work) : t = <<k>> /\ Items(t) = {k}
  <2>1. <<k>> \in Seq(Work) /\ Items(<<k>>) = {k}
      BY DEF Items
  <2> QED BY <2>1
<1>9. PICK u : u = s \o t /\ u \in Seq(Work) /\ Items(u) = Items(s) \union Items(t)
  <2>1. PICK u : u = s \o t
      OBVIOUS
  <2>2. Joins(Work, s, t, u)
      BY <1>6, <2>1, SeqJoins
  <2> QED BY <2>1, <2>2 DEF Joins
<1>10. todo' = u
    BY <1>1, <1>5, <1>7, <1>8, <1>9
<1>11. todo' \in Seq(Work) /\ \A x \in Items(todo') : Plain(x)
    BY <1>6, <1>7, <1>8, <1>9, <1>10
<1>12. PlainlyChanged /\ \A x \in Items(todo) : x.op # "rehome"
    BY <1>1, <1>11, PlainEvent
<1> QED
    BY <1>2, <1>3, <1>11, <1>12, PlainStep

LEMMA StepClose ==
    ASSUME IInv, Remembers, Close
    PROVE  Core'
<1>1. /\ Typed /\ Idle /\ closed'
      /\ phase' = [l \in LinkIds |-> IF l \in Listed /\ phase[l] = "up" THEN "down" ELSE phase[l]]
      /\ links' = <<>> /\ live' = {}
      /\ home' = [c \in Clients |-> None]
      /\ UNCHANGED <<job, left, clients, load, idle, session, has, todo, waiting>>
      /\ closed' = TRUE
    BY DEF IInv, Close
<1>2. Moment' \in MomentType
  <2>1. /\ idle' \in [LinkIds -> BOOLEAN] /\ load' \in [LinkIds -> Nat]
        /\ clients' \in [LinkIds -> SUBSET Clients] /\ home' \in [Clients -> LinkIds \union {None}]
        /\ left' \in [LinkIds -> 0 .. Units]
        /\ has' \in [Clients -> (LinkIds \union {None}) \X Nat]
      BY <1>1, TypedParts
  <2> QED BY <2>1 DEF Moment, MomentType
<1>3. phase \in [LinkIds -> {"tcp", "login", "up", "down"}]
    BY <1>1 DEF Typed
<1>4. /\ phase' \in [LinkIds -> {"tcp", "login", "up", "down"}]
      /\ \A k \in LinkIds : phase'[k] \in {"tcp", "login"} <=> phase[k] \in {"tcp", "login"}
    BY <1>1, <1>3
<1>5. Awaited'
    BY <1>1, <1>4 DEF Typed, Awaited
<1>6. links' \in Seq(LinkIds) /\ Items(links') = {} /\ DOMAIN links' = {} /\ Len(links') = 0
    BY <1>1 DEF Items
<1>7. Typed'
    BY <1>1, <1>2, <1>4, <1>5, <1>6 DEF Typed, Remembers
<1>8. Items(todo') = {}
    BY <1>1, IdleIs
<1>9. RehomeFirst'
    BY <1>8, RehomeNone
<1>10. LinksOK'
    BY <1>6, UpstreamAssumption DEF LinksOK, OneConnects, Connecting, Listed
<1>11. NoneLost' /\ Rosters'
    BY <1>1 DEF NoneLost, Rosters
<1> QED
    BY <1>7, <1>9, <1>10, <1>11 DEF Core

-----------------------------------------------------------------------------
(* The inductive invariant, and what follows from it.                       *)

LEMMA Initially ==
    ASSUME Init
    PROVE  IInv
<1>1. /\ links = <<>> /\ todo = <<>> /\ live = {} /\ crossed = {} /\ closed = FALSE
      /\ phase = [l \in LinkIds |-> "down"] /\ job = [l \in LinkIds |-> 0]
      /\ left = [l \in LinkIds |-> 0] /\ clients = [l \in LinkIds |-> {}]
      /\ load = [l \in LinkIds |-> 0] /\ idle = [l \in LinkIds |-> FALSE]
      /\ home = [c \in Clients |-> None] /\ session = [c \in Clients |-> "out"]
      /\ has = [c \in Clients |-> NoJob] /\ waiting = [l \in LinkIds |-> <<>>]
    BY DEF Init
<1>2. Moment \in MomentType
  <2>1. /\ clients \in [LinkIds -> SUBSET Clients] /\ load \in [LinkIds -> Nat]
        /\ home \in [Clients -> LinkIds \union {None}] /\ idle \in [LinkIds -> BOOLEAN]
        /\ left \in [LinkIds -> 0 .. Units]
      BY <1>1, UpstreamAssumption
  <2>2. has \in [Clients -> (LinkIds \union {None}) \X Nat]
      BY <1>1 DEF NoJob
  <2> QED BY <2>1, <2>2 DEF Moment, MomentType
<1>3. Typed
  <2>1. /\ links \in Seq(LinkIds) /\ todo \in Seq(Work)
        /\ waiting \in [LinkIds -> Seq(Waiter)]
      BY <1>1
  <2>2. /\ phase \in [LinkIds -> {"tcp", "login", "up", "down"}]
        /\ job \in [LinkIds -> 0 .. MaxJobs]
        /\ session \in [Clients -> {"out", "in", "kicked", "gone"}]
      BY <1>1, UpstreamAssumption
  <2>3. Awaited
      BY <1>1 DEF Awaited
  <2>4. \A i, k \in DOMAIN links : i # k => links[i] # links[k]
      BY <1>1
  <2>5. live \in SUBSET Clients /\ closed \in BOOLEAN /\ crossed \subseteq Clients
      BY <1>1
  <2> QED BY <1>2, <2>1, <2>2, <2>3, <2>4, <2>5 DEF Typed
<1>4. RehomeFirst
    BY <1>1 DEF RehomeFirst
<1>5. PlacedOnce
  <2> SUFFICES ASSUME NEW c \in Clients PROVE ~ (Placements(c) > 1)
      BY DEF PlacedOnce
  <2>1. {i \in DOMAIN todo : "task" \in DOMAIN todo[i] /\ todo[i].task.client = c} = {}
      BY <1>1
  <2>2. UNION {{<<l, i>> : i \in {i \in DOMAIN waiting[l] : waiting[l][i].task.client = c}} :
                  l \in LinkIds} = {}
    <3>1. \A l \in LinkIds : DOMAIN waiting[l] = {}
        BY <1>1
    <3> QED BY <3>1
  <2>3. Cardinality({}) = 0
      BY FS_EmptySet
  <2>4. Placements(c) = Cardinality({}) + Cardinality({})
      BY <2>1, <2>2 DEF Placements
  <2> QED BY <2>3, <2>4
<1>6. LinksOK
    BY <1>1, UpstreamAssumption DEF LinksOK, OneConnects, Connecting, Listed
<1>7. NoneLost
    BY <1>1 DEF NoneLost
<1>8. Rosters
  <2>1. /\ Moment.clients = clients /\ Moment.load = load /\ Moment.home = home
      BY MomentFields
  <2>2. \A c \in Clients : Lists(Moment, c)
      BY <1>1, <2>1 DEF Lists
  <2>3. ASSUME NEW c \in Clients PROVE Clean(c)
    <3>1. Alone(Moment, c)
        BY <1>1, <2>1, NoneAssumption DEF Alone
    <3>2. ~ Orphan(c) /\ home[c] = None /\ c \notin live
        BY <1>1 DEF Orphan, Items
    <3> QED BY <3>1, <3>2 DEF Clean
  <2>4. Counted(Moment)
    <3>1. IsFiniteSet({}) /\ Cardinality({}) = 0
        BY FS_EmptySet
    <3> QED BY <1>1, <2>1, <3>1 DEF Counted
  <2> QED BY <2>2, <2>3, <2>4 DEF Rosters
<1> QED
    BY <1>3, <1>4, <1>5, <1>6, <1>7, <1>8 DEF IInv

LEMMA Stutter ==
    ASSUME IInv, UNCHANGED vars
    PROVE  IInv'
<1>1. /\ links' = links /\ phase' = phase /\ job' = job /\ left' = left /\ clients' = clients
      /\ load' = load /\ idle' = idle /\ home' = home /\ live' = live /\ session' = session
      /\ has' = has /\ closed' = closed /\ todo' = todo /\ waiting' = waiting
      /\ crossed' = crossed
    BY DEF vars
<1>2. Moment' = Moment
    BY <1>1, MomentSame
<1>3. Typed' /\ RehomeFirst' /\ LinksOK'
    BY <1>1, <1>2, LinksSame DEF IInv, Typed, Awaited, RehomeFirst
<1>4. PlacedOnce'
    BY <1>1 DEF IInv, PlacedOnce, Placements
<1>5. NoneLost' /\ Rosters'
    BY <1>1, <1>2 DEF IInv, NoneLost, Rosters, Due, Orphan, Clean, Alone, Lists, Counted, Items
<1> QED
    BY <1>3, <1>4, <1>5 DEF IInv

LEMMA Inductive ==
    ASSUME IInv, [Next]_vars
    PROVE  IInv'
<1>1. CASE UNCHANGED vars
    BY <1>1, Stutter
<1>2. CASE Next
  <2>1. /\ crossed' = crossed \union {c \in Clients : Placements(c)' > 1}
        /\ behind' = {c \in behind \union Stalling : ~ Current(c)'}
      BY <1>2 DEF Next
  <2>2. Remembers
      BY <2>1 DEF Remembers, IInv, Typed
  <2>3. PlacedOnce'
      BY <2>1 DEF PlacedOnce
  <2>4. CASE Run
      BY <2>2, <2>4, StepPick, StepAttached, StepMigrated, StepRenew, StepMove, StepRehome,
         StepSweep, StepConsolidate, <2>3 DEF Run, Core, IInv
  <2>5. CASE \E c \in Clients : Login(c) \/ Detach(c) \/ Chunk(c)
      BY <2>2, <2>5, StepLogin, StepDetach, StepChunk, <2>3 DEF Core, IInv
  <2>6. CASE \E l \in LinkIds : Opening(l) \/ Job(l) \/ Lost(l)
      BY <2>2, <2>6, StepConnected, StepLinkUp, StepOpenFails, StepLostEarly, StepJob, StepLost,
         <2>3 DEF Opening, Core, IInv
  <2>7. CASE Rebalance \/ Close
      BY <2>2, <2>7, StepRebalance, StepClose, <2>3 DEF Core, IInv
  <2> QED BY <1>2, <2>4, <2>5, <2>6, <2>7 DEF Next
<1> QED
    BY <1>1, <1>2

\* Whatever the miners, the links and the limits, what is to be done accounts
\* for every miner that is not housed, and homes and rosters tell the same
\* (Upstream of src/js/upstream.ts).
THEOREM UpstreamInvariant == Spec => []IInv
<1>1. Init => IInv
    BY Initially
<1>2. IInv /\ [Next]_vars => IInv'
    BY Inductive
<1> QED
    BY <1>1, <1>2, PTL DEF Spec

\* There are never more than maxLinks links, and never two that connect: what
\* pick found before its await is still so when it opens (pick, open).
THEOREM LinksStayLimited == Spec => []LinksLimited
<1>1. ASSUME IInv PROVE LinksLimited
  <2>1. OneConnects /\ Len(links) <= MaxLinks
      BY <1>1 DEF IInv, LinksOK
  <2>2. Cardinality(Connecting) <= 1
    <3>1. CASE Connecting = {}
        BY <3>1, FS_EmptySet
    <3>2. ASSUME NEW l \in Connecting PROVE Cardinality(Connecting) <= 1
      <4>1. Connecting = {l}
          BY <2>1, <3>2 DEF OneConnects
      <4>2. Cardinality({l}) = 1
          BY FS_Singleton
      <4> QED BY <4>1, <4>2
    <3> QED BY <3>1, <3>2
  <2> QED BY <2>1, <2>2 DEF LinksLimited, Connecting
<1> QED
    BY <1>1, UpstreamInvariant, PTL

\* The types, that a home lists its miner, and that clients and load of a link
\* are what the homes say while no miner has had two placements at once
\* (house, evict, sever).
THEOREM RostersStayAgreed == Spec => []RostersAgree
<1>1. ASSUME IInv PROVE RostersAgree
  <2>1. Typed /\ Rosters
      BY <1>1 DEF IInv
  <2>2. TypeOK
    <3>1. \A i \in DOMAIN links : links[i] \in LinkIds
        BY <2>1, SeqParts DEF Typed
    <3>2. idle \in [LinkIds -> BOOLEAN] /\ load \in [LinkIds -> Nat]
        BY <2>1, TypedParts
    <3>3. /\ left \in [LinkIds -> 0 .. Units] /\ clients \in [LinkIds -> SUBSET Clients]
          /\ home \in [Clients -> LinkIds \union {None}]
        BY <2>1, TypedParts
    <3> QED BY <2>1, <3>1, <3>2, <3>3 DEF TypeOK, Typed
  <2>3. Moment.clients = clients /\ Moment.load = load /\ Moment.home = home
      BY MomentFields
  <2>4. HomeListsMiner
      BY <2>1, <2>3 DEF Rosters, Lists, HomeListsMiner
  <2>5. RosterExact
    <3> SUFFICES ASSUME ~ closed, crossed = {}, NEW l \in Listed
                 PROVE  /\ clients[l] = {c \in Clients : home[c] = l}
                        /\ load[l] = Cardinality(clients[l])
        BY DEF RosterExact
    <3>1. l \in LinkIds /\ clients[l] \in SUBSET Clients
        BY <2>1, TypedParts
    <3>2. /\ \A c \in Clients : Alone(Moment, c)
          /\ Counted(Moment)
        BY <2>1 DEF Rosters, Clean
    <3>3. \A c \in Clients : c \in clients[l] <=> home[c] = l
        BY <2>3, <3>1, <3>2 DEF Alone
    <3>4. load[l] = Cardinality(clients[l])
        BY <2>3, <3>1, <3>2 DEF Counted
    <3> QED BY <3>1, <3>3, <3>4
  <2> QED BY <2>2, <2>4, <2>5 DEF RostersAgree
<1> QED
    BY <1>1, UpstreamInvariant, PTL

\* A miner that has gone is not live and no link lists it, whatever placement
\* was under way for it when it went (detach, attach, migrate).
THEOREM SlotsReleased == Spec => []SlotReleased
<1>1. ASSUME IInv PROVE SlotReleased
  <2> SUFFICES ASSUME ~ closed, NEW c \in Clients \ crossed, session[c] = "gone" PROVE Released(c)
      BY DEF SlotReleased
  <2>1. Clean(c) /\ Listed \subseteq LinkIds
      BY <1>1, TypedParts DEF IInv, Rosters
  <2>2. c \notin live /\ home[c] = None /\ \A l \in LinkIds : c \in clients[l] <=> home[c] = l
      BY <2>1, MomentFields DEF Clean, Alone
  <2> QED BY <2>1, <2>2, NoneAssumption DEF Released
<1> QED
    BY <1>1, UpstreamInvariant, PTL

-----------------------------------------------------------------------------
(* The job of a miner is the job of its home.                               *)

\* Nothing but what waits for a link comes after a task that has settled.
Late(s) ==
    \A i, k \in DOMAIN s : i < k /\ s[i].op = "settled" => s[k].op \in {"pick", "settled"}

\* The task is under way.
Under(t) ==
    \/ \E x \in Items(todo) : x.op \in {"pick", "settled"} /\ x.task = t
    \/ \E l \in LinkIds : \E w \in Items(waiting[l]) : w.task = t

\* A loop that has yet to serve the miner.
Serves(x, c) == x.op \in {"renew", "move"} /\ c \in x.clients

\* It serves the miners of one link.
InTurn(c) == \A x \in Items(todo) : Serves(x, c) => home[c] = x.on

\* A miner that is to move has not left its link meanwhile, or the link is lost.
Moving(c) ==
    \A t \in Task : Under(t) /\ t.client = c /\ t.kind \notin Attaching =>
        Orphan(c) \/ home[c] = t.from

Renewing(c) ==
    \/ \E x \in Items(todo) : x.op = "renew" /\ c \in x.clients
    \/ \E t \in Task : Under(t) /\ t.client = c /\ t.kind = "renew"

Fresh(c) ==
    home[c] \in Listed /\ session[c] = "in" =>
        has[c] = <<home[c], job[home[c]]>> \/ Renewing(c)

Served(c) == c \notin behind => Fresh(c)

Settles(c) == Moving(c) /\ Served(c)

\* What has grants has a job to send with them.
LinksSound == \A l \in Listed : left[l] > 0 => job[l] > 0

MinersSound ==
    /\ \A c \in Clients \ crossed : InTurn(c)
    /\ \A c \in live \ crossed : Settles(c)

JobInv ==
    /\ Late(todo)
    /\ closed => links = <<>>
    /\ ~ closed => LinksSound /\ MinersSound

\* A miner without a placement has no task under way.
LEMMA NoneUnder ==
    ASSUME Typed, NEW c, Placements(c) = 0, NEW t, t.client = c
    PROVE  ~ Under(t)
<1>1. todo \in Seq(Work) /\ waiting \in [LinkIds -> Seq(Waiter)]
    BY DEF Typed
<1>2. PICK H, R : H = Here(todo, c) /\ R = There(waiting, c)
    OBVIOUS
<1>3. /\ IsFiniteSet(H) /\ Cardinality(H) \in Nat
      /\ IsFiniteSet(R) /\ Cardinality(R) \in Nat
    BY <1>1, <1>2, ManyCounted
<1>4. Cardinality(H) + Cardinality(R) = 0
    BY <1>2 DEF Placements, Here, There
<1>5. H = {} /\ R = {}
  <2>1. Cardinality(H) = 0 /\ Cardinality(R) = 0
      BY <1>3, <1>4
  <2> QED BY <1>3, <2>1, FS_EmptySet
<1>6. ASSUME NEW x \in Items(todo), x.op \in {"pick", "settled"}, x.task = t PROVE FALSE
  <2>1. PICK i \in DOMAIN todo : x = todo[i]
      BY DEF Items
  <2>2. x \in Work
      BY <1>1, SeqParts
  <2>3. "task" \in DOMAIN x
      BY <1>6, <2>2, WorkParts
  <2> QED BY <1>2, <1>5, <1>6, <2>1, <2>3 DEF Here
<1>7. ASSUME NEW l \in LinkIds, NEW w \in Items(waiting[l]), w.task = t PROVE FALSE
  <2>1. PICK i \in DOMAIN waiting[l] : w = waiting[l][i]
      BY DEF Items
  <2>2. <<l, i>> \in There(waiting, c)
      BY <1>7, <2>1 DEF There
  <2> QED BY <1>2, <1>5, <2>2
<1> QED
    BY <1>6, <1>7 DEF Under

-----------------------------------------------------------------------------
(* The order of what is to be done.                                         *)

LEMMA LateTail ==
    ASSUME NEW s \in Seq(Work), s # <<>>, Late(s)
    PROVE  /\ Late(Tail(s))
           /\ Head(s).op = "settled" => \A x \in Items(s) : x.op \in {"pick", "settled"}
<1>1. /\ Tail(s) \in Seq(Work) /\ Head(s) = s[1] /\ 1 \in DOMAIN s
      /\ DOMAIN Tail(s) = 1 .. (Len(s) - 1)
      /\ \A i \in DOMAIN Tail(s) : Tail(s)[i] = s[i + 1] /\ i + 1 \in DOMAIN s
    BY SeqTail
<1>2. Len(s) \in Nat /\ DOMAIN s = 1 .. Len(s)
    BY SeqParts
<1>3. ASSUME NEW i \in DOMAIN Tail(s), NEW k \in DOMAIN Tail(s), i < k,
             Tail(s)[i].op = "settled"
      PROVE  Tail(s)[k].op \in {"pick", "settled"}
  <2>1. i + 1 < k + 1 /\ i + 1 \in DOMAIN s /\ k + 1 \in DOMAIN s
      BY <1>1, <1>2, <1>3
  <2>2. s[i + 1].op = "settled"
      BY <1>1, <1>3
  <2>3. s[k + 1].op \in {"pick", "settled"}
      BY <2>1, <2>2 DEF Late
  <2> QED BY <1>1, <1>3, <2>3
<1>4. Late(Tail(s))
    BY <1>3 DEF Late
<1>5. ASSUME Head(s).op = "settled", NEW x \in Items(s) PROVE x.op \in {"pick", "settled"}
  <2>1. PICK i \in DOMAIN s : x = s[i]
      BY DEF Items
  <2>2. i = 1 \/ 1 < i
      BY <1>2
  <2> QED BY <1>1, <1>5, <2>1, <2>2 DEF Late
<1> QED
    BY <1>4, <1>5

LEMMA LateAppend ==
    ASSUME NEW s \in Seq(Work), Late(s), NEW x \in Work, x.op = "settled"
    PROVE  Late(Append(s, x))
<1>1. PICK u : u = Append(s, x)
    OBVIOUS
<1>2. /\ DOMAIN u = 1 .. (Len(s) + 1)
      /\ \A i \in 1 .. Len(s) : u[i] = s[i]
      /\ u[Len(s) + 1] = x
    BY <1>1, SeqAppend
<1>3. Len(s) \in Nat /\ DOMAIN s = 1 .. Len(s)
    BY SeqParts
<1>4. ASSUME NEW i \in DOMAIN u, NEW k \in DOMAIN u, i < k, u[i].op = "settled"
      PROVE  u[k].op \in {"pick", "settled"}
  <2>1. i \in DOMAIN s
      BY <1>2, <1>3, <1>4
  <2>2. k \in DOMAIN s \/ k = Len(s) + 1
      BY <1>2, <1>3
  <2> QED BY <1>2, <1>3, <1>4, <2>1, <2>2 DEF Late
<1> QED
    BY <1>1, <1>4 DEF Late

\* Items that have not settled, before the rest.
LEMMA LateConcat ==
    ASSUME NEW s \in Seq(Work), NEW t \in Seq(Work), Late(t), NEW u, u = s \o t,
           \A i \in DOMAIN s : s[i].op # "settled"
    PROVE  Late(u)
<1>1. Joins(Work, s, t, u)
    BY SeqJoins
<1>2. Len(t) \in Nat /\ DOMAIN t = 1 .. Len(t) /\ Len(s) \in Nat /\ DOMAIN s = 1 .. Len(s)
    BY SeqParts
<1>3. PICK n \in Nat : n = Len(s)
    BY <1>2
<1>4. /\ DOMAIN u = 1 .. (n + Len(t))
      /\ \A i \in 1 .. n : u[i].op # "settled"
      /\ \A i \in 1 .. Len(t) : u[n + i] = t[i]
    BY <1>1, <1>2, <1>3 DEF Joins
<1>5. ASSUME NEW i \in DOMAIN u, NEW k \in DOMAIN u, i < k, u[i].op = "settled"
      PROVE  u[k].op \in {"pick", "settled"}
  <2>1. i \notin 1 .. n
      BY <1>4, <1>5
  <2>2. PICK a, b \in DOMAIN t : i = n + a /\ k = n + b /\ a < b
    <3>1. i - n \in DOMAIN t /\ k - n \in DOMAIN t /\ i - n < k - n
        BY <1>2, <1>4, <1>5, <2>1
    <3>2. i = n + (i - n) /\ k = n + (k - n)
        BY <1>2, <1>4
    <3> QED BY <3>1, <3>2
  <2>3. u[i] = t[a] /\ u[k] = t[b]
      BY <1>2, <1>4, <2>2
  <2> QED BY <1>5, <2>2, <2>3 DEF Late
<1> QED
    BY <1>5 DEF Late

LEMMA LateBefore ==
    ASSUME NEW t \in Seq(Work), Late(t), NEW x \in Work, x.op # "settled", NEW u, u = Atop(x, t)
    PROVE  Late(u)
<1> DEFINE one == <<x>>
<1>1. one \in Seq(Work) /\ \A i \in DOMAIN one : one[i] = x
    OBVIOUS
<1>2. u = one \o t
    BY DEF Atop
<1> HIDE DEF one
<1> QED
    BY <1>1, <1>2, LateConcat

LEMMA LateTwo ==
    ASSUME NEW t \in Seq(Work), Late(t), NEW x \in Work, NEW y \in Work,
           x.op # "settled", y.op # "settled", NEW u, u = AtopTwo(x, y, t)
    PROVE  Late(u)
<1> DEFINE two == <<x, y>>
<1>1. two \in Seq(Work) /\ \A i \in DOMAIN two : two[i] = x \/ two[i] = y
    OBVIOUS
<1>2. u = two \o t
    BY DEF AtopTwo
<1> HIDE DEF two
<1> QED
    BY <1>1, <1>2, LateConcat

\* A turn of a loop keeps the order.
LEMMA LateTurn ==
    ASSUME Typed, todo # <<>>, Late(todo), NEW t \in Task, NEW next \in Work, TurnTo(t, next),
           next.op # "settled"
    PROVE  Late(todo')
<1>1. PICK rest \in Seq(Work) : rest = Tail(todo)
    BY HeadParts
<1>2. PICK p \in Work : p = PickCall(t) /\ p.op = "pick"
    BY WorkMade
<1>3. Late(rest)
    BY <1>1, LateTail DEF Typed
<1>4. todo' = IF next.clients = {} THEN <<p>> \o rest ELSE <<p, next>> \o rest
    BY <1>1, <1>2 DEF TurnTo
<1>5. PICK u, v : u = Atop(p, rest) /\ v = AtopTwo(p, next, rest)
    OBVIOUS
<1>6. Late(u) /\ Late(v)
    BY <1>2, <1>3, <1>5, LateBefore, LateTwo
<1> QED
    BY <1>4, <1>5, <1>6 DEF Atop, AtopTwo

\* Nothing but calls of pick and settled tasks, or no settled task.
LEMMA LateFlat ==
    ASSUME NEW s, \/ \A x \in Items(s) : x.op \in {"pick", "settled"}
                  \/ \A x \in Items(s) : x.op # "settled"
    PROVE  Late(s)
<1> QED
    BY DEF Late, Items

-----------------------------------------------------------------------------
(* What steps have in common.                                               *)

LEMMA UnderPrime ==
    \A t : Under(t)' <=> \/ \E x \in Items(todo') : x.op \in {"pick", "settled"} /\ x.task = t
                         \/ \E l \in LinkIds : \E w \in Items(waiting'[l]) : w.task = t
<1> QED
    BY DEF Under, Items

\* The turn of a miner is kept: each loop that is to serve it was to do so.
LEMMA TurnKept ==
    ASSUME NEW d, InTurn(d), home'[d] = home[d],
           \A x \in Items(todo') : Serves(x, d) =>
               \E y \in Items(todo) : Serves(y, d) /\ y.on = x.on
    PROVE  InTurn(d)'
<1>1. InTurn(d)' <=> \A x \in Items(todo') : Serves(x, d) => home'[d] = x.on
    BY DEF InTurn, Items, Serves
<1> QED
    BY <1>1 DEF InTurn

\* A miner is served after the step, if it is but for what the history tells.
LEMMA ServedNext ==
    ASSUME Remembers, NEW d \in Clients, d \notin behind /\ d \notin Stalling => Fresh(d)'
    PROVE  Served(d)'
<1> SUFFICES ASSUME d \notin behind' PROVE Fresh(d)'
    BY DEF Served
<1>1. Current(d)' \/ d \notin behind \union Stalling
    BY DEF Remembers
<1>2. Current(d)' => Fresh(d)'
    BY DEF Current, Fresh
<1> QED
    BY <1>1, <1>2

\* So are the place of a miner and its job, for a step that moves neither.
LEMMA PlaceKept ==
    ASSUME Remembers, NEW d \in Clients, Settles(d), home'[d] = home[d],
           has[d] = <<home[d], job[home[d]]>> => has'[d] = has[d],
           home[d] \in Listed' => home[d] \in Listed /\ job'[home[d]] = job[home[d]],
           session'[d] = "in" => session[d] = "in",
           Orphan(d) => Orphan(d)',
           Renewing(d) => Renewing(d)',
           \A t \in Task : Under(t)' /\ t.client = d /\ t.kind \notin Attaching =>
               Under(t) \/ home[d] = t.from
    PROVE  Settles(d)'
<1>1. Moving(d)'
  <2> SUFFICES ASSUME NEW t \in Task, Under(t)', t.client = d, t.kind \notin Attaching
               PROVE  Orphan(d)' \/ home'[d] = t.from
      BY DEF Moving
  <2>1. Orphan(d) \/ home[d] = t.from
      BY DEF Settles, Moving
  <2> QED BY <2>1
<1>2. d \notin behind => Fresh(d)'
    BY DEF Settles, Served, Fresh
<1>3. Served(d)'
    BY <1>2, ServedNext
<1> QED
    BY <1>1, <1>3 DEF Settles

\* Renewing, when no loop that renews is cut and no task is gone.
LEMMA RenewingKept ==
    ASSUME NEW d, Renewing(d),
           \A x \in Items(todo) : x.op = "renew" /\ d \in x.clients =>
               (\E y \in Items(todo') : y.op = "renew" /\ d \in y.clients),
           \A t \in Task : Under(t) /\ t.client = d /\ t.kind = "renew" => Under(t)'
    PROVE  Renewing(d)'
<1>1. (\E y \in Items(todo') : y.op = "renew" /\ d \in y.clients) => Renewing(d)'
    BY DEF Renewing, Items
<1>2. (\E t \in Task : Under(t)' /\ t.client = d /\ t.kind = "renew") => Renewing(d)'
    BY DEF Renewing
<1> QED
    BY <1>1, <1>2 DEF Renewing

\* The links, for a step that changes none.
LEMMA SoundKept ==
    ASSUME LinksSound, links' = links, job' = job, Listed \subseteq LinkIds,
           \A l \in LinkIds : left'[l] > 0 => left[l] > 0
    PROVE  LinksSound'
<1>1. Listed' = Listed
    BY DEF Listed
<1> QED
    BY <1>1 DEF LinksSound

\* A step that changes what is to be done and neither links nor miners.
LEMMA TodoOnly ==
    ASSUME IInv, JobInv, Remembers, Late(todo'),
           links' = links, phase' = phase, job' = job, left' = left, clients' = clients,
           waiting' = waiting, home' = home, has' = has, live' = live, session' = session,
           closed' = closed,
           ~ closed => \A d \in Clients \ crossed : \A x \in Items(todo') :
               Serves(x, d) => home[d] = x.on,
           \A d \in Clients \ crossed : Orphan(d) => Orphan(d)',
           \A d \in Clients \ crossed : Renewing(d) => Renewing(d)',
           ~ closed => \A d \in Clients \ crossed : \A t \in Task :
               Under(t)' /\ t.client = d /\ t.kind \notin Attaching =>
                   Under(t) \/ home[d] = t.from
    PROVE  JobInv'
<1>1. Late(todo)' /\ (closed => links = <<>>)'
    BY DEF JobInv, Late
<1> SUFFICES ASSUME ~ closed PROVE LinksSound' /\ MinersSound'
    BY <1>1 DEF JobInv
<1>2. LinksSound /\ MinersSound /\ Listed \subseteq LinkIds /\ live \subseteq Clients
    BY TypedParts DEF JobInv, IInv, Typed
<1>3. Listed' = Listed
    BY DEF Listed
<1>5. LinksSound'
    BY <1>2, SoundKept
<1>6. ASSUME NEW d \in Clients \ crossed' PROVE InTurn(d)'
  <2>1. InTurn(d)' <=> \A x \in Items(todo') : Serves(x, d) => home'[d] = x.on
      BY DEF InTurn, Items, Serves
  <2> QED BY <1>6, <2>1 DEF Remembers
<1>7. ASSUME NEW d \in live' \ crossed' PROVE Settles(d)'
  <2>1. d \in Clients \ crossed /\ Settles(d)
      BY <1>2, <1>7 DEF MinersSound, Remembers
  <2>2. \A t \in Task : Under(t)' /\ t.client = d /\ t.kind \notin Attaching =>
               Under(t) \/ home[d] = t.from
      BY <2>1
  <2> QED BY <1>3, <2>1, <2>2, PlaceKept
<1> QED
    BY <1>5, <1>6, <1>7 DEF MinersSound

\* Items that are neither a task nor a loop: their comings and goings.
LEMMA JobPickSettles ==
    ASSUME IInv, JobInv, Remembers, todo # <<>>, Head(todo).op = "pick",
           NEW l \in LinkIds \union {None},
           todo' = Append(Tail(todo), Settled(Head(todo).task, l)),
           UNCHANGED <<link, waiting, has, home, live, session, closed>>
    PROVE  JobInv'
<1>1. Typed /\ todo \in Seq(Work) /\ Late(todo)
    BY DEF IInv, Typed, JobInv
<1>2. /\ links' = links /\ phase' = phase /\ job' = job /\ left' = left /\ clients' = clients
      /\ load' = load /\ idle' = idle /\ waiting' = waiting /\ has' = has /\ home' = home
      /\ live' = live /\ session' = session /\ closed' = closed
    BY DEF link
<1>3. /\ Head(todo) \in Work /\ Head(todo).task \in Task /\ Tail(todo) \in Seq(Work)
      /\ Items(todo) = {Head(todo)} \union Items(Tail(todo))
    BY <1>1, HeadParts
<1>4. PICK x \in Work : /\ x = Settled(Head(todo).task, l) /\ x.op = "settled"
                        /\ x.task = Head(todo).task /\ x.on = l
    BY <1>3, WorkMade
<1>5. Items(todo') = Items(Tail(todo)) \union {x} /\ Late(todo')
  <2>1. PICK rest \in Seq(Work) : rest = Tail(todo)
      BY <1>3
  <2>2. Items(Append(rest, x)) = Items(rest) \union {x}
      BY SeqAppend
  <2>3. Late(rest)
      BY <1>1, <2>1, LateTail
  <2>4. Late(Append(rest, x))
      BY <1>4, <2>3, LateAppend
  <2>5. todo' = Append(rest, x)
      BY <1>4, <2>1
  <2> QED BY <2>1, <2>2, <2>4, <2>5
<1>6. \A t : Under(t)' <=> Under(t)
    BY <1>2, <1>3, <1>4, <1>5, UnderPrime DEF Under
<1>7. \A d : Orphan(d) => Orphan(d)'
    BY <1>3, <1>4, <1>5, DuePrime DEF Orphan
<1>8. \A d : Renewing(d) => Renewing(d)'
  <2>1. \A d : \A y \in Items(todo) : y.op = "renew" /\ d \in y.clients =>
            \E z \in Items(todo') : z.op = "renew" /\ d \in z.clients
      BY <1>3, <1>5
  <2> QED BY <1>6, <2>1, RenewingKept
<1>9. ~ closed => \A d \in Clients \ crossed : \A y \in Items(todo') :
            Serves(y, d) => home[d] = y.on
  <2>1. \A d : \A y \in Items(todo') : Serves(y, d) => y \in Items(todo)
      BY <1>3, <1>4, <1>5 DEF Serves
  <2> QED BY <2>1 DEF JobInv, MinersSound, InTurn
<1> QED
    BY <1>2, <1>5, <1>6, <1>7, <1>8, <1>9, TodoOnly

LEMMA JobPickWaits ==
    ASSUME IInv, JobInv, Remembers, todo # <<>>, Head(todo).op = "pick", ~ closed,
           NEW l \in Connecting,
           waiting' = [waiting EXCEPT ![l] =
                         Append(waiting[l], [task |-> Head(todo).task, roomiest |-> None])],
           todo' = Tail(todo),
           UNCHANGED <<link, has, home, live, session, closed>>
    PROVE  JobInv'
<1>1. /\ Typed /\ todo \in Seq(Work) /\ Late(todo) /\ LinksSound /\ MinersSound
      /\ Listed \subseteq LinkIds /\ live \subseteq Clients
    BY TypedParts DEF IInv, Typed, JobInv
<1>2. /\ links' = links /\ phase' = phase /\ job' = job /\ left' = left /\ clients' = clients
      /\ load' = load /\ idle' = idle /\ has' = has /\ home' = home
      /\ live' = live /\ session' = session /\ closed' = closed
    BY DEF link
<1>3. /\ Head(todo) \in Work /\ Head(todo).task \in Task /\ Tail(todo) \in Seq(Work)
      /\ Items(todo) = {Head(todo)} \union Items(Tail(todo))
    BY <1>1, HeadParts
<1>4. PICK w \in Waiter : /\ w = [task |-> Head(todo).task, roomiest |-> None]
                          /\ w.task = Head(todo).task /\ w.roomiest = None
    BY <1>3 DEF Waiter
<1>5. l \in LinkIds /\ waiting \in [LinkIds -> Seq(Waiter)] /\ waiting[l] \in Seq(Waiter)
    BY <1>1 DEF Connecting, Typed
<1>6. /\ Items(waiting'[l]) = Items(waiting[l]) \union {w}
      /\ \A k \in LinkIds : k # l => waiting'[k] = waiting[k]
  <2>1. PICK s \in Seq(Waiter) : s = waiting[l]
      BY <1>5
  <2>2. Items(Append(s, w)) = Items(s) \union {w}
      BY SeqAppend
  <2>3. waiting'[l] = Append(s, w)
      BY <1>4, <1>5, <2>1
  <2> QED BY <1>5, <2>1, <2>2, <2>3
<1>7. \A t : Under(t)' <=> Under(t)
  <2>1. \A t : (\E k \in LinkIds : \E v \in Items(waiting'[k]) : v.task = t) <=>
                \/ \E k \in LinkIds : \E v \in Items(waiting[k]) : v.task = t
                \/ w.task = t
      BY <1>5, <1>6
  <2> QED BY <1>3, <1>4, <2>1, UnderPrime DEF Under
<1>8. \A d : Orphan(d) => Orphan(d)'
    BY <1>3, DuePrime DEF Orphan
<1>9. \A d : Renewing(d) => Renewing(d)'
  <2>1. \A d : \A y \in Items(todo) : y.op = "renew" /\ d \in y.clients =>
            \E z \in Items(todo') : z.op = "renew" /\ d \in z.clients
      BY <1>3
  <2> QED BY <1>7, <2>1, RenewingKept
<1>10. Late(todo)'
  <2>1. PICK rest \in Seq(Work) : rest = Tail(todo)
      BY <1>3
  <2>2. Late(rest)
      BY <1>1, <2>1, LateTail
  <2> QED BY <2>1, <2>2 DEF Late
<1>11. Listed' = Listed
    BY <1>2 DEF Listed
<1>12. LinksSound'
    BY <1>1, <1>2, SoundKept
<1>13. ASSUME NEW d \in Clients \ crossed' PROVE InTurn(d)'
  <2>1. InTurn(d)
      BY <1>1, <1>13 DEF MinersSound, Remembers
  <2> QED BY <1>2, <1>3, <2>1, TurnKept
<1>14. ASSUME NEW d \in live' \ crossed' PROVE Settles(d)'
  <2>1. d \in Clients /\ Settles(d)
      BY <1>1, <1>2, <1>14 DEF MinersSound, Remembers
  <2> QED BY <1>2, <1>7, <1>8, <1>9, <1>11, <2>1, PlaceKept
<1> QED
    BY <1>2, <1>10, <1>12, <1>13, <1>14 DEF JobInv, MinersSound

\* What nothing refers to is the place of no miner, and none is to go there.
LEMMA UnusedIs ==
    ASSUME IInv, NEW l \in LinkIds, Unused(l)
    PROVE  /\ l \notin Listed /\ clients[l] = {} /\ waiting[l] = <<>>
           /\ \A d \in Clients : home[d] # l
           /\ \A x \in Items(todo) :
                  /\ x.op \in {"settled", "renew", "move", "sweep"} => x.on # l
                  /\ x.op \in {"pick", "settled"} => x.task.from # l
           /\ \A k \in LinkIds : \A w \in Items(waiting[k]) : w.task.from # l /\ w.roomiest # l
<1>1. /\ l \notin Listed /\ clients[l] = {} /\ waiting[l] = <<>>
      /\ \A d \in Clients : home[d] # l
    BY DEF Unused
<1>2. \A k \in LinkIds : \A w \in Items(waiting[k]) : w.task.from # l /\ w.roomiest # l
    BY DEF Unused, Items
<1>3. ASSUME NEW x \in Items(todo)
      PROVE  /\ x.op \in {"settled", "renew", "move", "sweep"} => x.on # l
             /\ x.op \in {"pick", "settled"} => x.task.from # l
  <2>1. x \in Work
      BY <1>3, SeqParts DEF IInv, Typed
  <2>2. PICK i \in DOMAIN todo : x = todo[i]
      BY <1>3 DEF Items
  <2>3. ("on" \in DOMAIN x => x.on # l) /\ ("task" \in DOMAIN x => x.task.from # l)
      BY <2>2 DEF Unused
  <2>4. x.op \in {"settled", "renew", "move", "sweep"} => "on" \in DOMAIN x
      BY <2>1 DEF Work
  <2>5. x.op \in {"pick", "settled"} => "task" \in DOMAIN x
      BY <2>1, WorkParts
  <2> QED BY <2>3, <2>4, <2>5
<1> QED
    BY <1>1, <1>2, <1>3

LEMMA JobPickOpens ==
    ASSUME IInv, JobInv, Remembers, todo # <<>>, Head(todo).op = "pick", ~ closed,
           NEW l \in LinkIds, Unused(l), NEW r \in LinkIds \union {None},
           links' = Append(links, l),
           phase' = [phase EXCEPT ![l] = "tcp"],
           job' = [job EXCEPT ![l] = 0],
           left' = [left EXCEPT ![l] = 0],
           waiting' = [waiting EXCEPT ![l] = <<[task |-> Head(todo).task, roomiest |-> r]>>],
           has' = [c \in Clients |-> IF has[c][1] = l THEN NoJob ELSE has[c]],
           todo' = Tail(todo), r # l,
           UNCHANGED <<clients, home, live, session, closed>>
    PROVE  JobInv'
<1>1. /\ Typed /\ todo \in Seq(Work) /\ Late(todo) /\ LinksSound /\ MinersSound
      /\ Listed \subseteq LinkIds /\ live \subseteq Clients
    BY TypedParts DEF IInv, Typed, JobInv
<1>2. /\ clients' = clients /\ home' = home /\ live' = live /\ session' = session
      /\ closed' = closed
    OBVIOUS
<1>3. /\ Head(todo) \in Work /\ Head(todo).task \in Task /\ Tail(todo) \in Seq(Work)
      /\ Items(todo) = {Head(todo)} \union Items(Tail(todo))
    BY <1>1, HeadParts
<1>4. PICK w \in Waiter : /\ w = [task |-> Head(todo).task, roomiest |-> r]
                          /\ w.task = Head(todo).task /\ w.roomiest = r
  <2>1. PICK v : v = [task |-> Head(todo).task, roomiest |-> r]
      OBVIOUS
  <2>2. v \in Waiter /\ v.task = Head(todo).task /\ v.roomiest = r
      BY <1>3, <2>1 DEF Waiter
  <2> QED BY <2>1, <2>2
<1>5. /\ phase \in [LinkIds -> {"tcp", "login", "up", "down"}] /\ links \in Seq(LinkIds)
      /\ job \in [LinkIds -> 0 .. MaxJobs] /\ left \in [LinkIds -> 0 .. Units]
      /\ waiting \in [LinkIds -> Seq(Waiter)]
    BY <1>1, TypedParts DEF Typed
<1>6. /\ l \notin Listed /\ clients[l] = {} /\ waiting[l] = <<>>
      /\ \A d \in Clients : home[d] # l
      /\ \A x \in Items(todo) :
             /\ x.op \in {"settled", "renew", "move", "sweep"} => x.on # l
             /\ x.op \in {"pick", "settled"} => x.task.from # l
      /\ \A k \in LinkIds : \A v \in Items(waiting[k]) : v.task.from # l /\ v.roomiest # l
    BY UnusedIs
<1>7. /\ waiting'[l] = <<w>> /\ Items(waiting'[l]) = {w}
      /\ \A k \in LinkIds : k # l => waiting'[k] = waiting[k]
  <2>1. waiting'[l] = <<w>> /\ \A k \in LinkIds : k # l => waiting'[k] = waiting[k]
      BY <1>4, <1>5
  <2>2. \A v : Items(<<v>>) = {v}
      BY DEF Items
  <2> QED BY <2>1, <2>2
<1>8. Listed' = Listed \union {l}
  <2>1. Items(Append(links, l)) = Items(links) \union {l}
      BY <1>5, SeqAppend
  <2>2. Listed' = Items(Append(links, l)) /\ Listed = Items(links)
      BY DEF Listed, Items
  <2> QED BY <2>1, <2>2
<1>9. /\ phase'[l] = "tcp" /\ job'[l] = 0 /\ left'[l] = 0
      /\ \A k \in LinkIds : k # l => phase'[k] = phase[k] /\ job'[k] = job[k] /\ left'[k] = left[k]
    BY <1>5
<1>10. \A t : Under(t)' <=> Under(t)
  <2>1. Items(waiting[l]) = {}
      BY <1>6 DEF Items
  <2>2. \A t : (\E k \in LinkIds : \E v \in Items(waiting'[k]) : v.task = t) <=>
                \/ \E k \in LinkIds : \E v \in Items(waiting[k]) : v.task = t
                \/ w.task = t
      BY <1>7, <2>1
  <2> QED BY <1>3, <1>4, <2>2, UnderPrime DEF Under
<1>11. \A d : Orphan(d) => Orphan(d)'
    BY <1>3, DuePrime DEF Orphan
<1>12. \A d : Renewing(d) => Renewing(d)'
  <2>1. \A d : \A y \in Items(todo) : y.op = "renew" /\ d \in y.clients =>
            \E z \in Items(todo') : z.op = "renew" /\ d \in z.clients
      BY <1>3
  <2> QED BY <1>10, <2>1, RenewingKept
<1>13. Late(todo)'
  <2>1. PICK rest \in Seq(Work) : rest = Tail(todo)
      BY <1>3
  <2>2. Late(rest)
      BY <1>1, <2>1, LateTail
  <2> QED BY <2>1, <2>2 DEF Late
<1>15. LinksSound'
  <2>1. \A k \in Listed : left[k] > 0 => job[k] > 0
      BY <1>1 DEF LinksSound
  <2>2. ~ (0 > 0)
      OBVIOUS
  <2> QED BY <1>1, <1>8, <1>9, <2>1, <2>2 DEF LinksSound
<1>16. ASSUME NEW d \in Clients \ crossed' PROVE InTurn(d)'
  <2>1. InTurn(d)
      BY <1>1, <1>16 DEF MinersSound, Remembers
  <2> QED BY <1>2, <1>3, <2>1, TurnKept
<1>17. ASSUME NEW d \in live' \ crossed' PROVE Settles(d)'
  <2>1. Settles(d) /\ d \in Clients /\ home[d] # l
      BY <1>1, <1>2, <1>6, <1>17 DEF MinersSound, Remembers
  <2>3. has[d] = <<home[d], job[home[d]]>> => has'[d] = has[d]
    <3>1. has[d] = <<home[d], job[home[d]]>> => has[d][1] = home[d]
        OBVIOUS
    <3> QED BY <2>1, <3>1
  <2>4. home[d] \in Listed' => home[d] \in Listed /\ job'[home[d]] = job[home[d]]
      BY <1>1, <1>8, <1>9, <2>1
  <2> QED BY <1>2, <1>10, <1>11, <1>12, <2>1, <2>3, <2>4, PlaceKept
<1> QED
    BY <1>2, <1>13, <1>15, <1>16, <1>17 DEF JobInv, MinersSound

LEMMA JobPick ==
    ASSUME IInv, JobInv, Remembers, RunPick
    PROVE  JobInv'
<1>1. /\ todo # <<>> /\ Head(todo).op = "pick" /\ Pick(Head(todo).task, Tail(todo))
      /\ UNCHANGED <<home, live, session, closed>>
    BY DEF RunPick
<1> DEFINE task == Head(todo).task
           rest == Tail(todo)
<1>2. /\ Candidates(task) \subseteq Listed /\ Roomiest(task) \subseteq Listed \union {None}
      /\ Listed \subseteq LinkIds /\ None \notin Listed
    BY TypedParts, NoneAssumption DEF IInv, Candidates, Roomiest
<1>4. CASE closed /\ todo' = Append(rest, Settled(task, None)) /\ UNCHANGED <<link, waiting, has>>
    BY <1>1, <1>4, JobPickSettles
<1>5. CASE /\ ~ closed
           /\ \E best \in Candidates(task) : todo' = Append(rest, Settled(task, best))
           /\ UNCHANGED <<link, waiting, has>>
    BY <1>1, <1>2, <1>5, JobPickSettles
<1>6. CASE /\ ~ closed /\ Connecting # {}
           /\ \E l \in Connecting :
                 waiting' = [waiting EXCEPT ![l] =
                               Append(waiting[l], [task |-> task, roomiest |-> None])]
           /\ todo' = rest
           /\ UNCHANGED <<link, has>>
    BY <1>1, <1>6, JobPickWaits
<1>7. CASE /\ ~ closed /\ Connecting = {} /\ Len(links) >= MaxLinks
           /\ \E l \in Roomiest(task) : todo' = Append(rest, Settled(task, l))
           /\ UNCHANGED <<link, waiting, has>>
    BY <1>1, <1>2, <1>7, JobPickSettles
<1>8. CASE /\ ~ closed /\ Connecting = {} /\ Len(links) < MaxLinks
           /\ \E l \in {k \in LinkIds : Unused(k)}, r \in Roomiest(task) :
                 /\ links' = Append(links, l)
                 /\ phase' = [phase EXCEPT ![l] = "tcp"]
                 /\ job' = [job EXCEPT ![l] = 0]
                 /\ left' = [left EXCEPT ![l] = 0]
                 /\ load' = [load EXCEPT ![l] = 0]
                 /\ idle' = [idle EXCEPT ![l] = FALSE]
                 /\ waiting' = [waiting EXCEPT ![l] = <<[task |-> task, roomiest |-> r]>>]
                 /\ has' = [c \in Clients |-> IF has[c][1] = l THEN NoJob ELSE has[c]]
           /\ todo' = rest
           /\ UNCHANGED clients
  <2>1. PICK l \in {k \in LinkIds : Unused(k)}, r \in Roomiest(task) :
                 /\ links' = Append(links, l)
                 /\ phase' = [phase EXCEPT ![l] = "tcp"]
                 /\ job' = [job EXCEPT ![l] = 0]
                 /\ left' = [left EXCEPT ![l] = 0]
                 /\ load' = [load EXCEPT ![l] = 0]
                 /\ idle' = [idle EXCEPT ![l] = FALSE]
                 /\ waiting' = [waiting EXCEPT ![l] = <<[task |-> task, roomiest |-> r]>>]
                 /\ has' = [c \in Clients |-> IF has[c][1] = l THEN NoJob ELSE has[c]]
      BY <1>8
  <2>2. l \in LinkIds /\ Unused(l) /\ r \in LinkIds \union {None}
      BY <1>2, <1>8
  <2>3. r # l
      BY <1>2, <2>2, NoneAssumption DEF Unused
  <2> QED BY <1>1, <1>8, <2>1, <2>2, <2>3, JobPickOpens
<1> QED
    BY <1>1, <1>4, <1>5, <1>6, <1>7, <1>8 DEF Pick

\* From one moment to another only one miner is moved or served, and no link has
\* more to grant.
Beside(m, n, c) ==
    /\ n \in MomentType
    /\ \A d \in Clients \ {c} : n.home[d] = m.home[d] /\ n.has[d] = m.has[d]
    /\ \A l \in LinkIds : n.left[l] > 0 => m.left[l] > 0

LEMMA BesideAgain ==
    ASSUME NEW m, NEW n, NEW o, NEW c, Beside(m, n, c), Beside(n, o, c)
    PROVE  Beside(m, o, c)
<1> QED
    BY DEF Beside

LEMMA HouseBeside ==
    ASSUME NEW m \in MomentType, NEW l \in LinkIds, NEW c \in Clients, NEW n, n = House(m, l, c)
    PROVE  Beside(m, n, c) /\ n.home[c] = l /\ n.has[c] = m.has[c]
<1>1. /\ n \in MomentType
      /\ n.clients = [m.clients EXCEPT ![l] = m.clients[l] \union {c}]
      /\ n.load = [m.load EXCEPT ![l] = m.load[l] + 1]
      /\ n.home = [m.home EXCEPT ![c] = l]
      /\ n.left = m.left /\ n.has = m.has
    BY HouseIs
<1>2. m.home \in [Clients -> LinkIds \union {None}]
    BY MomentParts
<1> QED
    BY <1>1, <1>2 DEF Beside

LEMMA EvictBeside ==
    ASSUME NEW m \in MomentType, NEW c \in Clients, NEW n, n = Evict(m, c)
    PROVE  Beside(m, n, c) /\ n.home[c] = None /\ n.has[c] = m.has[c]
<1>1. /\ n \in MomentType /\ n.home = [m.home EXCEPT ![c] = None]
      /\ n.left = m.left /\ n.has = m.has
    BY EvictIs
<1>2. m.home \in [Clients -> LinkIds \union {None}]
    BY MomentParts
<1> QED
    BY <1>1, <1>2 DEF Beside

LEMMA MoveBeside ==
    ASSUME NEW m \in MomentType, NEW l \in LinkIds, NEW c \in Clients,
           NEW n, n = House(Evict(m, c), l, c)
    PROVE  Beside(m, n, c) /\ n.home[c] = l /\ n.has[c] = m.has[c]
<1>1. PICK e : e = Evict(m, c)
    OBVIOUS
<1>2. Beside(m, e, c) /\ e.has[c] = m.has[c] /\ e \in MomentType
    BY <1>1, EvictBeside DEF Beside
<1>3. n = House(e, l, c)
    BY <1>1
<1>4. Beside(e, n, c) /\ n.home[c] = l /\ n.has[c] = e.has[c]
    BY <1>2, <1>3, HouseBeside
<1> QED
    BY <1>2, <1>4, BesideAgain

LEMMA GrantBeside ==
    ASSUME NEW m \in MomentType, NEW l \in LinkIds, NEW c \in Clients, m.left[l] > 0,
           job \in [LinkIds -> 0 .. MaxJobs], NEW n, n = Grant(m, l, c)
    PROVE  /\ Beside(m, n, c) /\ n.home[c] = m.home[c] /\ n.clients = m.clients
           /\ job[l] > 0 => n.has[c] = <<l, job[l]>>
<1> DEFINE le == [m.left EXCEPT ![l] = m.left[l] - 1]
           ha == [m.has EXCEPT ![c] = IF job[l] > 0 THEN <<l, job[l]>> ELSE m.has[c]]
<1>1. n = [m EXCEPT !.left = le, !.has = ha]
    BY DEF Grant
<1>2. m.has \in [Clients -> (LinkIds \union {None}) \X Nat] /\ m.left \in [LinkIds -> 0 .. Units]
    BY MomentParts
<1>3. /\ \A d \in Clients \ {c} : ha[d] = m.has[d]
      /\ job[l] > 0 => ha[c] = <<l, job[l]>>
    BY <1>2
<1>4. \A k \in LinkIds : le[k] > 0 => m.left[k] > 0
    BY <1>2
<1> HIDE DEF le, ha
<1>5. n.left = le /\ n.has = ha /\ n.home = m.home /\ n.clients = m.clients
    BY <1>1 DEF MomentType
<1>6. n \in MomentType
    BY GrantIs
<1> QED
    BY <1>3, <1>4, <1>5, <1>6 DEF Beside

LEMMA GoneBeside ==
    ASSUME NEW m \in MomentType, NEW c \in Clients, NEW n, n = Gone(m, c)
    PROVE  Beside(m, n, c) /\ n.home[c] = None
<1>1. PICK e : e = Evict(m, c)
    OBVIOUS
<1>2. Beside(m, e, c) /\ e.home[c] = None /\ e \in MomentType
    BY <1>1, EvictBeside DEF Beside
<1>3. n \in MomentType /\ n.home = e.home
    BY <1>1, GoneIs
<1> DEFINE ha == [e.has EXCEPT ![c] = NoJob]
<1>4. n = [e EXCEPT !.has = ha]
    BY <1>1 DEF Gone
<1>5. \A d \in Clients \ {c} : ha[d] = e.has[d]
    BY <1>2, MomentParts
<1> HIDE DEF ha
<1>6. n.has = ha /\ n.left = e.left
    BY <1>2, <1>4 DEF MomentType
<1>7. Beside(e, n, c)
    BY <1>3, <1>5, <1>6 DEF Beside
<1> QED
    BY <1>2, <1>3, <1>7, BesideAgain

\* The miner of a settled task is placed on a link and gets its job, or it stays
\* or goes, or the history has it; the others stay.
LEMMA JobPlaced ==
    ASSUME IInv, JobInv, Remembers, todo # <<>>, Head(todo).op = "settled", todo' = Tail(todo),
           UNCHANGED <<links, phase, job, closed, waiting>>,
           NEW c \in Clients, Head(todo).task.client = c,
           NEW m, Beside(Moment, m, c), Become(m),
           \A d \in Clients \ {c} : session'[d] = session[d],
           \A d \in Clients \ {c} : d \in live' => d \in live, live' \subseteq Clients,
           ~ closed /\ c \in live' \ crossed /\ c \notin behind \union Stalling =>
               (m.home[c] \in Listed /\ session'[c] = "in" =>
                    m.has[c] = <<m.home[c], job[m.home[c]]>>)
    PROVE  JobInv'
<1>1. /\ Typed /\ PlacedOnce /\ todo \in Seq(Work) /\ Late(todo) /\ Listed \subseteq LinkIds
      /\ closed => links = <<>>
    BY TypedParts DEF IInv, Typed, JobInv
<1>2. /\ links' = links /\ phase' = phase /\ job' = job /\ closed' = closed /\ waiting' = waiting
      /\ home' = m.home /\ has' = m.has /\ left' = m.left
    BY DEF Become
<1>3. /\ Head(todo) \in Work /\ Head(todo).task \in Task /\ Items(todo') \subseteq Work
      /\ Items(todo) = {Head(todo)} \union Items(todo')
    BY <1>1, HeadParts
<1>4. \A x \in Items(todo) : x.op \in {"pick", "settled"}
    BY <1>1, LateTail
<1>5. Late(todo)'
    BY <1>3, <1>4, LateFlat DEF Late
<1> SUFFICES ASSUME ~ closed PROVE LinksSound' /\ MinersSound'
    BY <1>1, <1>2, <1>5 DEF JobInv
<1>6. LinksSound /\ MinersSound
    BY DEF JobInv
<1>7. Listed' = Listed
    BY <1>2 DEF Listed
<1>8. LinksSound'
  <2>2. \A l \in LinkIds : left'[l] > 0 => left[l] > 0
      BY <1>2, MomentFields DEF Beside
  <2> QED BY <1>1, <1>2, <1>6, <2>2, SoundKept
<1>9. ASSUME NEW d \in Clients \ crossed' PROVE InTurn(d)'
  <2>1. InTurn(d)' <=> \A x \in Items(todo') : Serves(x, d) => home'[d] = x.on
      BY DEF InTurn, Items, Serves
  <2> QED BY <1>3, <1>4, <2>1 DEF Serves
<1>10. ASSUME NEW d \in live' \ crossed' PROVE Settles(d)'
  <2>1. d \in Clients \ crossed
      BY <1>10 DEF Remembers
  <2>2. CASE d = c
    <3>1. /\ \A x \in Items(todo') : x.op \in {"pick", "settled"} => x.task.client # c
          /\ \A l \in LinkIds : \A w \in Items(waiting[l]) : w.task.client # c
        BY <1>1, <2>1, <2>2, Single
    <3>2. \A t \in Task : t.client = c => ~ Under(t)'
        BY <1>2, <3>1, UnderPrime
    <3>3. Moving(c)'
        BY <3>2 DEF Moving
    <3>4. c \notin behind /\ c \notin Stalling => Fresh(c)'
        BY <1>2, <1>7, <1>10, <2>1, <2>2 DEF Fresh
    <3>5. Served(c)'
        BY <3>4, ServedNext
    <3> QED BY <2>2, <3>3, <3>5 DEF Settles
  <2>3. CASE d # c
    <3>1. /\ home'[d] = home[d] /\ has'[d] = has[d] /\ session'[d] = session[d]
          /\ Settles(d)
        BY <1>2, <1>6, <1>10, <2>1, <2>3, MomentFields DEF Beside, MinersSound
    <3>2. \A t : t.client = d => (Under(t)' <=> Under(t))
        BY <1>2, <1>3, <2>3, UnderPrime DEF Under
    <3>3. Renewing(d) => Renewing(d)'
        BY <1>3, <1>4, <3>2, RenewingKept
    <3>4. Orphan(d) => Orphan(d)'
        BY <1>4 DEF Orphan
    <3> QED BY <1>2, <1>7, <2>1, <3>1, <3>2, <3>3, <3>4, PlaceKept
  <2> QED BY <2>2, <2>3
<1> QED
    BY <1>8, <1>9, <1>10 DEF MinersSound

LEMMA JobAttached ==
    ASSUME IInv, JobInv, Remembers, RunAttached
    PROVE  JobInv'
<1>1. /\ Typed /\ todo # <<>> /\ Head(todo).op = "settled" /\ todo' = Tail(todo)
      /\ UNCHANGED <<links, phase, job, closed, waiting>>
    BY DEF IInv, RunAttached
<1>2. Head(todo).task \in Task /\ Head(todo).on \in LinkIds \union {None}
    BY <1>1, HeadParts
<1>3. PICK c \in Clients : c = Head(todo).task.client
    BY <1>2, TaskParts
<1>4. PICK l \in LinkIds \union {None} : l = Head(todo).on
    BY <1>2
<1>5. /\ Moment \in MomentType /\ job \in [LinkIds -> 0 .. MaxJobs] /\ live \in SUBSET Clients
      /\ session \in [Clients -> {"out", "in", "kicked", "gone"}]
    BY <1>1 DEF Typed
<1>6. PICK n \in MomentType : n = Moment /\ n.left = left
    BY <1>5, MomentFields
<1>7. CASE l # None /\ c \in live /\ left[l] > 0 /\ job[l] > 0
  <2>1. l \in LinkIds
      BY <1>7
  <2>2. PICK h : h = House(n, l, c)
      OBVIOUS
  <2>3. Beside(n, h, c) /\ h.home[c] = l /\ h \in MomentType /\ h.left = n.left
    <3>1. Beside(n, h, c) /\ h.home[c] = l
        BY <2>1, <2>2, HouseBeside
    <3>2. /\ h \in MomentType
          /\ h.clients = [n.clients EXCEPT ![l] = n.clients[l] \union {c}]
          /\ h.load = [n.load EXCEPT ![l] = n.load[l] + 1]
          /\ h.home = [n.home EXCEPT ![c] = l]
          /\ h.left = n.left /\ h.has = n.has
        BY <2>1, <2>2, HouseIs
    <3> QED BY <3>1, <3>2
  <2>4. PICK m : m = Grant(h, l, c)
      OBVIOUS
  <2>5. /\ Beside(h, m, c) /\ m.home[c] = h.home[c]
        /\ m.has[c] = <<l, job[l]>>
    <3>1. h.left[l] > 0
        BY <1>6, <1>7, <2>3
    <3>2. /\ Beside(h, m, c) /\ m.home[c] = h.home[c] /\ m.clients = h.clients
          /\ job[l] > 0 => m.has[c] = <<l, job[l]>>
        BY <1>5, <2>1, <2>3, <2>4, <3>1, GrantBeside
    <3> QED BY <1>7, <3>2
  <2>6. Become(m) /\ live' = live /\ session' = session
      BY <1>3, <1>4, <1>6, <1>7, <2>2, <2>4 DEF RunAttached
  <2>7. Beside(Moment, m, c)
      BY <1>6, <2>3, <2>5, BesideAgain
  <2> QED BY <1>1, <1>3, <1>5, <2>3, <2>5, <2>6, <2>7, JobPlaced
<1>8. CASE ~ (l # None /\ c \in live /\ left[l] > 0 /\ job[l] > 0)
  <2>1. PICK h \in MomentType :
            /\ h = IF l # None /\ c \in live THEN House(Moment, l, c) ELSE Moment
            /\ Beside(n, h, c)
    <3>1. CASE l # None /\ c \in live
      <4>1. PICK h : h = House(n, l, c)
          OBVIOUS
      <4>2. Beside(n, h, c)
          BY <3>1, <4>1, HouseBeside
      <4> QED BY <1>6, <3>1, <4>1, <4>2 DEF Beside
    <3>2. CASE ~ (l # None /\ c \in live)
        BY <1>6, <3>2 DEF Beside
    <3> QED BY <3>1, <3>2
  <2>2. PICK m : m = Gone(h, c)
      OBVIOUS
  <2>3. Beside(h, m, c)
      BY <2>2, GoneBeside
  <2>4. Beside(Moment, m, c)
      BY <1>6, <2>1, <2>3, BesideAgain
  <2>5. /\ Become(m) /\ live' = live \ {c}
        /\ Kick(c) \/ session' = [session EXCEPT ![c] = "gone"]
      BY <1>3, <1>4, <1>8, <2>1, <2>2 DEF RunAttached
  <2>6. \A d \in Clients \ {c} : session'[d] = session[d]
      BY <1>5, <2>5, KickIs
  <2>7. live' \subseteq Clients /\ c \notin live' /\ \A d \in live' : d \in live
      BY <1>5, <2>5
  <2> QED BY <1>1, <1>3, <2>4, <2>5, <2>6, <2>7, JobPlaced
<1> QED
    BY <1>7, <1>8

\* What the miner of a settled migration is to have, if it comes to stay: the
\* link it is to leave is its home, and its job the one of that link.
LEMMA MigratesFrom ==
    ASSUME IInv, JobInv, ~ closed, todo # <<>>, Head(todo).op = "settled",
           Head(todo).task.kind \notin Attaching,
           NEW c \in live \ crossed, c = Head(todo).task.client
    PROVE  /\ home[c] = Head(todo).task.from
           /\ /\ c \notin behind /\ Head(todo).task.kind # "renew"
              /\ home[c] \in Listed /\ session[c] = "in"
              => has[c] = <<home[c], job[home[c]]>>
<1>1. /\ Typed /\ PlacedOnce /\ todo \in Seq(Work) /\ Late(todo) /\ c \in Clients \ crossed
      /\ Settles(c)
    BY DEF IInv, Typed, JobInv, MinersSound
<1>2. /\ Head(todo) \in Work /\ Head(todo).task \in Task
      /\ Items(todo) = {Head(todo)} \union Items(Tail(todo))
    BY <1>1, HeadParts
<1>3. \A x \in Items(todo) : x.op \in {"pick", "settled"}
    BY <1>1, LateTail
<1>4. ~ Orphan(c)
    BY <1>3 DEF Orphan
<1>5. Under(Head(todo).task)
    BY <1>2 DEF Under
<1>6. home[c] = Head(todo).task.from
    BY <1>1, <1>2, <1>4, <1>5 DEF Settles, Moving
<1>7. /\ \A x \in Items(Tail(todo)) : x.op \in {"pick", "settled"} => x.task.client # c
      /\ \A l \in LinkIds : \A w \in Items(waiting[l]) : w.task.client # c
    BY <1>1, Single
<1>8. \A t : Under(t) /\ t.client = c => t = Head(todo).task
    BY <1>2, <1>7 DEF Under
<1>9. Head(todo).task.kind # "renew" => ~ Renewing(c)
    BY <1>3, <1>8 DEF Renewing
<1> QED
    BY <1>1, <1>6, <1>9 DEF Settles, Served, Fresh

LEMMA JobMigrated ==
    ASSUME IInv, JobInv, Remembers, RunMigrated
    PROVE  JobInv'
<1>1. /\ Typed /\ todo # <<>> /\ Head(todo).op = "settled" /\ todo' = Tail(todo)
      /\ Head(todo).task.kind \notin Attaching
      /\ UNCHANGED <<links, phase, job, live, closed, waiting>>
    BY DEF IInv, RunMigrated
<1>2. /\ Head(todo).task \in Task /\ Head(todo).on \in LinkIds \union {None}
      /\ Head(todo) \in Items(todo)
    BY <1>1, HeadParts
<1>3. PICK c \in Clients : c = Head(todo).task.client
    BY <1>2, TaskParts
<1>4. PICK l \in LinkIds \union {None} : l = Head(todo).on
    BY <1>2
<1>5. PICK from \in LinkIds : from = Head(todo).task.from
    BY <1>1, <1>2, TaskParts
<1>6. /\ Moment \in MomentType /\ job \in [LinkIds -> 0 .. MaxJobs] /\ live \in SUBSET Clients
      /\ session \in [Clients -> {"out", "in", "kicked", "gone"}]
      /\ left \in [LinkIds -> 0 .. Units]
    BY <1>1, TypedParts DEF Typed
<1>7. PICK n \in MomentType : n = Moment /\ n.left = left /\ n.home = home /\ n.has = has
    BY <1>6, MomentFields
<1>8. PICK moved : moved = House(Evict(n, c), l, c)
    OBVIOUS
<1> DEFINE false == IF Head(todo).task.kind = "renew" THEN Kick(c) ELSE UNCHANGED session
<1>9. \/ /\ l = None \/ c \notin live
         /\ Become(n) /\ false
      \/ /\ l # None /\ c \in live /\ left[l] > 0
         /\ Become(Grant(moved, l, c)) /\ UNCHANGED session
      \/ /\ l # None /\ c \in live /\ left[l] = 0
         /\ Become(IF phase[from] = "up" THEN House(Evict(moved, c), from, c) ELSE moved)
         /\ false
    BY <1>3, <1>4, <1>5, <1>7, <1>8 DEF RunMigrated
<1>10. /\ \A d \in Clients \ {c} : session'[d] = session[d]
       /\ false /\ session'[c] = "in" => Head(todo).task.kind # "renew" /\ session[c] = "in"
    BY <1>6, <1>9 DEF Kick
<1>11. ~ closed /\ c \in live \ crossed =>
          /\ home[c] = from
          /\ /\ c \notin behind /\ Head(todo).task.kind # "renew"
             /\ home[c] \in Listed /\ session[c] = "in"
             => has[c] = <<home[c], job[home[c]]>>
    BY <1>1, <1>3, <1>5, MigratesFrom
<1> HIDE DEF false
<1>12. live' \subseteq Clients /\ \A d \in Clients \ {c} : d \in live' => d \in live
    BY <1>1, <1>6
<1>13. CASE (l = None \/ c \notin live) /\ Become(n) /\ false
  <2>1. Beside(Moment, n, c)
      BY <1>7 DEF Beside
  <2> QED BY <1>1, <1>3, <1>7, <1>10, <1>11, <1>12, <1>13, <2>1, JobPlaced
<1>14. ASSUME l # None, c \in live PROVE Beside(n, moved, c) /\ moved.home[c] = l /\ moved.has[c] = has[c]
    BY <1>7, <1>8, <1>14, MoveBeside
<1>15. CASE l # None /\ c \in live /\ left[l] > 0 /\ Become(Grant(moved, l, c)) /\ UNCHANGED session
  <2>1. /\ moved \in MomentType /\ moved.left[l] > 0 /\ moved.home[c] = l /\ l \in LinkIds
        /\ Beside(n, moved, c)
    <3>1. moved.left = n.left
        BY <1>8, <1>15, MoveKeeps
    <3> QED BY <1>7, <1>14, <1>15, <3>1 DEF Beside
  <2>2. PICK m : m = Grant(moved, l, c)
      OBVIOUS
  <2>3. /\ Beside(moved, m, c) /\ m.home[c] = moved.home[c] /\ m.clients = moved.clients
        /\ job[l] > 0 => m.has[c] = <<l, job[l]>>
      BY <1>6, <2>1, <2>2, GrantBeside
  <2>4. Beside(Moment, m, c)
      BY <1>7, <2>1, <2>3, BesideAgain
  <2>5. ~ closed => (l \in Listed => job[l] > 0)
      BY <1>15 DEF JobInv, LinksSound
  <2>6. Become(m)
      BY <1>15, <2>2
  <2> QED BY <1>1, <1>3, <1>10, <1>12, <2>1, <2>3, <2>4, <2>5, <2>6, JobPlaced
<1>16. CASE /\ l # None /\ c \in live /\ left[l] = 0
            /\ Become(IF phase[from] = "up" THEN House(Evict(moved, c), from, c) ELSE moved)
            /\ false
  <2>1. moved \in MomentType /\ Beside(n, moved, c) /\ moved.has[c] = has[c] /\ moved.home[c] = l
      BY <1>14, <1>16 DEF Beside
  <2>2. CASE phase[from] = "up"
    <3>1. PICK m : m = House(Evict(moved, c), from, c)
        OBVIOUS
    <3>2. Beside(moved, m, c) /\ m.home[c] = from /\ m.has[c] = moved.has[c]
        BY <2>1, <3>1, MoveBeside
    <3>3. Beside(Moment, m, c)
        BY <1>7, <2>1, <3>2, BesideAgain
    <3>4. Become(m)
        BY <1>16, <2>2, <3>1
    <3> QED BY <1>1, <1>3, <1>10, <1>11, <1>12, <1>16, <2>1, <3>2, <3>3, <3>4, JobPlaced
  <2>3. CASE phase[from] # "up"
    <3>1. Beside(Moment, moved, c) /\ Become(moved)
        BY <1>7, <1>16, <2>1, <2>3
    <3>2. c \in Stalling
        BY <1>1, <1>3, <1>4, <1>5, <1>16, <2>3 DEF Stalling, Placed
    <3> QED BY <1>1, <1>3, <1>10, <1>12, <3>1, <3>2, JobPlaced
  <2> QED BY <2>2, <2>3
<1> QED
    BY <1>9, <1>13, <1>15, <1>16

\* A turn of a loop that is to move miners: one is, to be settled later.
LEMMA JobTurn ==
    ASSUME IInv, JobInv, Remembers, todo # <<>>,
           NEW h \in Work, h = Head(todo), h.op \in {"renew", "move"},
           NEW c \in h.clients, c \in Clients,
           NEW next \in Work, next.op = h.op, next.on = h.on, next.clients = h.clients \ {c},
           NEW t \in Task, t.client = c, t.from = h.on, h.op = "renew" => t.kind = "renew",
           TurnTo(t, next),
           UNCHANGED <<links, phase, job, left, clients, waiting, home, has, live, session, closed>>
    PROVE  JobInv'
<1>1. Typed /\ Late(todo) /\ todo \in Seq(Work)
    BY DEF IInv, Typed, JobInv
<1>2. Tail(todo) \in Seq(Work) /\ Items(todo) = {h} \union Items(Tail(todo))
    BY <1>1, HeadParts
<1>3. PICK p \in Work : p = PickCall(t) /\ p.op = "pick" /\ p.task = t
    BY WorkMade
<1>4. Items(todo') = {p} \union (IF next.clients = {} THEN {} ELSE {next})
                        \union Items(Tail(todo))
  <2>1. /\ todo' \in Seq(Work) /\ todo' # <<>> /\ todo'[1] = PickCall(t)
        /\ Items(todo') = {PickCall(t)} \union (IF next.clients = {} THEN {} ELSE {next})
                             \union Items(Tail(todo))
        /\ \A i \in DOMAIN todo' :
              i = 1 \/ (i = 2 /\ next.clients # {}) \/ todo'[i] \in Items(Tail(todo))
      BY <1>1, TurnIs
  <2> QED BY <1>3, <2>1
<1>5. Late(todo')
    BY <1>1, LateTurn
<1>7. ~ closed => \A d \in Clients \ crossed : \A x \in Items(todo') :
          Serves(x, d) => home[d] = x.on
  <2>1. \A d : \A x \in Items(todo') : Serves(x, d) =>
            \E y \in Items(todo) : Serves(y, d) /\ y.on = x.on
      BY <1>2, <1>3, <1>4 DEF Serves
  <2> QED BY <2>1 DEF JobInv, MinersSound, InTurn
<1>8. \A d : Orphan(d) => Orphan(d)'
    BY <1>2, <1>4, DuePrime DEF Orphan
<1>9. \A k : Under(k)' <=> Under(k) \/ k = t
  <2>1. \A k : (\E x \in Items(todo') : x.op \in {"pick", "settled"} /\ x.task = k) <=>
                   (\E x \in Items(todo) : x.op \in {"pick", "settled"} /\ x.task = k) \/ k = t
      BY <1>2, <1>3, <1>4
  <2> QED BY <2>1, UnderPrime DEF Under
<1>10. \A d : Renewing(d) => Renewing(d)'
  <2> SUFFICES ASSUME NEW d, Renewing(d) PROVE Renewing(d)'
      OBVIOUS
  <2>1. CASE d = c /\ h.op = "renew"
      BY <1>9, <2>1 DEF Renewing
  <2>2. CASE ~ (d = c /\ h.op = "renew")
    <3>1. \A y \in Items(todo) : y.op = "renew" /\ d \in y.clients =>
              \E z \in Items(todo') : z.op = "renew" /\ d \in z.clients
        BY <1>2, <1>4, <2>2
    <3> QED BY <1>9, <3>1, RenewingKept
  <2> QED BY <2>1, <2>2
<1>11. ~ closed => \A d \in Clients \ crossed : \A k \in Task :
           Under(k)' /\ k.client = d /\ k.kind \notin Attaching =>
               Under(k) \/ home[d] = k.from
  <2>1. ~ closed /\ c \notin crossed => home[c] = h.on
      BY <1>2 DEF JobInv, MinersSound, InTurn, Serves
  <2> QED BY <1>9, <2>1
<1> QED
    BY <1>5, <1>7, <1>8, <1>10, <1>11, TodoOnly

LEMMA JobMove ==
    ASSUME IInv, JobInv, Remembers, RunMove
    PROVE  JobInv'
<1>1. Typed /\ todo # <<>> /\ Head(todo).op = "move"
    BY DEF IInv, RunMove
<1>2. PICK h \in Work : h = Head(todo)
    BY <1>1, HeadParts
<1>3. h.op = "move" /\ h.on \in LinkIds /\ h.clients \in SUBSET Clients
    BY <1>1, <1>2, WorkParts
<1>4. PICK c \in h.clients :
          TurnTo([kind |-> "sweep", client |-> c, from |-> h.on], MoveCall(h.on, h.clients \ {c}))
    BY <1>2 DEF RunMove
<1>5. PICK next \in Work : /\ next = MoveCall(h.on, h.clients \ {c}) /\ next.op = "move"
                           /\ next.on = h.on /\ next.clients = h.clients \ {c}
    BY <1>3, WorkMade
<1>6. PICK t : t = [kind |-> "sweep", client |-> c, from |-> h.on]
    OBVIOUS
<1>7. c \in Clients /\ t \in Task /\ t.client = c /\ t.from = h.on
    BY <1>3, <1>6 DEF Task
<1>8. TurnTo(t, next)
    BY <1>4, <1>5, <1>6
<1>9. UNCHANGED <<links, phase, job, left, clients, waiting, home, has, live, session, closed>>
    BY DEF RunMove, link, who
<1> QED
    BY <1>1, <1>2, <1>3, <1>5, <1>7, <1>8, <1>9, JobTurn

\* A grant leaves the places alone: the miner that gets it has the job of its
\* home, if it lives on the link.
LEMMA JobGranted ==
    ASSUME IInv, JobInv, Remembers, Late(todo'),
           NEW l \in LinkIds, NEW c \in Clients, left[l] > 0, Become(Grant(Moment, l, c)),
           UNCHANGED <<links, phase, job, live, session, closed, waiting>>,
           ~ closed /\ c \notin crossed => home[c] = l,
           \A x \in Items(todo') : x \in Items(todo) \/ x.op = "renew",
           \A d : \A x \in Items(todo') : Serves(x, d) =>
               \E y \in Items(todo) : Serves(y, d) /\ y.on = x.on,
           \A d \in Clients \ {c} : \A x \in Items(todo) : x.op = "renew" /\ d \in x.clients =>
               \E y \in Items(todo') : y.op = "renew" /\ d \in y.clients,
           \A x \in Items(todo) : x.op # "renew" => x \in Items(todo')
    PROVE  JobInv'
<1>1. /\ Typed /\ Listed \subseteq LinkIds /\ live \subseteq Clients /\ Moment \in MomentType
      /\ job \in [LinkIds -> 0 .. MaxJobs]
    BY TypedParts DEF IInv, Typed
<1>2. PICK m : m = Grant(Moment, l, c)
    OBVIOUS
<1>3. /\ Beside(Moment, m, c) /\ m.home[c] = Moment.home[c] /\ m.clients = Moment.clients
      /\ job[l] > 0 => m.has[c] = <<l, job[l]>>
  <2>1. PICK n \in MomentType : n = Moment /\ n.left[l] > 0
      BY <1>1, MomentFields
  <2>2. m = Grant(n, l, c)
      BY <1>2, <2>1
  <2>3. /\ Beside(n, m, c) /\ m.home[c] = n.home[c] /\ m.clients = n.clients
        /\ job[l] > 0 => m.has[c] = <<l, job[l]>>
      BY <1>1, <2>1, <2>2, GrantBeside
  <2> QED BY <2>1, <2>3
<1>4. /\ clients' = clients /\ \A d \in Clients : home'[d] = home[d]
      /\ \A d \in Clients \ {c} : has'[d] = has[d]
      /\ job[l] > 0 => has'[c] = <<l, job[l]>>
      /\ \A k \in LinkIds : left'[k] > 0 => left[k] > 0
    BY <1>2, <1>3, MomentFields DEF Become, Beside
<1>5. /\ links' = links /\ phase' = phase /\ job' = job /\ live' = live /\ session' = session
      /\ closed' = closed /\ waiting' = waiting
    OBVIOUS
<1>6. Late(todo)' /\ (closed => links = <<>>)'
    BY <1>5 DEF JobInv, Late
<1> SUFFICES ASSUME ~ closed PROVE LinksSound' /\ MinersSound'
    BY <1>5, <1>6 DEF JobInv
<1>7. LinksSound /\ MinersSound
    BY DEF JobInv
<1>8. Listed' = Listed
    BY <1>5 DEF Listed
<1>9. LinksSound'
    BY <1>1, <1>4, <1>5, <1>7, SoundKept
<1>10. ASSUME NEW d \in Clients \ crossed' PROVE InTurn(d)'
  <2>1. InTurn(d)
      BY <1>7, <1>10 DEF MinersSound, Remembers
  <2> QED BY <1>4, <1>5, <1>10, <2>1, TurnKept
<1>11. /\ \A t : Under(t)' <=> Under(t)
       /\ \A d : Orphan(d) => Orphan(d)'
  <2>1. \A x : x.op # "renew" => (x \in Items(todo') <=> x \in Items(todo))
      OBVIOUS
  <2>2. \A t : Under(t)' <=> Under(t)
      BY <1>5, <2>1, UnderPrime DEF Under
  <2>3. \A d : Orphan(d) => Orphan(d)'
      BY <2>1, DuePrime DEF Orphan
  <2> QED BY <2>2, <2>3
<1>12. ASSUME NEW d \in live' \ crossed' PROVE Settles(d)'
  <2>1. d \in Clients \ crossed /\ Settles(d)
      BY <1>1, <1>5, <1>7, <1>12 DEF Remembers, MinersSound
  <2>2. CASE d # c
    <3>1. Renewing(d) => Renewing(d)'
        BY <1>11, <2>1, <2>2, RenewingKept
    <3> QED BY <1>4, <1>5, <1>8, <1>11, <2>1, <2>2, <3>1, PlaceKept
  <2>3. CASE d = c
    <3>1. home[c] = l /\ home'[c] = l
        BY <1>4, <2>1, <2>3
    <3>2. Served(c)'
      <4>1. l \in Listed => job[l] > 0
          BY <1>7 DEF LinksSound
      <4>2. Fresh(c)'
          BY <1>4, <1>5, <1>8, <3>1, <4>1 DEF Fresh
      <4> QED BY <4>2 DEF Served
    <3>3. Moving(c)'
      <4>1. Moving(c)
          BY <2>1, <2>3 DEF Settles
      <4> QED BY <1>5, <1>11, <3>1, <4>1 DEF Moving
    <3> QED BY <2>3, <3>2, <3>3 DEF Settles
  <2> QED BY <2>2, <2>3
<1> QED
    BY <1>9, <1>10, <1>12 DEF MinersSound

LEMMA JobRenew ==
    ASSUME IInv, JobInv, Remembers, RunRenew
    PROVE  JobInv'
<1>1. Typed /\ todo # <<>> /\ Head(todo).op = "renew" /\ Late(todo)
    BY DEF IInv, RunRenew, JobInv
<1>2. PICK h \in Work : h = Head(todo)
    BY <1>1, HeadParts
<1>3. h.op = "renew" /\ h.on \in LinkIds /\ h.clients \in SUBSET Clients
    BY <1>1, <1>2, WorkParts
<1>4. PICK c \in h.clients :
          LET next == RenewCall(h.on, h.clients \ {c})
          IN  IF left[h.on] > 0
              THEN /\ Become(Grant(Moment, h.on, c))
                   /\ todo' = IF next.clients = {} THEN Tail(todo) ELSE <<next>> \o Tail(todo)
              ELSE /\ TurnTo([kind |-> "renew", client |-> c, from |-> h.on], next)
                   /\ Become(Moment)
    BY <1>2 DEF RunRenew
<1>5. PICK next \in Work : /\ next = RenewCall(h.on, h.clients \ {c}) /\ next.op = "renew"
                           /\ next.on = h.on /\ next.clients = h.clients \ {c}
    BY <1>3, WorkMade
<1>6. UNCHANGED <<links, phase, job, live, session, closed, waiting>>
    BY DEF RunRenew
<1>7. c \in Clients
    BY <1>3
<1>8. PICK rest \in Seq(Work) : rest = Tail(todo) /\ Items(todo) = {h} \union Items(rest)
    BY <1>1, <1>2, HeadParts
<1>9. CASE left[h.on] > 0
  <2>1. Become(Grant(Moment, h.on, c))
      BY <1>4, <1>9
  <2>2. PICK u : u = Atop(next, rest)
      OBVIOUS
  <2>3. todo' = IF next.clients = {} THEN rest ELSE u
      BY <1>4, <1>5, <1>8, <1>9, <2>2 DEF Atop
  <2>4. Items(u) = {next} \union Items(rest)
    <3>1. /\ u \in Seq(Work) /\ u # <<>> /\ u[1] = next
          /\ Items(u) = {next} \union Items(rest)
          /\ \A i \in DOMAIN u : i = 1 \/ u[i] \in Items(rest)
      <4>1. Led(u, next, rest)
          BY <2>2, OneBefore
      <4> QED BY <4>1 DEF Led
    <3> QED BY <3>1
  <2>5. Late(rest)
    <3>1. todo \in Seq(Work)
        BY <1>1 DEF Typed
    <3> QED BY <1>1, <1>8, <3>1, LateTail
  <2>6. Late(u)
      BY <1>5, <2>2, <2>5, LateBefore
  <2>7. Late(todo')
      BY <2>3, <2>5, <2>6
  <2>8. Items(todo') = Items(rest) \union (IF next.clients = {} THEN {} ELSE {next})
      BY <2>3, <2>4
  <2>9. ~ closed /\ c \notin crossed => home[c] = h.on
      BY <1>3, <1>7, <1>8 DEF JobInv, MinersSound, InTurn, Serves
  <2>10. \A x \in Items(todo') : x \in Items(todo) \/ x.op = "renew"
      BY <1>5, <1>8, <2>8
  <2>11. \A d : \A x \in Items(todo') : Serves(x, d) =>
               \E y \in Items(todo) : Serves(y, d) /\ y.on = x.on
      BY <1>3, <1>5, <1>8, <2>8 DEF Serves
  <2>12. \A d \in Clients \ {c} : \A x \in Items(todo) : x.op = "renew" /\ d \in x.clients =>
               \E y \in Items(todo') : y.op = "renew" /\ d \in y.clients
      BY <1>5, <1>8, <2>8
  <2>13. \A x \in Items(todo) : x.op # "renew" => x \in Items(todo')
      BY <1>3, <1>8, <2>8
  <2> QED BY <1>3, <1>6, <1>7, <1>9, <2>1, <2>7, <2>9, <2>10, <2>11, <2>12, <2>13, JobGranted
<1>10. CASE ~ (left[h.on] > 0)
  <2>1. PICK t : t = [kind |-> "renew", client |-> c, from |-> h.on]
      OBVIOUS
  <2>2. t \in Task /\ t.client = c /\ t.from = h.on /\ t.kind = "renew"
      BY <1>3, <1>7, <2>1 DEF Task
  <2>3. TurnTo(t, next) /\ Become(Moment)
      BY <1>4, <1>5, <1>10, <2>1
  <2>4. UNCHANGED <<links, phase, job, left, clients, waiting, home, has, live, session, closed>>
      BY <1>6, <2>3, MomentFields DEF Become
  <2> QED BY <1>1, <1>2, <1>3, <1>5, <1>7, <2>2, <2>3, <2>4, JobTurn
<1> QED
    BY <1>9, <1>10

\* An attach is called for a miner that lives nowhere.
LEMMA JobCalled ==
    ASSUME IInv, JobInv, Remembers, PlacedOnce', todo' \in Seq(Work), Late(todo'),
           NEW c \in Clients, NEW t \in Task, t.client = c, t.kind \in Attaching,
           todo' # <<>>, Head(todo') = PickCall(t),
           ~ closed /\ c \notin crossed => home[c] = None,
           live' = live \union {c},
           \A d \in Clients \ {c} : session'[d] = session[d],
           UNCHANGED <<link, home, has, closed, waiting>>,
           \A x \in Items(todo') : x = PickCall(t) \/ x \in Items(todo) \/ x.op = "rehome",
           \A x \in Items(todo) : x.op # "rehome" => x \in Items(todo'),
           \A d : d # c /\ Orphan(d) => Orphan(d)'
    PROVE  JobInv'
<1>1. /\ Typed /\ Listed \subseteq LinkIds /\ live \subseteq Clients
      /\ waiting \in [LinkIds -> Seq(Waiter)]
    BY TypedParts DEF IInv, Typed
<1>2. /\ links' = links /\ phase' = phase /\ job' = job /\ left' = left /\ clients' = clients
      /\ has' = has /\ home' = home /\ closed' = closed /\ waiting' = waiting
    BY DEF link
<1>3. PICK T \in Seq(Work) : T = todo'
    OBVIOUS
<1>4. PICK p \in Work : p = PickCall(t) /\ p.op = "pick" /\ p.task = t
    BY WorkMade
<1>5. /\ Items(todo') = {p} \union Items(Tail(todo')) /\ Head(T) = p /\ T # <<>>
      /\ Items(T) = {p} \union Items(Tail(T))
    BY <1>3, <1>4, SeqTail
<1>6. Late(todo)' /\ (closed => links = <<>>)'
    BY <1>2 DEF JobInv, Late
<1> SUFFICES ASSUME ~ closed PROVE LinksSound' /\ MinersSound'
    BY <1>2, <1>6 DEF JobInv
<1>7. LinksSound /\ MinersSound
    BY DEF JobInv
<1>8. Listed' = Listed
    BY <1>2 DEF Listed
<1>9. LinksSound'
    BY <1>1, <1>2, <1>7, SoundKept
<1>10. ASSUME NEW d \in Clients \ crossed' PROVE InTurn(d)'
  <2>1. InTurn(d)
      BY <1>7, <1>10 DEF MinersSound, Remembers
  <2>2. \A x \in Items(todo') : Serves(x, d) => x \in Items(todo)
      BY <1>4, <1>5 DEF Serves
  <2> QED BY <1>2, <2>1, <2>2, TurnKept
<1>11. \A k : Under(k)' <=> Under(k) \/ k = t
  <2>1. \A k : (\E x \in Items(todo') : x.op \in {"pick", "settled"} /\ x.task = k) <=>
                   (\E x \in Items(todo) : x.op \in {"pick", "settled"} /\ x.task = k) \/ k = t
      BY <1>4, <1>5
  <2> QED BY <1>2, <2>1, UnderPrime DEF Under
<1>12. ASSUME NEW d \in live' \ crossed' PROVE Settles(d)'
  <2>1. d \in Clients \ crossed /\ d \notin crossed'
      BY <1>1, <1>12 DEF Remembers
  <2>2. CASE d = c
    <3>1. home'[c] = None
        BY <1>2, <2>1, <2>2
    <3>2. None \notin Listed'
        BY <1>1, <1>8, NoneAssumption
    <3>3. ~ (Many(T, waiting, c) > 1)
      <4>1. ~ (Placements(c)' > 1)
          BY <2>1, <2>2 DEF PlacedOnce
      <4> QED BY <1>2, <1>3, <4>1 DEF Placements, Many, Here, There
    <3>8. PICK W \in [LinkIds -> Seq(Waiter)] : W = waiting /\ ~ (Many(T, W, c) > 1)
        BY <1>1, <3>3
    <3>9. Head(T).op \in {"pick", "settled"} /\ Head(T).task.client = c
        BY <1>4, <1>5
    <3>10. /\ \A x \in Items(Tail(T)) : x.op \in {"pick", "settled"} => x.task.client # c
           /\ \A l \in LinkIds : \A w \in Items(W[l]) : w.task.client # c
        BY <1>5, <3>8, <3>9, SingleIn
    <3>4. /\ \A x \in Items(Tail(T)) : x.op \in {"pick", "settled"} => x.task.client # c
          /\ \A l \in LinkIds : \A w \in Items(waiting[l]) : w.task.client # c
        BY <3>8, <3>10
    <3>5. \A k : Under(k)' /\ k.client = c => k = t
        BY <1>2, <1>3, <1>5, <1>4, <3>4, UnderPrime
    <3>6. Moving(c)'
        BY <3>5 DEF Moving
    <3>7. Served(c)'
        BY <3>1, <3>2 DEF Served, Fresh
    <3> QED BY <2>2, <3>6, <3>7 DEF Settles
  <2>3. CASE d # c
    <3>1. Settles(d) /\ session'[d] = session[d]
        BY <1>7, <1>12, <2>1, <2>3 DEF MinersSound
    <3>2. \A k \in Task : Under(k)' /\ k.client = d /\ k.kind \notin Attaching => Under(k)
        BY <1>11
    <3>3. Renewing(d) => Renewing(d)'
      <4>1. \A y \in Items(todo) : y.op = "renew" /\ d \in y.clients =>
                \E z \in Items(todo') : z.op = "renew" /\ d \in z.clients
          OBVIOUS
      <4> QED BY <1>11, <4>1, RenewingKept
    <3>4. Orphan(d) => Orphan(d)'
        BY <2>3
    <3> QED BY <1>2, <1>8, <2>1, <3>1, <3>2, <3>3, <3>4, PlaceKept
  <2> QED BY <2>2, <2>3
<1> QED
    BY <1>9, <1>10, <1>12 DEF MinersSound

LEMMA JobRehome ==
    ASSUME IInv, IInv', JobInv, Remembers, RunRehome
    PROVE  JobInv'
<1>1. Typed /\ Rosters /\ todo # <<>> /\ Head(todo).op = "rehome" /\ Late(todo) /\ PlacedOnce'
    BY DEF IInv, RunRehome, JobInv
<1>2. PICK h \in Work : h = Head(todo) /\ Items(todo) = {h} \union Items(Tail(todo))
    BY <1>1, HeadParts
<1>3. h.op = "rehome" /\ h.clients \in SUBSET Clients
    BY <1>1, <1>2, WorkParts
<1>4. PICK c \in h.clients :
          /\ TurnTo([kind |-> "rehome", client |-> c, from |-> None], RehomeCall(h.clients \ {c}))
          /\ live' = live \union {c}
    BY <1>2 DEF RunRehome
<1>5. PICK next \in Work : /\ next = RehomeCall(h.clients \ {c}) /\ next.op = "rehome"
                           /\ next.clients = h.clients \ {c}
    BY <1>3, WorkMade
<1>6. c \in Clients
    BY <1>3
<1>7. PICK t \in Task : /\ t = [kind |-> "rehome", client |-> c, from |-> None]
                        /\ t.client = c /\ t.kind \in Attaching
  <2>1. PICK t : t = [kind |-> "rehome", client |-> c, from |-> None]
      OBVIOUS
  <2>2. "rehome" \in Attaching
      BY DEF Attaching
  <2> QED BY <1>6, <2>1, <2>2, AttachMade
<1>8. TurnTo(t, next)
    BY <1>4, <1>5, <1>7
<1>9. /\ todo' \in Seq(Work) /\ todo' # <<>> /\ todo'[1] = PickCall(t)
      /\ Items(todo') = {PickCall(t)} \union (IF next.clients = {} THEN {} ELSE {next})
                           \union Items(Tail(todo))
      /\ \A i \in DOMAIN todo' :
            i = 1 \/ (i = 2 /\ next.clients # {}) \/ todo'[i] \in Items(Tail(todo))
    BY <1>1, <1>8, TurnIs
<1>10. Late(todo')
    BY <1>1, <1>5, <1>8, LateTurn
<1>11. Head(todo') = PickCall(t)
    BY <1>9
<1>12. ~ closed /\ c \notin crossed => home[c] = None
  <2>1. Orphan(c)
      BY <1>2, <1>3 DEF Orphan
  <2> QED BY <1>1, <1>6, <2>1 DEF Rosters, Clean
<1>13. \A x \in Items(todo') : x = PickCall(t) \/ x \in Items(todo) \/ x.op = "rehome"
    BY <1>2, <1>5, <1>9
<1>14. \A x \in Items(todo) : x.op # "rehome" => x \in Items(todo')
    BY <1>2, <1>3, <1>9
<1>15. \A d : d # c /\ Orphan(d) => Orphan(d)'
  <2> SUFFICES ASSUME NEW d, d # c, Orphan(d) PROVE Orphan(d)'
      OBVIOUS
  <2>1. PICK x \in Items(todo) : x.op = "rehome" /\ d \in x.clients
      BY DEF Orphan
  <2>2. \E y \in Items(todo') : y.op = "rehome" /\ d \in y.clients
      BY <1>2, <1>5, <1>9, <2>1
  <2> QED BY <2>2, DuePrime
<1>16. UNCHANGED <<link, home, has, closed, waiting>> /\ session' = session
    BY DEF RunRehome
<1> QED
    BY <1>1, <1>4, <1>6, <1>7, <1>9, <1>10, <1>11, <1>12, <1>13, <1>14, <1>15, <1>16, JobCalled

LEMMA JobLogin ==
    ASSUME IInv, IInv', JobInv, Remembers, NEW c \in Clients, Login(c)
    PROVE  JobInv'
<1>1. /\ Typed /\ Rosters /\ PlacedOnce' /\ Idle /\ ~ closed
      /\ session[c] = "out"
      /\ session' = [session EXCEPT ![c] = "in"]
      /\ live' = live \union {c}
      /\ todo' = <<PickCall([kind |-> "login", client |-> c, from |-> None])>>
      /\ UNCHANGED <<link, home, has, closed, waiting>>
    BY DEF IInv, Login
<1>2. PICK t \in Task : /\ t = [kind |-> "login", client |-> c, from |-> None]
                        /\ t.client = c /\ t.kind \in Attaching
  <2>1. PICK t : t = [kind |-> "login", client |-> c, from |-> None]
      OBVIOUS
  <2>2. "login" \in Attaching
      BY DEF Attaching
  <2> QED BY <2>1, <2>2, AttachMade
<1>3. PICK p \in Work : p = PickCall(t) /\ p.op = "pick" /\ p.task = t
    BY WorkMade
<1>4. todo' \in Seq(Work) /\ todo' # <<>> /\ Head(todo') = p /\ Items(todo') = {p}
  <2>1. todo' = <<p>>
      BY <1>1, <1>2, <1>3
  <2> QED BY <2>1 DEF Items
<1>5. Late(todo')
    BY <1>3, <1>4, LateFlat
<1>6. Items(todo) = {} /\ \A d : ~ Orphan(d)
    BY <1>1, IdleIs
<1>7. ~ closed /\ c \notin crossed => home[c] = None
    BY <1>1 DEF Rosters, Clean
<1>8. \A d \in Clients \ {c} : session'[d] = session[d]
    BY <1>1 DEF Typed
<1> QED
    BY <1>1, <1>2, <1>3, <1>4, <1>5, <1>6, <1>7, <1>8, JobCalled

\* What is left of a list without one link.
LEMMA WithoutItems ==
    ASSUME NEW s \in Seq(LinkIds), \A i, k \in DOMAIN s : i # k => s[i] # s[k],
           NEW l, NEW t, t = Without(s, l)
    PROVE  Items(t) = Items(s) \ {l}
<1>1. Len(s) \in Nat /\ DOMAIN s = 1 .. Len(s)
    BY SeqParts
<1>2. CASE \A i \in DOMAIN s : s[i] # l
    BY <1>2 DEF Without, Items
<1>3. CASE ~ \A i \in DOMAIN s : s[i] # l
  <2> DEFINE index == CHOOSE i \in DOMAIN s : s[i] = l
  <2>1. index \in 1 .. Len(s) /\ s[index] = l
      BY <1>1, <1>3
  <2>2. t = [k \in 1 .. Len(s) - 1 |-> IF k < index THEN s[k] ELSE s[k + 1]]
      BY <1>3 DEF Without
  <2> HIDE DEF index
  <2>3. PICK n \in Nat : n = Len(s)
      BY <1>1
  <2>4. PICK j \in 1 .. n : j = index
      BY <2>1, <2>3
  <2>5. /\ DOMAIN t = 1 .. n - 1 /\ DOMAIN s = 1 .. n /\ s[j] = l
        /\ \A k \in 1 .. n - 1 : t[k] = IF k < j THEN s[k] ELSE s[k + 1]
      BY <1>1, <2>1, <2>2, <2>3, <2>4
  <2>6. ASSUME NEW i \in 1 .. n, i # j PROVE \E k \in 1 .. n - 1 : t[k] = s[i]
    <3>1. CASE i < j
      <4>1. i \in 1 .. n - 1 /\ t[i] = s[i]
          BY <2>5, <3>1
      <4> QED BY <4>1
    <3>2. CASE ~ (i < j)
      <4>1. i - 1 \in 1 .. n - 1 /\ ~ (i - 1 < j) /\ (i - 1) + 1 = i
          BY <2>6, <3>2
      <4>2. t[i - 1] = s[i]
          BY <2>5, <4>1
      <4> QED BY <4>1, <4>2
    <3> QED BY <3>1, <3>2
  <2>7. ASSUME NEW k \in 1 .. n - 1 PROVE \E i \in 1 .. n : i # j /\ t[k] = s[i]
    <3>1. CASE k < j
      <4>1. k \in 1 .. n /\ k # j /\ t[k] = s[k]
          BY <2>5, <3>1
      <4> QED BY <4>1
    <3>2. CASE ~ (k < j)
      <4>1. k + 1 \in 1 .. n /\ k + 1 # j /\ t[k] = s[k + 1]
          BY <2>5, <3>2
      <4> QED BY <4>1
    <3> QED BY <3>1, <3>2
  <2>8. \A i \in 1 .. n : i # j => s[i] # l
      BY <2>5
  <2>9. Items(t) = {t[k] : k \in 1 .. n - 1} /\ Items(s) = {s[i] : i \in 1 .. n}
      BY <2>5 DEF Items
  <2>10. \A y \in Items(t) : y \in Items(s) /\ y # l
      BY <2>7, <2>8, <2>9
  <2>11. \A y \in Items(s) : y # l => y \in Items(t)
      BY <2>5, <2>6, <2>9
  <2> QED BY <2>10, <2>11
<1> QED
    BY <1>2, <1>3

LEMMA OneMore ==
    ASSUME NEW t \in Seq(Work), Late(t), NEW x \in Work, x.op # "settled", NEW u, u = Atop(x, t)
    PROVE  Items(u) = {x} \union Items(t) /\ Late(u)
<1>1. Led(u, x, t)
    BY OneBefore
<1>2. Late(u)
    BY LateBefore
<1> QED
    BY <1>1, <1>2 DEF Led

\* The tasks under way in a list of work and in what awaits the links after the step.
UnderIn(rest, t) ==
    \/ \E x \in Items(rest) : x.op \in {"pick", "settled"} /\ x.task = t
    \/ \E k \in LinkIds : \E w \in Items(waiting'[k]) : w.task = t

\* A link is lost: the miners on it have no home, and none of the others has to
\* do with the link.
LEMMA JobSevered ==
    ASSUME IInv, JobInv, Remembers, \A x \in Items(todo) : x.op # "rehome",
           NEW l \in LinkIds, NEW rest \in Seq(Work), Sever(l, rest), Late(rest),
           waiting' \in [LinkIds -> Seq(Waiter)], waiting'[l] = <<>>,
           \A k \in LinkIds : k # l => waiting'[k] = waiting[k],
           \A t : Under(t) <=> UnderIn(rest, t),
           \A x \in Items(rest) : x.op \in {"renew", "move"} => x \in Items(todo) /\ clients[l] = {},
           \A x \in Items(todo) : x.op \in {"renew", "move"} => x \in Items(rest)
    PROVE  JobInv'
<1>1. /\ Typed /\ Rosters /\ Listed \subseteq LinkIds /\ live \subseteq Clients
      /\ links \in Seq(LinkIds) /\ \A i, k \in DOMAIN links : i # k => links[i] # links[k]
    BY TypedParts DEF IInv, Typed
<1>2. PICK cs \in SUBSET Clients : cs = clients[l]
    BY <1>1, TypedParts
<1>3. /\ links' = Without(links, l)
      /\ phase' = [phase EXCEPT ![l] = "down"]
      /\ job' = [job EXCEPT ![l] = 0]
      /\ clients' = [clients EXCEPT ![l] = {}]
      /\ home' = Orphaned(cs)
      /\ todo' = IF cs = {} THEN rest ELSE <<RehomeCall(cs)>> \o rest
      /\ closed' = (closed \/ (Without(links, l) = <<>> /\ live \union cs = {}))
      /\ left' = left /\ live' = live /\ session' = session /\ has' = has
    BY <1>2 DEF Sever
<1>4. PICK r \in Work : r = RehomeCall(cs) /\ r.op = "rehome" /\ r.clients = cs
    BY WorkMade
<1>5. Late(todo') /\ Items(todo') = Items(rest) \union (IF cs = {} THEN {} ELSE {r})
  <2>1. PICK u : u = Atop(r, rest)
      OBVIOUS
  <2>2. Late(rest) /\ r.op # "settled"
      BY <1>4
  <2>3. Items(u) = {r} \union Items(rest) /\ Late(u)
      BY <2>1, <2>2, OneMore
  <2>4. todo' = IF cs = {} THEN rest ELSE u
      BY <1>3, <1>4, <2>1 DEF Atop
  <2> QED BY <2>3, <2>4
<1>6. Listed' = Listed \ {l}
  <2>1. PICK t : t = Without(links, l)
      OBVIOUS
  <2>2. Items(t) = Items(links) \ {l}
      BY <1>1, <2>1, WithoutItems
  <2> QED BY <1>3, <2>1, <2>2 DEF Listed, Items
<1>7. (closed => links = <<>>)' /\ Late(todo)'
  <2>1. closed => Without(links, l) = <<>>
      BY DEF JobInv, Without
  <2> QED BY <1>3, <1>5, <2>1 DEF Late
<1> SUFFICES ASSUME ~ closed PROVE LinksSound' /\ MinersSound'
    BY <1>3, <1>7 DEF JobInv
<1>8. LinksSound /\ MinersSound /\ \A d \in Clients : Lists(Moment, d)
    BY <1>1 DEF JobInv, Rosters
<1>9. /\ phase \in [LinkIds -> {"tcp", "login", "up", "down"}] /\ job \in [LinkIds -> 0 .. MaxJobs]
      /\ clients \in [LinkIds -> SUBSET Clients] /\ home \in [Clients -> LinkIds \union {None}]
    BY <1>1, TypedParts DEF Typed
<1>10. /\ job'[l] = 0 /\ clients'[l] = {}
       /\ \A k \in LinkIds : k # l => phase'[k] = phase[k] /\ job'[k] = job[k] /\ clients'[k] = clients[k]
    BY <1>3, <1>9
<1>12. /\ \A d \in cs : home'[d] = None
       /\ \A d \in Clients : d \notin cs => home'[d] = home[d] /\ home[d] # l
  <2>1. \A d \in Clients : home[d] # None => d \in clients[home[d]]
      BY <1>8, MomentFields DEF Lists
  <2>2. \A d \in Clients : d \notin cs => home[d] # l
      BY <1>2, <2>1, NoneAssumption
  <2> QED BY <1>3, <2>2 DEF Orphaned
<1>13. LinksSound'
  <2>1. \A k \in Listed : left[k] > 0 => job[k] > 0
      BY <1>8 DEF LinksSound
  <2> QED BY <1>1, <1>3, <1>6, <1>10, <2>1 DEF LinksSound
<1>14. ASSUME NEW d \in Clients \ crossed' PROVE InTurn(d)'
  <2>1. InTurn(d)
      BY <1>8, <1>14 DEF MinersSound, Remembers
  <2>2. CASE clients[l] = {}
    <3>1. home'[d] = home[d] /\ home[d] # l
        BY <1>2, <1>12, <1>14, <2>2
    <3>2. \A x \in Items(todo') : Serves(x, d) => x \in Items(todo)
        BY <1>4, <1>5 DEF Serves
    <3> QED BY <2>1, <3>1, <3>2, TurnKept
  <2>3. CASE clients[l] # {}
    <3>1. \A x \in Items(todo') : ~ Serves(x, d)
        BY <1>4, <1>5, <2>3 DEF Serves
    <3> QED BY <3>1 DEF InTurn, Serves, Items
  <2> QED BY <2>2, <2>3
<1>15. \A t : Under(t)' <=> Under(t)
    BY <1>4, <1>5, UnderPrime DEF UnderIn
<1>16. ASSUME NEW d \in live' \ crossed' PROVE Settles(d)'
  <2>1. d \in Clients \ crossed /\ Settles(d)
      BY <1>1, <1>3, <1>8, <1>16 DEF MinersSound, Remembers
  <2>2. CASE d \in cs
    <3>1. Orphan(d)'
        BY <1>4, <1>5, <2>2, DuePrime
    <3>2. home'[d] = None /\ None \notin Listed'
        BY <1>1, <1>6, <1>12, <2>2, NoneAssumption
    <3>3. Moving(d)'
        BY <3>1 DEF Moving
    <3>4. Served(d)'
        BY <3>2 DEF Served, Fresh
    <3> QED BY <3>3, <3>4 DEF Settles
  <2>3. CASE d \notin cs
    <3>1. home'[d] = home[d] /\ home[d] # l
        BY <1>12, <2>1, <2>3
    <3>3. home[d] \in Listed' => home[d] \in Listed /\ job'[home[d]] = job[home[d]]
        BY <1>1, <1>6, <1>10, <3>1
    <3>4. Renewing(d) => Renewing(d)'
      <4>1. \A y \in Items(todo) : y.op = "renew" /\ d \in y.clients =>
                \E z \in Items(todo') : z.op = "renew" /\ d \in z.clients
          BY <1>5
      <4> QED BY <1>15, <4>1, RenewingKept
    <3>5. Orphan(d) => Orphan(d)'
        BY DEF Orphan
    <3> QED BY <1>3, <1>15, <2>1, <3>1, <3>3, <3>4, <3>5, PlaceKept
  <2> QED BY <2>2, <2>3
<1> QED
    BY <1>13, <1>14, <1>16 DEF MinersSound

\* A miner that is not live lives nowhere.
Lively == \A c \in Clients : home[c] # None => c \in live

\* A step that moves or serves one miner at most, as long as that one is live.
LEMMA LivelyBeside ==
    ASSUME Lively, NEW m, NEW c, Become(m), Beside(Moment, m, c),
           \A d \in Clients \ {c} : d \in live => d \in live',
           c \in Clients /\ m.home[c] # None => c \in live'
    PROVE  Lively'
<1> SUFFICES ASSUME NEW d \in Clients, home'[d] # None PROVE d \in live'
    BY DEF Lively
<1>1. home' = m.home
    BY DEF Become
<1>2. d # c => home'[d] = home[d]
    BY <1>1, MomentFields DEF Beside
<1> QED
    BY <1>1, <1>2 DEF Lively

\* Where an attach leaves the miners.
LEMMA AttachedHomes ==
    ASSUME IInv, RunAttached
    PROVE  \A d \in Clients :
               \/ home'[d] = None
               \/ home'[d] = home[d] /\ (d \in live => d \in live')
               \/ d \in live /\ d \in live' /\ Placed(d) /\ home'[d] = Head(todo).on
<1>1. Typed /\ todo # <<>> /\ Head(todo).op = "settled"
    BY DEF IInv, RunAttached
<1>2. Head(todo).task \in Task /\ Head(todo).on \in LinkIds \union {None}
    BY <1>1, HeadParts
<1>3. PICK c \in Clients : c = Head(todo).task.client
    BY <1>2, TaskParts
<1>4. PICK l \in LinkIds \union {None} : l = Head(todo).on
    BY <1>2
<1>5. Moment \in MomentType /\ job \in [LinkIds -> 0 .. MaxJobs]
    BY <1>1 DEF Typed
<1>6. PICK n \in MomentType : n = Moment /\ n.left = left
    BY <1>5, MomentFields
<1>7. CASE l # None /\ c \in live /\ left[l] > 0 /\ job[l] > 0
  <2>1. l \in LinkIds
      BY <1>7
  <2>2. PICK h : h = House(n, l, c)
      OBVIOUS
  <2>3. Beside(n, h, c) /\ h \in MomentType /\ h.left = n.left /\ h.home[c] = l
    <3>1. Beside(n, h, c) /\ h.home[c] = l /\ h.has[c] = n.has[c]
        BY <2>1, <2>2, HouseBeside
    <3>2. /\ h \in MomentType
          /\ h.clients = [n.clients EXCEPT ![l] = n.clients[l] \union {c}]
          /\ h.load = [n.load EXCEPT ![l] = n.load[l] + 1]
          /\ h.home = [n.home EXCEPT ![c] = l]
          /\ h.left = n.left /\ h.has = n.has
        BY <2>1, <2>2, HouseIs
    <3> QED BY <3>1, <3>2
  <2>4. PICK m : m = Grant(h, l, c)
      OBVIOUS
  <2>5. Beside(h, m, c) /\ m.home[c] = h.home[c]
    <3>1. h.left[l] > 0
        BY <1>6, <1>7, <2>3
    <3>2. /\ Beside(h, m, c) /\ m.home[c] = h.home[c] /\ m.clients = h.clients
          /\ job[l] > 0 => m.has[c] = <<l, job[l]>>
        BY <1>5, <2>1, <2>3, <2>4, <3>1, GrantBeside
    <3> QED BY <3>2
  <2>6. Become(m) /\ live' = live
      BY <1>3, <1>4, <1>6, <1>7, <2>2, <2>4 DEF RunAttached
  <2>7. Beside(Moment, m, c)
      BY <1>6, <2>3, <2>5, BesideAgain
  <2>8. home' = m.home /\ \A d \in Clients \ {c} : m.home[d] = home[d]
      BY <2>6, <2>7, MomentFields DEF Become, Beside
  <2>9. Placed(c)
      BY <1>1, <1>3, <1>4, <1>7 DEF Placed
  <2> QED BY <1>4, <1>7, <2>3, <2>5, <2>6, <2>8, <2>9
<1>8. CASE ~ (l # None /\ c \in live /\ left[l] > 0 /\ job[l] > 0)
  <2>1. PICK h \in MomentType :
            /\ h = IF l # None /\ c \in live THEN House(Moment, l, c) ELSE Moment
            /\ Beside(n, h, c)
    <3>1. CASE l # None /\ c \in live
      <4>1. PICK h : h = House(n, l, c)
          OBVIOUS
      <4>2. Beside(n, h, c) /\ h.home[c] = l /\ h.has[c] = n.has[c]
          BY <3>1, <4>1, HouseBeside
      <4> QED BY <1>6, <3>1, <4>1, <4>2 DEF Beside
    <3>2. CASE ~ (l # None /\ c \in live)
        BY <1>6, <3>2 DEF Beside
    <3> QED BY <3>1, <3>2
  <2>2. PICK m : m = Gone(h, c)
      OBVIOUS
  <2>3. Beside(h, m, c) /\ m.home[c] = None
      BY <2>2, GoneBeside
  <2>4. Beside(Moment, m, c)
      BY <1>6, <2>1, <2>3, BesideAgain
  <2>5. Become(m) /\ live' = live \ {c}
      BY <1>3, <1>4, <1>8, <2>1, <2>2 DEF RunAttached
  <2>6. home' = m.home /\ \A d \in Clients \ {c} : m.home[d] = home[d]
      BY <2>4, <2>5, MomentFields DEF Become, Beside
  <2> QED BY <2>3, <2>5, <2>6
<1> QED
    BY <1>7, <1>8

LEMMA LivelyAttached ==
    ASSUME IInv, Lively, RunAttached
    PROVE  Lively'
<1>1. Lively' <=> \A d \in Clients : home'[d] # None => d \in live'
    BY DEF Lively
<1> QED
    BY <1>1, AttachedHomes DEF Lively

\* Where a migration leaves them.
LEMMA MigratedHomes ==
    ASSUME IInv, RunMigrated
    PROVE  /\ live' = live
           /\ \A d \in Clients :
                 \/ home'[d] = home[d]
                 \/ /\ d \in live /\ Placed(d)
                    /\ \/ home'[d] = Head(todo).on
                       \/ home'[d] \in LinkIds /\ phase[home'[d]] = "up"
<1>1. /\ Typed /\ todo # <<>> /\ Head(todo).op = "settled"
      /\ Head(todo).task.kind \notin Attaching /\ live' = live
    BY DEF IInv, RunMigrated
<1>2. Head(todo).task \in Task /\ Head(todo).on \in LinkIds \union {None}
    BY <1>1, HeadParts
<1>3. PICK c \in Clients : c = Head(todo).task.client
    BY <1>2, TaskParts
<1>4. PICK l \in LinkIds \union {None} : l = Head(todo).on
    BY <1>2
<1>5. PICK from \in LinkIds : from = Head(todo).task.from
    BY <1>1, <1>2, TaskParts
<1>6. Moment \in MomentType /\ job \in [LinkIds -> 0 .. MaxJobs]
    BY <1>1 DEF Typed
<1>7. PICK n \in MomentType : n = Moment /\ n.left = left
    BY <1>6, MomentFields
<1>8. PICK moved : moved = House(Evict(n, c), l, c)
    OBVIOUS
<1>9. \/ (l = None \/ c \notin live) /\ Become(n)
      \/ /\ l # None /\ c \in live /\ left[l] > 0
         /\ Become(Grant(moved, l, c))
      \/ /\ l # None /\ c \in live
         /\ Become(IF phase[from] = "up" THEN House(Evict(moved, c), from, c) ELSE moved)
    BY <1>3, <1>4, <1>5, <1>7, <1>8 DEF RunMigrated
<1>10. CASE (l = None \/ c \notin live) /\ Become(n)
  <2>1. home' = home
      BY <1>7, <1>10, MomentFields DEF Become
  <2> QED BY <1>1, <2>1
<1>11. ASSUME NEW m, Become(m), Beside(Moment, m, c), l # None, c \in live,
              m.home[c] = l \/ (m.home[c] = from /\ phase[from] = "up")
       PROVE  \A d \in Clients :
                 \/ home'[d] = home[d]
                 \/ /\ d \in live /\ Placed(d)
                    /\ \/ home'[d] = Head(todo).on
                       \/ home'[d] \in LinkIds /\ phase[home'[d]] = "up"
  <2>1. home' = m.home /\ \A d \in Clients \ {c} : m.home[d] = home[d]
      BY <1>11, MomentFields DEF Become, Beside
  <2>2. Placed(c)
      BY <1>1, <1>3, <1>4, <1>11 DEF Placed
  <2> QED BY <1>4, <1>11, <2>1, <2>2
<1>12. CASE l # None /\ c \in live
  <2>1. Beside(n, moved, c) /\ moved \in MomentType /\ moved.left = n.left /\ moved.home[c] = l
    <3>1. Beside(n, moved, c) /\ moved.home[c] = l /\ moved.has[c] = n.has[c]
        BY <1>8, <1>12, MoveBeside
    <3>2. moved.left = n.left
        BY <1>8, <1>12, MoveKeeps
    <3> QED BY <3>1, <3>2 DEF Beside
  <2>2. CASE left[l] > 0 /\ Become(Grant(moved, l, c))
    <3>1. PICK m : m = Grant(moved, l, c)
        OBVIOUS
    <3>2. moved.left[l] > 0 /\ l \in LinkIds
        BY <1>7, <1>12, <2>1, <2>2
    <3>3. /\ Beside(moved, m, c) /\ m.home[c] = moved.home[c] /\ m.clients = moved.clients
          /\ job[l] > 0 => m.has[c] = <<l, job[l]>>
        BY <1>6, <2>1, <3>1, <3>2, GrantBeside
    <3>4. Beside(Moment, m, c) /\ Become(m)
        BY <1>7, <2>1, <2>2, <3>1, <3>3, BesideAgain
    <3> QED BY <1>1, <1>11, <1>12, <2>1, <3>3, <3>4
  <2>3. CASE Become(IF phase[from] = "up" THEN House(Evict(moved, c), from, c) ELSE moved)
    <3>1. PICK m : m = House(Evict(moved, c), from, c)
        OBVIOUS
    <3>2. Beside(moved, m, c) /\ m.home[c] = from /\ m.has[c] = moved.has[c]
        BY <2>1, <3>1, MoveBeside
    <3>3. Beside(Moment, m, c) /\ Beside(Moment, moved, c)
        BY <1>7, <2>1, <3>2, BesideAgain
    <3>4. (phase[from] = "up" /\ Become(m)) \/ Become(moved)
        BY <2>3, <3>1
    <3> QED BY <1>1, <1>11, <1>12, <2>1, <3>2, <3>3, <3>4
  <2> QED BY <1>9, <1>12, <2>2, <2>3
<1> QED
    BY <1>1, <1>9, <1>10, <1>12

LEMMA LivelyMigrated ==
    ASSUME IInv, Lively, RunMigrated
    PROVE  Lively'
<1>1. Lively' <=> \A d \in Clients : home'[d] # None => d \in live'
    BY DEF Lively
<1> QED
    BY <1>1, MigratedHomes DEF Lively

\* What a grant leaves alone.
LEMMA GrantHome ==
    ASSUME Typed, NEW l \in LinkIds, NEW c \in Clients, left[l] > 0, Become(Grant(Moment, l, c))
    PROVE  home' = home
<1>1. Moment \in MomentType /\ job \in [LinkIds -> 0 .. MaxJobs]
    BY DEF Typed
<1>2. PICK n \in MomentType : n = Moment /\ n.left = left /\ n.home = home
    BY <1>1, MomentFields
<1>3. PICK m : m = Grant(n, l, c)
    OBVIOUS
<1>4. m.home = n.home
  <2> DEFINE le == [n.left EXCEPT ![l] = n.left[l] - 1]
             ha == [n.has EXCEPT ![c] = IF job[l] > 0 THEN <<l, job[l]>> ELSE n.has[c]]
  <2>1. m = [n EXCEPT !.left = le, !.has = ha]
      BY <1>3 DEF Grant
  <2> HIDE DEF le, ha
  <2> QED BY <2>1 DEF MomentType
<1> QED
    BY <1>2, <1>3, <1>4 DEF Become

LEMMA LivelyStep ==
    ASSUME IInv, Lively, Next
    PROVE  Lively'
<1>1. Typed
    BY DEF IInv
<1>2. Lively' <=> \A d \in Clients : home'[d] # None => d \in live'
    BY DEF Lively
<1>3. ASSUME home' = home, live \subseteq live' PROVE Lively'
    BY <1>2, <1>3 DEF Lively
<1>4. ASSUME NEW l \in LinkIds, NEW rest, Sever(l, rest) PROVE Lively'
  <2>1. home' = Orphaned(clients[l]) /\ live' = live
      BY <1>4 DEF Sever
  <2>2. \A d \in Clients : home'[d] # None => home'[d] = home[d]
      BY <2>1 DEF Orphaned
  <2> QED BY <1>2, <2>1, <2>2 DEF Lively
<1>5. CASE RunPick
    BY <1>3, <1>5 DEF RunPick
<1>6. CASE RunAttached
    BY <1>6, LivelyAttached
<1>7. CASE RunMigrated
    BY <1>7, LivelyMigrated
<1>8. CASE RunRenew
  <2>1. PICK h \in Work : h = Head(todo) /\ h.on \in LinkIds /\ h.clients \in SUBSET Clients
      BY <1>1, <1>8, HeadParts, WorkParts DEF RunRenew
  <2>2. PICK c \in h.clients :
            IF left[h.on] > 0 THEN Become(Grant(Moment, h.on, c)) ELSE Become(Moment)
      BY <1>8, <2>1 DEF RunRenew
  <2>3. home' = home
    <3>1. CASE left[h.on] > 0
        BY <1>1, <2>1, <2>2, <3>1, GrantHome
    <3>2. CASE ~ (left[h.on] > 0)
        BY <2>2, <3>2, MomentFields DEF Become
    <3> QED BY <3>1, <3>2
  <2>4. live' = live
      BY <1>8 DEF RunRenew
  <2> QED BY <1>3, <2>3, <2>4
<1>9. CASE RunMove \/ RunConsolidate
    BY <1>3, <1>9 DEF RunMove, RunConsolidate, who
<1>10. CASE RunRehome
    BY <1>3, <1>10 DEF RunRehome
<1>11. CASE RunSweep
  <2>1. Head(todo).on \in LinkIds
      BY <1>1, <1>11, HeadParts, WorkParts DEF RunSweep
  <2>2. UNCHANGED who \/ \E rest : Sever(Head(todo).on, rest)
      BY <1>11 DEF RunSweep
  <2> QED BY <1>3, <1>4, <2>1, <2>2 DEF who
<1>12. ASSUME NEW c \in Clients, Login(c) \/ Detach(c) \/ Chunk(c) PROVE Lively'
  <2>1. CASE Login(c)
      BY <1>3, <2>1 DEF Login
  <2>2. CASE Detach(c)
    <3>1. PICK n \in MomentType : n = Moment
        BY <1>1 DEF Typed
    <3>2. PICK m : m = Gone(n, c)
        OBVIOUS
    <3>3. Beside(n, m, c) /\ m.home[c] = None
        BY <3>1, <3>2, GoneBeside
    <3>4. Become(m) /\ live' = live \ {c}
        BY <2>2, <3>1, <3>2 DEF Detach
    <3> QED BY <3>1, <3>3, <3>4, LivelyBeside
  <2>3. CASE Chunk(c)
    <3>1. home[c] \in LinkIds
        BY <1>1, <2>3, TypedParts DEF Chunk
    <3>2. Become(Moment) \/ (left[home[c]] > 0 /\ Become(Grant(Moment, home[c], c)))
        BY <2>3 DEF Chunk
    <3>3. home' = home
      <4>1. CASE Become(Moment)
          BY <4>1, MomentFields DEF Become
      <4>2. CASE left[home[c]] > 0 /\ Become(Grant(Moment, home[c], c))
          BY <1>1, <3>1, <4>2, GrantHome
      <4> QED BY <3>2, <4>1, <4>2
    <3>4. live' = live
        BY <2>3 DEF Chunk
    <3> QED BY <1>3, <3>3, <3>4
  <2> QED BY <1>12, <2>1, <2>2, <2>3
<1>13. ASSUME NEW l \in LinkIds, Opening(l) \/ Job(l) \/ Lost(l) PROVE Lively'
  <2>1. CASE Connected(l) \/ LinkUp(l) \/ OpenFails(l) \/ Job(l)
      BY <1>3, <2>1 DEF Connected, LinkUp, OpenFails, Job, who
  <2>2. CASE LostEarly(l)
      BY <1>4, <2>2 DEF LostEarly
  <2>3. CASE Lost(l)
      BY <1>4, <2>3 DEF Lost
  <2> QED BY <1>13, <2>1, <2>2, <2>3 DEF Opening
<1>14. CASE Rebalance
    BY <1>3, <1>14 DEF Rebalance, who
<1>15. CASE Close
    BY <1>2, <1>15 DEF Close
<1> QED
    BY <1>5, <1>6, <1>7, <1>8, <1>9, <1>10, <1>11, <1>12, <1>13, <1>14, <1>15 DEF Next, Run

\* Loops that move miners take the place of a sweep.
LEMMA JobSweptBy ==
    ASSUME IInv, JobInv, Remembers, todo # <<>>, Head(todo).op \in {"sweep", "consolidate"},
           NEW B, \A x \in B : x.op = "move",
           ~ closed => \A x \in B : \A d \in Clients \ crossed :
               d \in x.clients => home[d] = x.on,
           Late(todo'), Items(Tail(todo)) \subseteq Items(todo'),
           Items(todo') \subseteq Items(Tail(todo)) \union B,
           links' = links, phase' = phase, job' = job, left' = left, clients' = clients,
           waiting' = waiting, home' = home, has' = has, live' = live, session' = session,
           closed' = closed
    PROVE  JobInv'
<1>1. Typed /\ todo \in Seq(Work)
    BY DEF IInv, Typed
<1>2. PICK h \in Work : h = Head(todo) /\ h.op \in {"sweep", "consolidate"}
    BY <1>1, HeadParts
<1>3. PICK rest \in Seq(Work) : rest = Tail(todo) /\ Items(todo) = {h} \union Items(rest)
    BY <1>1, <1>2, HeadParts
<1>5. ~ closed => \A d \in Clients \ crossed : \A y \in Items(todo') :
               Serves(y, d) => home[d] = y.on
    BY <1>3 DEF JobInv, MinersSound, InTurn, Serves
<1>6. \A t : Under(t)' <=> Under(t)
    BY <1>2, <1>3, UnderPrime DEF Under
<1>7. \A d : Orphan(d) => Orphan(d)'
    BY <1>2, <1>3, DuePrime DEF Orphan
<1>8. \A d : Renewing(d) => Renewing(d)'
  <2>1. \A d : \A y \in Items(todo) : y.op = "renew" /\ d \in y.clients =>
            \E z \in Items(todo') : z.op = "renew" /\ d \in z.clients
      BY <1>2, <1>3
  <2> QED BY <1>6, <2>1, RenewingKept
<1> QED
    BY <1>5, <1>6, <1>7, <1>8, TodoOnly

\* A sweep that moves nobody, or some of the miners of a link.
LEMMA JobSweptOff ==
    ASSUME IInv, JobInv, Remembers, todo # <<>>, Head(todo).op \in {"sweep", "consolidate"},
           todo' = Tail(todo),
           links' = links, phase' = phase, job' = job, left' = left, clients' = clients,
           waiting' = waiting, home' = home, has' = has, live' = live, session' = session,
           closed' = closed
    PROVE  JobInv'
<1>1. PICK s \in Seq(Work) : s = todo /\ s # <<>> /\ Late(s)
    BY DEF IInv, Typed, JobInv
<1>2. Late(Tail(s))
    BY <1>1, LateTail
<1>3. PICK B : B = {}
    OBVIOUS
<1>4. /\ \A x \in B : x.op = "move"
      /\ ~ closed => \A x \in B : \A d \in Clients \ crossed :
             d \in x.clients => home[d] = x.on
      /\ Late(todo') /\ Items(Tail(todo)) \subseteq Items(todo')
      /\ Items(todo') \subseteq Items(Tail(todo)) \union B
    BY <1>1, <1>2, <1>3
<1> QED
    BY <1>4, JobSweptBy

LEMMA JobSwept ==
    ASSUME IInv, JobInv, Remembers, todo # <<>>, Head(todo).op \in {"sweep", "consolidate"},
           NEW l \in LinkIds, NEW some \in SUBSET clients[l],
           todo' = <<MoveCall(l, some)>> \o Tail(todo),
           links' = links, phase' = phase, job' = job, left' = left, clients' = clients,
           waiting' = waiting, home' = home, has' = has, live' = live, session' = session,
           closed' = closed
    PROVE  JobInv'
<1>1. Typed /\ Rosters /\ todo \in Seq(Work) /\ Late(todo) /\ some \in SUBSET Clients
    BY TypedParts DEF IInv, Typed, JobInv
<1>2. PICK rest \in Seq(Work) : rest = Tail(todo)
    BY <1>1, HeadParts
<1>3. PICK x \in Work : x = MoveCall(l, some) /\ x.op = "move" /\ x.on = l /\ x.clients = some
    BY <1>1, WorkMade
<1>4. Late(rest)
    BY <1>1, <1>2, LateTail
<1>5. PICK u : u = Atop(x, rest)
    OBVIOUS
<1>6. Items(u) = {x} \union Items(rest) /\ Late(u)
    BY <1>3, <1>4, <1>5, OneMore
<1>7. todo' = u
    BY <1>2, <1>3, <1>5 DEF Atop
<1>8. ~ closed => \A d \in Clients \ crossed : d \in some => home[d] = l
  <2> SUFFICES ASSUME ~ closed, NEW d \in Clients \ crossed, d \in some
               PROVE  home[d] = l
      OBVIOUS
  <2>1. Alone(Moment, d)
      BY <1>1 DEF Rosters, Clean
  <2>2. home[d] = l
      BY <2>1, MomentFields DEF Alone
  <2> QED BY <2>2
<1>9. PICK B : B = {x}
    OBVIOUS
<1>10. /\ \A y \in B : y.op = "move"
       /\ ~ closed => \A y \in B : \A d \in Clients \ crossed :
              d \in y.clients => home[d] = y.on
       /\ Late(todo') /\ Items(Tail(todo)) \subseteq Items(todo')
       /\ Items(todo') \subseteq Items(Tail(todo)) \union B
    BY <1>2, <1>3, <1>6, <1>7, <1>8, <1>9
<1> QED
    BY <1>10, JobSweptBy

LEMMA JobSweep ==
    ASSUME IInv, JobInv, Remembers, RunSweep
    PROVE  JobInv'
<1>1. /\ Typed /\ RehomeFirst /\ Rosters /\ todo # <<>> /\ Head(todo).op = "sweep"
      /\ waiting' = waiting /\ todo \in Seq(Work) /\ Late(todo)
    BY DEF IInv, RunSweep, Typed, JobInv
<1>2. PICK h \in Work : h = Head(todo)
    BY <1>1, HeadParts
<1>3. PICK l \in LinkIds : l = Head(todo).on
    BY <1>1, <1>2, WorkParts
<1>4. PICK rest \in Seq(Work) : rest = Tail(todo) /\ Items(todo) = {h} \union Items(rest)
    BY <1>1, <1>2, HeadParts
<1>5. ASSUME NEW some \in SUBSET clients[l],
             todo' = IF some = {} THEN Tail(todo) ELSE <<MoveCall(l, some)>> \o Tail(todo),
             UNCHANGED <<links, phase, job, left, clients, load, who, closed>>
      PROVE  JobInv'
  <2>2. todo' = Tail(todo) \/ todo' = <<MoveCall(l, some)>> \o Tail(todo)
      BY <1>5
  <2>3. /\ links' = links /\ phase' = phase /\ job' = job /\ left' = left /\ clients' = clients
        /\ home' = home /\ has' = has /\ live' = live /\ session' = session /\ closed' = closed
      BY <1>5 DEF who
  <2> QED BY <1>1, <2>2, <2>3, JobSwept, JobSweptOff
<1>6. CASE /\ clients[l] = {}
           /\ idle' = [idle EXCEPT ![l] = TRUE]
           /\ todo' = Tail(todo)
           /\ UNCHANGED <<links, phase, job, left, clients, load, who, closed>>
  <2>1. PICK some \in SUBSET clients[l] : some = {}
      OBVIOUS
  <2> QED BY <1>5, <1>6, <2>1
<1>7. CASE /\ clients[l] # {}
           /\ idle' = [idle EXCEPT ![l] = FALSE]
           /\ \E some \in SUBSET clients[l] :
                 /\ some # {} => Moves
                 /\ todo' = IF some = {} THEN Tail(todo)
                            ELSE <<MoveCall(l, some)>> \o Tail(todo)
           /\ UNCHANGED <<links, phase, job, left, clients, load, who, closed>>
    BY <1>5, <1>7
<1>8. CASE clients[l] = {} /\ idle[l] /\ phase[l] = "up" /\ Sever(l, Tail(todo))
  <2>1. Sever(l, rest) /\ Late(rest)
    <3>1. Late(rest)
        BY <1>1, <1>4, LateTail
    <3> QED BY <1>4, <1>8, <3>1
  <2>2. \A x \in Items(todo) : x.op # "rehome"
      BY <1>1, NoRehome
  <2>3. /\ waiting' \in [LinkIds -> Seq(Waiter)] /\ waiting'[l] = <<>>
        /\ \A k \in LinkIds : k # l => waiting'[k] = waiting[k]
      BY <1>1, <1>8 DEF Typed, Awaited
  <2>4. \A t : Under(t) <=> UnderIn(rest, t)
      BY <1>1, <1>2, <1>4 DEF Under, UnderIn
  <2>5. /\ \A x \in Items(rest) : x.op \in {"renew", "move"} => x \in Items(todo) /\ clients[l] = {}
        /\ \A x \in Items(todo) : x.op \in {"renew", "move"} => x \in Items(rest)
      BY <1>1, <1>2, <1>4, <1>8
  <2> QED BY <2>1, <2>2, <2>3, <2>4, <2>5, JobSevered
<1> QED
    BY <1>3, <1>6, <1>7, <1>8 DEF RunSweep

LEMMA JobConsolidate ==
    ASSUME IInv, JobInv, Remembers, RunConsolidate
    PROVE  JobInv'
<1>1. /\ Typed /\ todo # <<>> /\ Head(todo).op = "consolidate" /\ Listed \subseteq LinkIds
      /\ UNCHANGED <<link, who, closed, waiting>>
    BY TypedParts DEF IInv, RunConsolidate
<1>2. /\ links' = links /\ phase' = phase /\ job' = job /\ left' = left /\ clients' = clients
      /\ waiting' = waiting /\ home' = home /\ has' = has /\ live' = live /\ session' = session
      /\ closed' = closed
    BY <1>1 DEF link, who
<1>3. CASE todo' = Tail(todo)
    BY <1>1, <1>2, <1>3, JobSweptOff
<1>4. ASSUME NEW victim \in {l \in Listed : job[l] > 0 /\ clients[l] # {}},
             todo' = <<MoveCall(victim, clients[victim])>> \o Tail(todo)
      PROVE  JobInv'
  <2>1. PICK l \in LinkIds : l = victim
      BY <1>1, <1>4
  <2>3. PICK some \in SUBSET clients[l] : some = clients[l]
      OBVIOUS
  <2>4. todo' = <<MoveCall(l, some)>> \o Tail(todo)
      BY <1>4, <2>1, <2>3
  <2> QED BY <1>1, <1>2, <2>4, JobSwept
<1> QED
    BY <1>3, <1>4 DEF RunConsolidate

\* What awaits a link goes on with the tasks it had.
LEMMA ResumedTasks ==
    ASSUME Typed, Idle, NEW l \in LinkIds, NEW on \in LinkIds \union {None},
           Emptied(l), NEW r, r = Resumed(l, on)
    PROVE  /\ r \in Seq(Work) /\ Late(r)
           /\ \A x \in Items(r) : x.op \in {"pick", "settled"} /\ (x.op = "settled" => x.on = on)
           /\ \A t : Under(t) <=> UnderIn(r, t)
           /\ waiting' \in [LinkIds -> Seq(Waiter)] /\ waiting'[l] = <<>>
           /\ \A k \in LinkIds : k # l => waiting'[k] = waiting[k]
<1>1. /\ r \in Seq(Work) /\ \A x \in Items(r) : x.op # "rehome"
      /\ \A d : Due(d) <=> AttachedIn(r, d)
      /\ waiting' \in [LinkIds -> Seq(Waiter)] /\ waiting'[l] = <<>>
      /\ \A k \in LinkIds : k # l => waiting'[k] = waiting[k]
    BY Resumes
<1>2. PICK s \in Seq(Waiter) : s = waiting[l]
    BY DEF Typed
<1>3. DOMAIN s = 1 .. Len(s) /\ \A i \in DOMAIN s : s[i] \in Waiter
    BY SeqParts
<1>4. /\ DOMAIN r = DOMAIN s
      /\ \A i \in DOMAIN s : r[i] = Settled(s[i].task, on) \/ r[i] = PickCall(s[i].task)
    BY <1>2 DEF Resumed
<1>5. \A i \in DOMAIN s : s[i].task \in Task
    BY <1>3 DEF Waiter
<1>6. \A i \in DOMAIN s : /\ r[i].op \in {"pick", "settled"} /\ r[i].task = s[i].task
                          /\ r[i].op = "settled" => r[i].on = on
    BY <1>4, <1>5, WorkMade
<1>7. \A x \in Items(r) : x.op \in {"pick", "settled"} /\ (x.op = "settled" => x.on = on)
    BY <1>4, <1>6 DEF Items
<1>8. Late(r)
    BY <1>7, LateFlat
<1>9. \A t : (\E x \in Items(r) : x.op \in {"pick", "settled"} /\ x.task = t) <=>
                 (\E w \in Items(s) : w.task = t)
    BY <1>4, <1>6 DEF Items
<1>10. Items(todo) = {} /\ Items(<<>>) = {}
    BY IdleIs, NoItems
<1>11. ASSUME NEW t PROVE Under(t) <=> UnderIn(r, t)
  <2>1. Under(t) <=> \E k \in LinkIds : \E w \in Items(waiting[k]) : w.task = t
      BY <1>10 DEF Under
  <2>2. (\E k \in LinkIds : \E w \in Items(waiting[k]) : w.task = t) <=>
            \/ \E w \in Items(s) : w.task = t
            \/ \E k \in LinkIds : \E w \in Items(waiting'[k]) : w.task = t
      BY <1>1, <1>2, <1>10
  <2> QED BY <1>9, <2>1, <2>2 DEF UnderIn
<1> QED
    BY <1>1, <1>7, <1>8, <1>11

\* Before the next event no loop is to serve anyone.
LEMMA IdleJobs ==
    ASSUME Idle
    PROVE  /\ Items(todo) = {} /\ \A d : ~ Orphan(d)
           /\ \A d : Renewing(d) <=> \E t \in Task : Under(t) /\ t.client = d /\ t.kind = "renew"
<1>1. Items(todo) = {} /\ \A d : ~ Orphan(d)
    BY IdleIs
<1> QED
    BY <1>1 DEF Renewing

LEMMA JobLost ==
    ASSUME IInv, JobInv, Remembers, NEW l \in LinkIds, Lost(l)
    PROVE  JobInv'
<1>1. /\ Typed /\ Idle /\ phase[l] = "up" /\ Sever(l, <<>>) /\ waiting' = waiting
    BY DEF IInv, Lost
<1>2. PICK rest \in Seq(Work) : rest = <<>> /\ Items(rest) = {}
    BY NoItems
<1>3. Sever(l, rest) /\ Late(rest) /\ Items(todo) = {}
    BY <1>1, <1>2, LateFlat, IdleIs
<1>4. /\ waiting' \in [LinkIds -> Seq(Waiter)] /\ waiting'[l] = <<>>
      /\ \A k \in LinkIds : k # l => waiting'[k] = waiting[k]
    BY <1>1 DEF Typed, Awaited
<1>5. \A t : Under(t) <=> UnderIn(rest, t)
    BY <1>1, <1>2, <1>3 DEF Under, UnderIn
<1> QED
    BY <1>2, <1>3, <1>4, <1>5, JobSevered

LEMMA JobLostEarly ==
    ASSUME IInv, JobInv, Remembers, NEW l \in LinkIds, LostEarly(l)
    PROVE  JobInv'
<1>1. /\ Typed /\ Idle /\ phase[l] = "login"
      /\ Sever(l, Resumed(l, waiting[l][1].roomiest))
      /\ Emptied(l)
    BY DEF IInv, LostEarly, Emptied
<1>2. PICK on \in LinkIds \union {None} : on = waiting[l][1].roomiest
    BY <1>1, OpenerKnows
<1>3. PICK r : r = Resumed(l, on)
    OBVIOUS
<1>4. /\ r \in Seq(Work) /\ Late(r)
      /\ \A x \in Items(r) : x.op \in {"pick", "settled"} /\ (x.op = "settled" => x.on = on)
      /\ \A t : Under(t) <=> UnderIn(r, t)
      /\ waiting' \in [LinkIds -> Seq(Waiter)] /\ waiting'[l] = <<>>
      /\ \A k \in LinkIds : k # l => waiting'[k] = waiting[k]
    BY <1>1, <1>3, ResumedTasks
<1>5. Sever(l, r) /\ Items(todo) = {}
    BY <1>1, <1>2, <1>3, IdleIs
<1> QED
    BY <1>4, <1>5, JobSevered

\* An event that touches one link and no miner.
LEMMA JobLinkStep ==
    ASSUME IInv, JobInv, Remembers, Idle, NEW l \in LinkIds,
           home' = home, has' = has, live' = live, session' = session, closed' = closed,
           closed => links' = <<>>, Listed' \subseteq Listed,
           \A k \in LinkIds : k # l => job'[k] = job[k],
           Late(todo'), ~ closed => LinksSound',
           ~ closed => \A d \in Clients \ crossed : \A x \in Items(todo') :
               Serves(x, d) => home[d] = x.on,
           \A t : Under(t)' <=> Under(t),
           job'[l] # job[l] => \A d \in clients[l] : Renewing(d)'
    PROVE  JobInv'
<1>1. Late(todo)' /\ (closed => links = <<>>)'
    BY DEF Late
<1> SUFFICES ASSUME ~ closed PROVE MinersSound'
    BY <1>1 DEF JobInv
<1>2. /\ Typed /\ Rosters /\ MinersSound /\ Listed \subseteq LinkIds /\ live \subseteq Clients
      /\ home \in [Clients -> LinkIds \union {None}]
    BY TypedParts DEF IInv, Typed, JobInv
<1>3. Items(todo) = {} /\ \A d : ~ Orphan(d)
    BY IdleJobs
<1>4. ASSUME NEW d \in Clients \ crossed' PROVE InTurn(d)'
  <2>1. InTurn(d)' <=> \A x \in Items(todo') : Serves(x, d) => home'[d] = x.on
      BY DEF InTurn, Items, Serves
  <2> QED BY <1>4, <2>1 DEF Remembers
<1>5. ASSUME NEW d \in live' \ crossed' PROVE Settles(d)'
  <2>1. d \in Clients \ crossed /\ Settles(d)
      BY <1>2, <1>5 DEF MinersSound, Remembers
  <2>3. ASSUME home[d] \notin LinkIds PROVE Settles(d)'
    <3>1. home'[d] \notin Listed'
        BY <1>2, <2>3
    <3>2. Served(d)'
        BY <3>1 DEF Served, Fresh
    <3>3. \A t \in Task : t.kind \notin Attaching => t.from \in LinkIds
        BY TaskParts
    <3>4. Moving(d)'
        BY <1>3, <2>1, <2>3, <3>3 DEF Settles, Moving
    <3> QED BY <3>2, <3>4 DEF Settles
  <2>4. CASE home[d] \in LinkIds /\ ~ (home[d] = l /\ l \in Listed' /\ job'[l] # job[l])
    <3>1. home[d] \in Listed' => home[d] \in Listed /\ job'[home[d]] = job[home[d]]
        BY <2>4
    <3>2. Renewing(d) => Renewing(d)'
        BY <1>3, RenewingKept
    <3> QED BY <1>3, <2>1, <2>4, <3>1, <3>2, PlaceKept
  <2>5. CASE home[d] = l /\ l \in Listed' /\ job'[l] # job[l]
    <3>2. d \in clients[l]
        BY <1>2, <2>1, <2>5, MomentFields, NoneAssumption DEF Rosters, Lists
    <3>3. Renewing(d)'
        BY <2>5, <3>2
    <3>4. Served(d)'
        BY <2>5, <3>3 DEF Served, Fresh
    <3>5. Moving(d)'
        BY <1>3, <2>1, <2>5 DEF Settles, Moving
    <3> QED BY <3>4, <3>5 DEF Settles
  <2> QED BY <2>3, <2>4, <2>5
<1> QED
    BY <1>4, <1>5 DEF MinersSound

\* The items of a job that comes, before those of r.
LEMMA AcceptMore ==
    ASSUME Typed, NEW l \in LinkIds, NEW r \in Seq(Work), Late(r), Accept(l, r)
    PROVE  /\ job'[l] > 0 /\ Late(todo')
           /\ \A k \in LinkIds : k # l => job'[k] = job[k] /\ left'[k] = left[k]
           /\ Items(r) \subseteq Items(todo')
           /\ \A x \in Items(todo') : x \in Items(r) \/ (x.op = "renew" /\ x.on = l /\ x.clients = clients[l])
           /\ clients[l] # {} =>
                  \E x \in Items(todo') : x.op = "renew" /\ x.on = l /\ x.clients = clients[l]
<1>1. /\ job \in [LinkIds -> 0 .. MaxJobs] /\ left \in [LinkIds -> 0 .. Units]
      /\ clients[l] \in SUBSET Clients
    BY TypedParts DEF Typed
<1>2. /\ job' = [job EXCEPT ![l] = job[l] + 1]
      /\ left' = [left EXCEPT ![l] = Units]
      /\ todo' = IF clients[l] = {} THEN r ELSE <<RenewCall(l, clients[l])>> \o r
    BY DEF Accept
<1>3. job'[l] > 0 /\ \A k \in LinkIds : k # l => job'[k] = job[k] /\ left'[k] = left[k]
    BY <1>1, <1>2
<1>4. PICK x \in Work : /\ x = RenewCall(l, clients[l]) /\ x.op = "renew" /\ x.on = l
                        /\ x.clients = clients[l]
    BY <1>1, WorkMade
<1>5. PICK u : u = Atop(x, r)
    OBVIOUS
<1>6. Items(u) = {x} \union Items(r) /\ Late(u)
    BY <1>4, <1>5, OneMore
<1>7. todo' = IF clients[l] = {} THEN r ELSE u
    BY <1>2, <1>4, <1>5 DEF Atop
<1> QED
    BY <1>3, <1>4, <1>6, <1>7

LEMMA JobJob ==
    ASSUME IInv, JobInv, Remembers, NEW l \in LinkIds, Job(l)
    PROVE  JobInv'
<1>1. /\ Typed /\ Idle /\ Accept(l, <<>>) /\ Rosters
      /\ UNCHANGED <<links, phase, clients, load, idle, who, closed, waiting>>
    BY DEF IInv, Job
<1>2. PICK r \in Seq(Work) : r = <<>> /\ Items(r) = {}
    BY NoItems
<1>3. Accept(l, r) /\ Late(r)
    BY <1>1, <1>2, LateFlat
<1>4. /\ job'[l] > 0 /\ Late(todo')
      /\ \A k \in LinkIds : k # l => job'[k] = job[k] /\ left'[k] = left[k]
      /\ Items(r) \subseteq Items(todo')
      /\ \A x \in Items(todo') : x \in Items(r) \/ (x.op = "renew" /\ x.on = l /\ x.clients = clients[l])
      /\ clients[l] # {} =>
             \E x \in Items(todo') : x.op = "renew" /\ x.on = l /\ x.clients = clients[l]
    BY <1>1, <1>3, AcceptMore
<1>5. /\ links' = links /\ phase' = phase /\ home' = home /\ has' = has /\ live' = live
      /\ session' = session /\ closed' = closed /\ waiting' = waiting /\ clients' = clients
    BY <1>1 DEF who
<1>6. Listed' = Listed /\ Items(todo) = {} /\ Listed \subseteq LinkIds
    BY <1>1, <1>5, IdleIs, TypedParts DEF Listed
<1>7. \A t : Under(t)' <=> Under(t)
    BY <1>2, <1>4, <1>5, <1>6, UnderPrime DEF Under
<1>8. ~ closed => LinksSound'
    BY <1>4, <1>6 DEF JobInv, LinksSound
<1>9. ~ closed => \A d \in Clients \ crossed : \A x \in Items(todo') :
          Serves(x, d) => home[d] = x.on
  <2> SUFFICES ASSUME ~ closed, NEW d \in Clients \ crossed, NEW x \in Items(todo'), Serves(x, d)
               PROVE  home[d] = x.on
      OBVIOUS
  <2>1. x.on = l /\ d \in clients[l]
      BY <1>2, <1>4 DEF Serves
  <2>2. home[d] = l
      BY <1>1, <2>1, MomentFields DEF Rosters, Clean, Alone
  <2> QED BY <1>1, <1>5, <2>1, <2>2
<1>10. \A d \in clients[l] : Renewing(d)'
  <2> SUFFICES ASSUME NEW d \in clients[l] PROVE Renewing(d)'
      OBVIOUS
  <2>1. \E x \in Items(todo') : x.op = "renew" /\ d \in x.clients
      BY <1>4
  <2>2. Renewing(d)' <=> \/ \E x \in Items(todo') : x.op = "renew" /\ d \in x.clients
                         \/ \E t \in Task : Under(t)' /\ t.client = d /\ t.kind = "renew"
      BY DEF Renewing, Items
  <2> QED BY <2>1, <2>2
<1>11. closed => links' = <<>>
    BY <1>5 DEF JobInv
<1> QED
    BY <1>1, <1>4, <1>5, <1>6, <1>7, <1>8, <1>9, <1>10, <1>11, JobLinkStep

LEMMA JobConnected ==
    ASSUME IInv, JobInv, Remembers, NEW l \in LinkIds, Connected(l)
    PROVE  JobInv'
<1>1. /\ Typed /\ Idle /\ phase[l] = "tcp"
      /\ phase' = [phase EXCEPT ![l] = "login"]
      /\ UNCHANGED <<links, job, left, clients, load, idle, who, closed, todo, waiting>>
    BY DEF IInv, Connected
<1>2. /\ links' = links /\ job' = job /\ left' = left /\ home' = home /\ has' = has /\ live' = live
      /\ session' = session /\ closed' = closed /\ waiting' = waiting /\ todo' = todo
    BY <1>1 DEF who
<1>3. /\ Listed' = Listed /\ Items(todo) = {} /\ Listed \subseteq LinkIds /\ Late(todo')
      /\ \A k \in LinkIds : k # l => phase'[k] = phase[k]
    BY <1>1, <1>2, IdleIs, TypedParts DEF Listed, JobInv, Typed
<1>4. \A t : Under(t)' <=> Under(t)
    BY <1>2, UnderPrime DEF Under
<1>5. ~ closed => LinksSound'
    BY <1>2, <1>3 DEF JobInv, LinksSound
<1>6. closed => links' = <<>>
    BY <1>2 DEF JobInv
<1> QED
    BY <1>1, <1>2, <1>3, <1>4, <1>5, <1>6, JobLinkStep

LEMMA JobOpenFails ==
    ASSUME IInv, JobInv, Remembers, NEW l \in LinkIds, OpenFails(l)
    PROVE  JobInv'
<1>1. /\ Typed /\ Idle /\ phase[l] \in {"tcp", "login"}
      /\ links' = Without(links, l)
      /\ phase' = [phase EXCEPT ![l] = "down"]
      /\ todo' = Resumed(l, waiting[l][1].roomiest)
      /\ Emptied(l)
      /\ UNCHANGED <<job, left, clients, load, idle, who, closed>>
    BY DEF IInv, OpenFails, Emptied
<1>2. PICK on \in LinkIds \union {None} : on = waiting[l][1].roomiest
    BY <1>1, OpenerKnows
<1>3. PICK r : r = Resumed(l, on)
    OBVIOUS
<1>4. /\ r \in Seq(Work) /\ Late(r)
      /\ \A x \in Items(r) : x.op \in {"pick", "settled"} /\ (x.op = "settled" => x.on = on)
      /\ \A t : Under(t) <=> UnderIn(r, t)
      /\ waiting' \in [LinkIds -> Seq(Waiter)] /\ waiting'[l] = <<>>
      /\ \A k \in LinkIds : k # l => waiting'[k] = waiting[k]
    BY <1>1, <1>3, ResumedTasks
<1>5. todo' = r
    BY <1>1, <1>2, <1>3
<1>6. /\ job' = job /\ left' = left /\ home' = home /\ has' = has /\ live' = live
      /\ session' = session /\ closed' = closed
    BY <1>1 DEF who
<1>7. /\ Listed' = Listed \ {l} /\ Listed \subseteq LinkIds
      /\ \A k \in LinkIds : k # l => phase'[k] = phase[k]
  <2>1. links \in Seq(LinkIds) /\ \A i, k \in DOMAIN links : i # k => links[i] # links[k]
      BY <1>1 DEF Typed
  <2>2. PICK t : t = Without(links, l)
      OBVIOUS
  <2>3. Items(t) = Items(links) \ {l}
      BY <2>1, <2>2, WithoutItems
  <2>4. Listed' = Listed \ {l}
      BY <1>1, <2>2, <2>3 DEF Listed, Items
  <2> QED BY <1>1, <2>4, TypedParts DEF Typed
<1>8. \A t : Under(t)' <=> Under(t)
    BY <1>4, <1>5, UnderPrime DEF UnderIn
<1>9. ~ closed => LinksSound'
    BY <1>6, <1>7 DEF JobInv, LinksSound
<1>10. closed => links' = <<>>
  <2>1. closed => links = <<>>
      BY DEF JobInv
  <2> QED BY <1>1, <2>1 DEF Without
<1>11. \A d \in Clients : \A x \in Items(todo') : ~ Serves(x, d)
    BY <1>4, <1>5 DEF Serves
<1> QED
    BY <1>1, <1>4, <1>5, <1>6, <1>7, <1>8, <1>9, <1>10, <1>11, JobLinkStep

LEMMA JobLinkUp ==
    ASSUME IInv, JobInv, Remembers, NEW l \in LinkIds, LinkUp(l)
    PROVE  JobInv'
<1>1. /\ Typed /\ Rosters /\ Idle /\ phase[l] = "login"
      /\ phase' = [phase EXCEPT ![l] = "up"]
      /\ Emptied(l)
      /\ IF job[l] = 0 THEN Accept(l, Resumed(l, l))
         ELSE todo' = Resumed(l, l) /\ UNCHANGED <<job, left>>
      /\ UNCHANGED <<links, clients, load, idle, who, closed>>
    BY DEF IInv, LinkUp, Emptied
<1>2. PICK on \in LinkIds \union {None} : on = l
    OBVIOUS
<1>3. PICK r : r = Resumed(l, on) /\ r = Resumed(l, l)
    BY <1>2
<1>4. /\ r \in Seq(Work) /\ Late(r)
      /\ \A x \in Items(r) : x.op \in {"pick", "settled"} /\ (x.op = "settled" => x.on = on)
      /\ \A t : Under(t) <=> UnderIn(r, t)
      /\ waiting' \in [LinkIds -> Seq(Waiter)] /\ waiting'[l] = <<>>
      /\ \A k \in LinkIds : k # l => waiting'[k] = waiting[k]
    BY <1>1, <1>3, ResumedTasks
<1>5. /\ links' = links /\ clients' = clients /\ home' = home /\ has' = has /\ live' = live
      /\ session' = session /\ closed' = closed
    BY <1>1 DEF who
<1>6. /\ Listed' = Listed /\ Listed \subseteq LinkIds
      /\ phase'[l] = "up" /\ \A k \in LinkIds : k # l => phase'[k] = phase[k]
    BY <1>1, <1>5, TypedParts DEF Listed, Typed
<1>8. ASSUME Accept(l, r)
      PROVE  /\ job'[l] > 0 /\ Late(todo')
             /\ \A k \in LinkIds : k # l => job'[k] = job[k] /\ left'[k] = left[k]
             /\ Items(r) \subseteq Items(todo')
             /\ \A x \in Items(todo') : x \in Items(r) \/ (x.op = "renew" /\ x.on = l /\ x.clients = clients[l])
             /\ clients[l] # {} =>
                    \E x \in Items(todo') : x.op = "renew" /\ x.on = l /\ x.clients = clients[l]
    BY <1>1, <1>4, <1>8, AcceptMore
<1>9. /\ Late(todo') /\ Items(r) \subseteq Items(todo')
      /\ \A k \in LinkIds : k # l => job'[k] = job[k] /\ left'[k] = left[k]
      /\ (job'[l] = job[l] /\ left'[l] = left[l])
         \/ /\ job'[l] > 0
            /\ clients[l] # {} =>
                   \E x \in Items(todo') : x.op = "renew" /\ x.on = l /\ x.clients = clients[l]
      /\ \A x \in Items(todo') : x \in Items(r) \/ (x.op = "renew" /\ x.on = l /\ x.clients = clients[l])
  <2>1. CASE job[l] = 0
      BY <1>1, <1>3, <1>8, <2>1
  <2>2. CASE job[l] # 0
      BY <1>1, <1>3, <1>4, <2>2
  <2> QED BY <2>1, <2>2
<1>10. \A t : Under(t)' <=> Under(t)
  <2>1. \A x : x.op \in {"pick", "settled"} => (x \in Items(todo') <=> x \in Items(r))
      BY <1>9
  <2> QED BY <1>4, <2>1, UnderPrime DEF UnderIn
<1>11. ~ closed => LinksSound'
    BY <1>6, <1>9 DEF JobInv, LinksSound
<1>12. ~ closed => \A d \in Clients \ crossed : \A x \in Items(todo') :
          Serves(x, d) => home[d] = x.on
  <2> SUFFICES ASSUME ~ closed, NEW d \in Clients \ crossed, NEW x \in Items(todo'), Serves(x, d)
               PROVE  home[d] = x.on
      OBVIOUS
  <2>1. x.on = l /\ d \in clients[l]
      BY <1>4, <1>9 DEF Serves
  <2>2. home[d] = l
      BY <1>1, <2>1, MomentFields DEF Rosters, Clean, Alone
  <2> QED BY <1>6, <2>1, <2>2
<1>13. closed => links' = <<>>
    BY <1>5 DEF JobInv
<1>14. ASSUME job'[l] # job[l], NEW d \in clients[l] PROVE Renewing(d)'
  <2>1. \E x \in Items(todo') : x.op = "renew" /\ d \in x.clients
      BY <1>9, <1>14
  <2>2. Renewing(d)' <=> \/ \E x \in Items(todo') : x.op = "renew" /\ d \in x.clients
                         \/ \E t \in Task : Under(t)' /\ t.client = d /\ t.kind = "renew"
      BY DEF Renewing, Items
  <2> QED BY <2>1, <2>2
<1> QED
    BY <1>1, <1>5, <1>6, <1>9, <1>10, <1>11, <1>12, <1>13, <1>14, JobLinkStep

LEMMA JobChunk ==
    ASSUME IInv, JobInv, Remembers, NEW c \in Clients, Chunk(c)
    PROVE  JobInv'
<1>1. /\ Typed /\ Idle /\ home[c] # None
      /\ UNCHANGED <<links, phase, job, live, session, closed, waiting>>
    BY DEF IInv, Chunk
<1>2. PICK l \in LinkIds : l = home[c]
    BY <1>1, TypedParts
<1>3. /\ job[l] > 0
      /\ IF left[l] > 0
         THEN Become(Grant(Moment, l, c)) /\ UNCHANGED todo
         ELSE /\ todo' = <<PickCall([kind |-> "chunk", client |-> c, from |-> l])>>
              /\ Become(Moment)
    BY <1>2 DEF Chunk
<1>4. Items(todo) = {} /\ \A d : ~ Orphan(d)
    BY <1>1, IdleIs
<1>5. CASE left[l] > 0
  <2>1. Become(Grant(Moment, l, c)) /\ todo' = todo
      BY <1>3, <1>5
  <2>2. Items(todo') = {} /\ Late(todo')
      BY <1>4, <2>1 DEF JobInv
  <2> QED BY <1>1, <1>2, <1>4, <1>5, <2>1, <2>2, JobGranted
<1>6. CASE ~ (left[l] > 0)
  <2>1. PICK t \in Task : /\ t = [kind |-> "chunk", client |-> c, from |-> l]
                          /\ t.client = c /\ t.from = l /\ t.kind = "chunk"
    <3>1. PICK t : t = [kind |-> "chunk", client |-> c, from |-> l]
        OBVIOUS
    <3>2. t \in Task /\ t.client = c /\ t.from = l /\ t.kind = "chunk"
        BY <3>1 DEF Task
    <3> QED BY <3>1, <3>2
  <2>2. PICK p \in Work : p = PickCall(t) /\ p.op = "pick" /\ p.task = t
      BY WorkMade
  <2>3. Items(todo') = {p}
    <3>1. todo' = <<p>>
        BY <1>3, <1>6, <2>1, <2>2
    <3> QED BY <3>1 DEF Items
  <2>4. Late(todo')
      BY <2>2, <2>3, LateFlat
  <2>5. /\ links' = links /\ phase' = phase /\ job' = job /\ live' = live /\ session' = session
        /\ closed' = closed /\ waiting' = waiting
        /\ left' = left /\ clients' = clients /\ home' = home /\ has' = has
      BY <1>1, <1>3, <1>6, MomentFields DEF Become
  <2>6. \A k : Under(k)' <=> Under(k) \/ k = t
    <3>1. \A k : (\E x \in Items(todo') : x.op \in {"pick", "settled"} /\ x.task = k) <=> k = t
        BY <2>2, <2>3
    <3> QED BY <1>4, <2>5, <3>1, UnderPrime DEF Under
  <2>8. \A d : \A x \in Items(todo') : ~ Serves(x, d)
      BY <2>2, <2>3 DEF Serves
  <2>9. \A d : Renewing(d) => Renewing(d)'
      BY <1>4, <2>6, RenewingKept
  <2>11. ~ closed => \A d \in Clients \ crossed : \A k \in Task :
             Under(k)' /\ k.client = d /\ k.kind \notin Attaching =>
                 Under(k) \/ home[d] = k.from
      BY <1>2, <2>1, <2>6
  <2> QED BY <1>4, <2>4, <2>5, <2>8, <2>9, <2>11, TodoOnly
<1> QED
    BY <1>5, <1>6

LEMMA JobDetach ==
    ASSUME IInv, JobInv, Remembers, NEW c \in Clients, Detach(c)
    PROVE  JobInv'
<1>1. /\ Typed /\ Idle
      /\ session' = [session EXCEPT ![c] = "gone"]
      /\ live' = live \ {c}
      /\ Become(Gone(Moment, c))
      /\ UNCHANGED <<links, phase, job, closed, todo, waiting>>
    BY DEF IInv, Detach
<1>2. /\ Moment \in MomentType /\ session \in [Clients -> {"out", "in", "kicked", "gone"}]
      /\ live \subseteq Clients /\ Listed \subseteq LinkIds
    BY <1>1, TypedParts DEF Typed
<1>3. PICK m : m = Gone(Moment, c)
    OBVIOUS
<1>4. Beside(Moment, m, c)
  <2>1. PICK n \in MomentType : n = Moment
      BY <1>2
  <2>2. m = Gone(n, c)
      BY <1>3, <2>1
  <2>3. Beside(n, m, c) /\ m.home[c] = None
      BY <2>1, <2>2, GoneBeside
  <2> QED BY <2>1, <2>3
<1>5. /\ links' = links /\ phase' = phase /\ job' = job /\ closed' = closed /\ todo' = todo
      /\ waiting' = waiting /\ home' = m.home /\ has' = m.has /\ left' = m.left
    BY <1>1, <1>3 DEF Become
<1>6. Items(todo) = {} /\ \A d : ~ Orphan(d)
    BY <1>1, IdleIs
<1>7. Late(todo)' /\ (closed => links = <<>>)'
    BY <1>5 DEF JobInv, Late
<1> SUFFICES ASSUME ~ closed PROVE LinksSound' /\ MinersSound'
    BY <1>5, <1>7 DEF JobInv
<1>8. LinksSound /\ MinersSound
    BY DEF JobInv
<1>9. LinksSound'
  <2>2. \A l \in LinkIds : left'[l] > 0 => left[l] > 0
      BY <1>4, <1>5, MomentFields DEF Beside
  <2> QED BY <1>2, <1>5, <1>8, <2>2, SoundKept
<1>10. ASSUME NEW d \in Clients \ crossed' PROVE InTurn(d)'
  <2>1. InTurn(d)' <=> \A x \in Items(todo') : Serves(x, d) => home'[d] = x.on
      BY DEF InTurn, Items, Serves
  <2> QED BY <1>5, <1>6, <2>1
<1>11. ASSUME NEW d \in live' \ crossed' PROVE Settles(d)'
  <2>1. d \in Clients /\ d \in Clients \ {c} /\ Settles(d)
      BY <1>1, <1>2, <1>8, <1>11 DEF MinersSound, Remembers
  <2>2. home'[d] = home[d] /\ has'[d] = has[d] /\ session'[d] = session[d]
      BY <1>1, <1>2, <1>4, <1>5, <2>1, MomentFields DEF Beside
  <2>3. \A t : Under(t)' <=> Under(t)
      BY <1>5, UnderPrime DEF Under
  <2>4. Renewing(d) => Renewing(d)'
      BY <1>6, <2>3, RenewingKept
  <2>5. Listed' = Listed
      BY <1>5 DEF Listed
  <2> QED BY <1>5, <1>6, <2>1, <2>2, <2>3, <2>4, <2>5, PlaceKept
<1> QED
    BY <1>9, <1>10, <1>11 DEF MinersSound

LEMMA JobRebalance ==
    ASSUME IInv, JobInv, Remembers, Rebalance
    PROVE  JobInv'
<1>1. /\ Typed /\ Idle
      /\ todo' = [i \in DOMAIN links |-> SweepCall(links[i])] \o <<Consolidate>>
      /\ UNCHANGED <<link, who, closed, waiting>>
    BY DEF IInv, Rebalance
<1>2. /\ links' = links /\ phase' = phase /\ job' = job /\ left' = left /\ clients' = clients
      /\ waiting' = waiting /\ home' = home /\ has' = has /\ live' = live /\ session' = session
      /\ closed' = closed
    BY <1>1 DEF link, who
<1>3. /\ Len(links) \in Nat /\ DOMAIN links = 1 .. Len(links)
      /\ \A i \in DOMAIN links : links[i] \in LinkIds
  <2>1. links \in Seq(LinkIds)
      BY <1>1 DEF Typed
  <2> QED BY <2>1, SeqParts
<1> DEFINE Mild(x) == x.op \notin {"pick", "settled", "renew", "move"}
<1>4. PICK s : s = [i \in DOMAIN links |-> SweepCall(links[i])]
    OBVIOUS
<1>5. s \in Seq(Work) /\ \A x \in Items(s) : Mild(x)
  <2>1. \A i \in DOMAIN links : SweepCall(links[i]) \in Work /\ Mild(SweepCall(links[i]))
      BY <1>3, WorkMade DEF SweepCall
  <2> HIDE DEF Mild
  <2>2. s \in [1 .. Len(links) -> Work]
      BY <1>3, <1>4, <2>1
  <2>3. s \in Seq(Work)
      BY <1>3, <2>2
  <2>4. \A x \in Items(s) : Mild(x)
      BY <1>4, <2>1 DEF Items
  <2> QED BY <2>3, <2>4
<1>6. PICK k \in Work : k = Consolidate /\ Mild(k)
    BY WorkMade
<1>7. PICK t \in Seq(Work) : t = <<k>> /\ Items(t) = {k}
  <2>1. <<k>> \in Seq(Work) /\ Items(<<k>>) = {k}
      BY DEF Items
  <2> QED BY <2>1
<1>8. Items(todo') = Items(s) \union {k}
  <2>1. Items(s \o t) = Items(s) \union Items(t)
      BY <1>5, SeqConcat
  <2>2. todo' = s \o t
      BY <1>1, <1>4, <1>6, <1>7
  <2> QED BY <1>7, <2>1, <2>2
<1>9. \A x \in Items(todo') : Mild(x)
    BY <1>5, <1>6, <1>8
<1>10. Items(todo) = {} /\ \A d : ~ Orphan(d)
    BY <1>1, IdleIs
<1>11. Late(todo')
    BY <1>9, LateFlat
<1>13. \A d : \A x \in Items(todo') : ~ Serves(x, d)
    BY <1>9 DEF Serves
<1>14. \A u : Under(u)' <=> Under(u)
    BY <1>2, <1>9, <1>10, UnderPrime DEF Under
<1>15. \A d : Renewing(d) => Renewing(d)'
    BY <1>10, <1>14, RenewingKept
<1> QED
    BY <1>2, <1>10, <1>11, <1>13, <1>14, <1>15, TodoOnly

LEMMA JobClose ==
    ASSUME IInv, JobInv, Close
    PROVE  JobInv'
<1>1. closed' = TRUE /\ links' = <<>> /\ todo' = todo
    BY DEF Close
<1> QED
    BY <1>1 DEF JobInv, Late

LEMMA JobStutter ==
    ASSUME JobInv, Lively, UNCHANGED vars
    PROVE  JobInv' /\ Lively'
<1>1. /\ links' = links /\ phase' = phase /\ job' = job /\ left' = left /\ clients' = clients
      /\ home' = home /\ live' = live /\ session' = session
      /\ has' = has /\ closed' = closed /\ todo' = todo /\ waiting' = waiting
      /\ crossed' = crossed /\ behind' = behind
    BY DEF vars
<1>2. Listed' = Listed
    BY <1>1 DEF Listed
<1>3. /\ \A t : Under(t)' <=> Under(t)
      /\ \A d : Orphan(d)' <=> Orphan(d)
    BY <1>1, UnderPrime, DuePrime DEF Under, Orphan
<1>4. \A d : Renewing(d)' <=> Renewing(d)
    BY <1>1, <1>3 DEF Renewing, Items
<1>5. LinksSound' <=> LinksSound
    BY <1>1, <1>2 DEF LinksSound
<1>6. \A d : InTurn(d)' <=> InTurn(d)
    BY <1>1 DEF InTurn, Items, Serves
<1>7. \A d : Settles(d)' <=> Settles(d)
  <2>1. \A d : Moving(d)' <=> Moving(d)
      BY <1>1, <1>3 DEF Moving
  <2>2. \A d : Fresh(d)' <=> Fresh(d)
      BY <1>1, <1>2, <1>4 DEF Fresh
  <2> QED BY <1>1, <2>1, <2>2 DEF Settles, Served
<1>8. MinersSound' <=> MinersSound
    BY <1>1, <1>6, <1>7 DEF MinersSound
<1>9. Lively'
    BY <1>1 DEF Lively
<1> QED
    BY <1>1, <1>5, <1>8, <1>9 DEF JobInv, Late

LEMMA JobInitially ==
    ASSUME Init
    PROVE  JobInv /\ Lively
<1>1. /\ links = <<>> /\ job = [l \in LinkIds |-> 0] /\ todo = <<>>
      /\ home = [c \in Clients |-> None] /\ live = {} /\ closed = FALSE
      /\ waiting = [l \in LinkIds |-> <<>>]
    BY DEF Init
<1>2. Items(todo) = {} /\ (\A l \in LinkIds : Items(waiting[l]) = {}) /\ Listed = {}
    BY <1>1 DEF Items, Listed
<1>3. Late(todo)
    BY <1>1 DEF Late
<1>5. LinksSound
    BY <1>2 DEF LinksSound
<1>6. MinersSound
    BY <1>1, <1>2 DEF MinersSound, InTurn
<1>7. Lively
    BY <1>1 DEF Lively
<1> QED
    BY <1>3, <1>1, <1>5, <1>6, <1>7 DEF JobInv

LEMMA JobInductive ==
    ASSUME IInv, IInv', JobInv, Lively, [Next]_vars
    PROVE  JobInv' /\ Lively'
<1>1. CASE UNCHANGED vars
    BY <1>1, JobStutter
<1>2. CASE Next
  <2>1. /\ crossed' = crossed \union {c \in Clients : Placements(c)' > 1}
        /\ behind' = {c \in behind \union Stalling : ~ Current(c)'}
      BY <1>2 DEF Next
  <2>2. Remembers
      BY <2>1 DEF Remembers, IInv, Typed
  <2>3. ASSUME Run PROVE JobInv'
      BY <2>2, <2>3, JobPick, JobAttached, JobMigrated, JobRenew, JobMove, JobRehome,
         JobSweep, JobConsolidate DEF Run
  <2>4. ASSUME NEW c \in Clients, Login(c) \/ Detach(c) \/ Chunk(c) PROVE JobInv'
      BY <2>2, <2>4, JobLogin, JobDetach, JobChunk
  <2>5. ASSUME NEW l \in LinkIds, Opening(l) \/ Job(l) \/ Lost(l) PROVE JobInv'
      BY <2>2, <2>5, JobConnected, JobLinkUp, JobOpenFails, JobLostEarly, JobJob, JobLost
         DEF Opening
  <2>6. ASSUME Rebalance \/ Close PROVE JobInv'
      BY <2>2, <2>6, JobRebalance, JobClose
  <2>7. JobInv'
      BY <1>2, <2>3, <2>4, <2>5, <2>6 DEF Next
  <2>8. Lively'
      BY <1>2, LivelyStep
  <2> QED BY <2>7, <2>8
<1> QED
    BY <1>1, <1>2

\* Every miner on a link works on the job that link has, once nothing is under
\* way for it: no new job, early or not, no loss, failed open or migration leaves
\* it on an old one, but the one that comes to a link without grants from a link
\* that has no socket (accept, migrate, attach, sever).
THEOREM JobsStayCurrent == Spec => []JobOfHome
<1>1. Init => JobInv /\ Lively
    BY JobInitially
<1>2. IInv /\ IInv' /\ (JobInv /\ Lively) /\ [Next]_vars => (JobInv /\ Lively)'
    BY JobInductive
<1>3. ASSUME IInv, JobInv PROVE JobOfHome
  <2> SUFFICES ASSUME Idle, NEW c \in live \ (crossed \union behind), home[c] \in Listed,
                      session[c] = "in", Placements(c) = 0
               PROVE  Current(c)
      BY DEF JobOfHome
  <2>1. Typed /\ home[c] # None
      BY <1>3, TypedParts, NoneAssumption DEF IInv
  <2>2. ~ closed
      BY <1>3 DEF JobInv, Listed
  <2>3. Fresh(c)
      BY <1>3, <2>2 DEF JobInv, MinersSound, Settles, Served
  <2>4. ~ Renewing(c)
      BY <2>1, NoneUnder, IdleJobs
  <2> QED BY <2>1, <2>3, <2>4 DEF Fresh, Current
<1> QED
    BY <1>1, <1>2, <1>3, UpstreamInvariant, PTL DEF Spec

-----------------------------------------------------------------------------
(* The home of a miner is a link that upstream has.                         *)

\* What is not down is listed, and a miner is on a link that is listed, or the
\* history has it.
Anchored ==
    /\ ~ closed => \A l \in LinkIds : phase[l] # "down" => l \in Listed
    /\ \A c \in Clients : home[c] \in Listed \union {None} \/ c \in adrift

Drifts == adrift' = {c \in adrift \union Stranding : home'[c] \notin Listed' \union {None}}

LEMMA AnchorStep ==
    ASSUME Drifts,
           ~ closed' => \A l \in LinkIds : phase'[l] # "down" => l \in Listed',
           \A c \in Clients : home'[c] \in Listed' \union {None} \/ c \in adrift \union Stranding
    PROVE  Anchored'
<1>1. \A c \in Clients : home'[c] \in Listed' \union {None} \/ c \in adrift'
    BY DEF Drifts
<1> QED
    BY <1>1 DEF Anchored

\* A step that moves nobody but to a link that is listed, or in sight of the history.
LEMMA AnchorKept ==
    ASSUME Anchored, Drifts, links' = links, phase' = phase, closed' = closed,
           \A c \in Clients : home'[c] = home[c] \/ home'[c] \in Listed \union {None} \/ c \in Stranding
    PROVE  Anchored'
<1>1. Listed' = Listed
    BY DEF Listed
<1> QED
    BY <1>1, AnchorStep DEF Anchored

LEMMA AnchorPlaced ==
    ASSUME IInv, JobInv, Anchored, Drifts, RunAttached \/ RunMigrated
    PROVE  Anchored'
<1>1. links' = links /\ phase' = phase /\ closed' = closed
    BY DEF RunAttached, RunMigrated
<1>2. \A c \in live : Placed(c) /\ Head(todo).on \notin Listed => c \in Stranding
    BY DEF Stranding
<1>3. CASE RunAttached
  <2>1. \A c \in Clients :
            home'[c] = home[c] \/ home'[c] \in Listed \union {None} \/ c \in Stranding
      BY <1>2, <1>3, AttachedHomes
  <2> QED BY <1>1, <2>1, AnchorKept
<1>4. CASE RunMigrated
  <2>1. SUFFICES ASSUME NEW c \in Clients, home'[c] # home[c], home'[c] \notin Listed
                 PROVE  c \in Stranding
      BY <1>1, AnchorKept
  <2>2. /\ c \in live /\ Placed(c)
        /\ \/ home'[c] = Head(todo).on
           \/ home'[c] \in LinkIds /\ phase[home'[c]] = "up"
      BY <1>4, <2>1, MigratedHomes
  <2>3. CASE home'[c] = Head(todo).on
      BY <1>2, <2>1, <2>2, <2>3
  <2>4. CASE home'[c] \in LinkIds /\ phase[home'[c]] = "up"
    <3>1. closed
        BY <2>1, <2>4 DEF Anchored
    <3>2. Head(todo).on \notin Listed
        BY <3>1 DEF JobInv, Listed
    <3> QED BY <1>2, <2>2, <3>2
  <2> QED BY <2>2, <2>3, <2>4
<1> QED
    BY <1>3, <1>4

LEMMA AnchorSevered ==
    ASSUME IInv, JobInv, Anchored, Drifts, NEW l \in LinkIds, NEW rest, Sever(l, rest)
    PROVE  Anchored'
<1>1. /\ Typed /\ Rosters /\ Listed \subseteq LinkIds
      /\ phase \in [LinkIds -> {"tcp", "login", "up", "down"}]
      /\ links \in Seq(LinkIds) /\ \A i, k \in DOMAIN links : i # k => links[i] # links[k]
    BY TypedParts DEF IInv, Typed
<1>2. /\ links' = Without(links, l) /\ phase' = [phase EXCEPT ![l] = "down"]
      /\ home' = Orphaned(clients[l]) /\ (closed => closed')
    BY DEF Sever
<1>3. Listed' = Listed \ {l}
  <2>1. PICK t : t = Without(links, l)
      OBVIOUS
  <2>2. Items(t) = Items(links) \ {l}
      BY <1>1, <2>1, WithoutItems
  <2> QED BY <1>2, <2>1, <2>2 DEF Listed, Items
<1>4. ~ closed' => \A k \in LinkIds : phase'[k] # "down" => k \in Listed'
    BY <1>1, <1>2, <1>3 DEF Anchored
<1>5. \A c \in Clients : home'[c] \in Listed' \union {None} \/ c \in adrift \union Stranding
  <2> SUFFICES ASSUME NEW c \in Clients, home'[c] # None, c \notin adrift
               PROVE  home'[c] \in Listed'
      OBVIOUS
  <2>1. c \notin clients[l] /\ home'[c] = home[c] /\ home[c] # None
      BY <1>2 DEF Orphaned
  <2>2. home[c] \in Listed
      BY <2>1 DEF Anchored
  <2>3. ~ closed
      BY <2>2 DEF JobInv, Listed
  <2>4. c \in clients[home[c]]
      BY <1>1, <2>1, <2>3, MomentFields DEF Rosters, Lists
  <2> QED BY <1>3, <2>1, <2>2, <2>4
<1> QED
    BY <1>4, <1>5, AnchorStep

LEMMA AnchorOpenFails ==
    ASSUME IInv, JobInv, Lively, Anchored, Drifts, NEW l \in LinkIds, OpenFails(l)
    PROVE  Anchored'
<1>1. /\ Typed /\ Rosters /\ Listed \subseteq LinkIds
      /\ phase \in [LinkIds -> {"tcp", "login", "up", "down"}]
      /\ links \in Seq(LinkIds) /\ \A i, k \in DOMAIN links : i # k => links[i] # links[k]
    BY TypedParts DEF IInv, Typed
<1>2. /\ links' = Without(links, l) /\ phase' = [phase EXCEPT ![l] = "down"]
      /\ home' = home /\ closed' = closed
    BY DEF OpenFails, who
<1>3. Listed' = Listed \ {l}
  <2>1. PICK t : t = Without(links, l)
      OBVIOUS
  <2>2. Items(t) = Items(links) \ {l}
      BY <1>1, <2>1, WithoutItems
  <2> QED BY <1>2, <2>1, <2>2 DEF Listed, Items
<1>4. ~ closed' => \A k \in LinkIds : phase'[k] # "down" => k \in Listed'
    BY <1>1, <1>2, <1>3 DEF Anchored
<1>5. \A c \in Clients : home'[c] \in Listed' \union {None} \/ c \in adrift \union Stranding
  <2> SUFFICES ASSUME NEW c \in Clients, home[c] # None, c \notin adrift, home[c] = l
               PROVE  c \in Stranding
      BY <1>2, <1>3 DEF Anchored
  <2>1. home[c] \in Listed
      BY DEF Anchored
  <2>2. ~ closed
      BY <2>1 DEF JobInv, Listed
  <2>3. c \in clients[l] /\ c \in live
      BY <1>1, <2>2, MomentFields DEF Rosters, Lists, Lively
  <2> QED BY <2>3 DEF Stranding
<1> QED
    BY <1>4, <1>5, AnchorStep

\* A link that is opened or goes on opening, while the miners stay.
LEMMA AnchorOpens ==
    ASSUME Anchored, Drifts, home' = home, closed' = closed, Listed \subseteq Listed',
           \A l \in LinkIds : phase'[l] # "down" => phase[l] # "down" \/ l \in Listed'
    PROVE  Anchored'
<1>1. ~ closed' => \A l \in LinkIds : phase'[l] # "down" => l \in Listed'
    BY DEF Anchored
<1>2. \A c \in Clients : home'[c] \in Listed' \union {None} \/ c \in adrift \union Stranding
    BY DEF Anchored
<1> QED
    BY <1>1, <1>2, AnchorStep

LEMMA AnchorPick ==
    ASSUME IInv, Anchored, Drifts, RunPick
    PROVE  Anchored'
<1>1. home' = home /\ closed' = closed /\ Pick(Head(todo).task, Tail(todo))
    BY DEF RunPick
<1>2. \/ links' = links /\ phase' = phase
      \/ \E l \in LinkIds : links' = Append(links, l) /\ phase' = [phase EXCEPT ![l] = "tcp"]
    BY <1>1 DEF Pick, link
<1>3. CASE links' = links /\ phase' = phase
    BY <1>1, <1>3, AnchorKept
<1>4. ASSUME NEW l \in LinkIds, links' = Append(links, l), phase' = [phase EXCEPT ![l] = "tcp"]
      PROVE  Anchored'
  <2>1. links \in Seq(LinkIds) /\ phase \in [LinkIds -> {"tcp", "login", "up", "down"}]
      BY DEF IInv, Typed
  <2>2. Items(Append(links, l)) = Items(links) \union {l}
      BY <2>1, SeqAppend
  <2>3. Listed' = Listed \union {l}
      BY <1>4, <2>2 DEF Listed, Items
  <2>4. \A k \in LinkIds : phase'[k] # "down" => phase[k] # "down" \/ k \in Listed'
      BY <1>4, <2>1, <2>3
  <2> QED BY <1>1, <2>3, <2>4, AnchorOpens
<1> QED
    BY <1>2, <1>3, <1>4

LEMMA AnchorNext ==
    ASSUME IInv, JobInv, Lively, Anchored, Next
    PROVE  Anchored'
<1>1. Typed /\ Drifts
    BY DEF IInv, Next, Drifts
<1>2. ASSUME links' = links, phase' = phase, closed' = closed, home' = home PROVE Anchored'
    BY <1>1, <1>2, AnchorKept
<1>3. CASE RunPick
    BY <1>1, <1>3, AnchorPick
<1>4. CASE RunAttached \/ RunMigrated
    BY <1>1, <1>4, AnchorPlaced
<1>5. CASE RunRenew
  <2>1. PICK h \in Work : h = Head(todo) /\ h.on \in LinkIds /\ h.clients \in SUBSET Clients
      BY <1>1, <1>5, HeadParts, WorkParts DEF RunRenew
  <2>2. PICK c \in h.clients :
            IF left[h.on] > 0 THEN Become(Grant(Moment, h.on, c)) ELSE Become(Moment)
      BY <1>5, <2>1 DEF RunRenew
  <2>3. home' = home
    <3>1. CASE left[h.on] > 0
        BY <1>1, <2>1, <2>2, <3>1, GrantHome
    <3>2. CASE ~ (left[h.on] > 0)
        BY <2>2, <3>2, MomentFields DEF Become
    <3> QED BY <3>1, <3>2
  <2> QED BY <1>2, <1>5, <2>3 DEF RunRenew
<1>6. CASE RunMove \/ RunConsolidate \/ RunRehome
    BY <1>2, <1>6 DEF RunMove, RunConsolidate, RunRehome, who, link
<1>7. CASE RunSweep
  <2>1. Head(todo).on \in LinkIds
      BY <1>1, <1>7, HeadParts, WorkParts DEF RunSweep
  <2>2. \/ links' = links /\ phase' = phase /\ home' = home /\ closed' = closed
        \/ \E rest : Sever(Head(todo).on, rest)
      BY <1>7 DEF RunSweep, who
  <2> QED BY <1>1, <1>2, <2>1, <2>2, AnchorSevered
<1>8. ASSUME NEW c \in Clients, Login(c) \/ Detach(c) \/ Chunk(c) PROVE Anchored'
  <2>1. CASE Login(c)
      BY <1>2, <2>1 DEF Login, link
  <2>2. CASE Detach(c)
    <3>1. PICK n \in MomentType : n = Moment
        BY <1>1 DEF Typed
    <3>2. PICK m : m = Gone(n, c)
        OBVIOUS
    <3>3. Beside(n, m, c) /\ m.home[c] = None
        BY <3>1, <3>2, GoneBeside
    <3>4. links' = links /\ phase' = phase /\ closed' = closed /\ home' = m.home
        BY <2>2, <3>1, <3>2 DEF Detach, Become
    <3>5. \A d \in Clients : home'[d] = home[d] \/ home'[d] = None
        BY <3>1, <3>3, <3>4, MomentFields DEF Beside
    <3> QED BY <1>1, <3>4, <3>5, AnchorKept
  <2>3. CASE Chunk(c)
    <3>1. home[c] \in LinkIds
        BY <1>1, <2>3, TypedParts DEF Chunk
    <3>2. Become(Moment) \/ (left[home[c]] > 0 /\ Become(Grant(Moment, home[c], c)))
        BY <2>3 DEF Chunk
    <3>3. home' = home
      <4>1. CASE Become(Moment)
          BY <4>1, MomentFields DEF Become
      <4>2. CASE left[home[c]] > 0 /\ Become(Grant(Moment, home[c], c))
          BY <1>1, <3>1, <4>2, GrantHome
      <4> QED BY <3>2, <4>1, <4>2
    <3> QED BY <1>2, <2>3, <3>3 DEF Chunk
  <2> QED BY <1>8, <2>1, <2>2, <2>3
<1>9. ASSUME NEW l \in LinkIds, Opening(l) \/ Job(l) \/ Lost(l) PROVE Anchored'
  <2>1. CASE Connected(l) \/ LinkUp(l)
    <3>1. phase \in [LinkIds -> {"tcp", "login", "up", "down"}]
        BY <1>1 DEF Typed
    <3>2. links' = links /\ home' = home /\ closed' = closed
        BY <2>1 DEF Connected, LinkUp, who
    <3>3. \A k \in LinkIds : phase'[k] # "down" => phase[k] # "down"
        BY <2>1, <3>1 DEF Connected, LinkUp
    <3>4. Listed \subseteq Listed'
        BY <3>2 DEF Listed
    <3> QED BY <1>1, <3>2, <3>3, <3>4, AnchorOpens
  <2>2. CASE OpenFails(l)
      BY <1>1, <2>2, AnchorOpenFails
  <2>3. CASE LostEarly(l) \/ Lost(l)
      BY <1>1, <2>3, AnchorSevered DEF LostEarly, Lost
  <2>4. CASE Job(l)
      BY <1>2, <2>4 DEF Job, who
  <2> QED BY <1>9, <2>1, <2>2, <2>3, <2>4 DEF Opening
<1>10. CASE Rebalance
    BY <1>2, <1>10 DEF Rebalance, link, who
<1>11. CASE Close
  <2>1. closed' /\ \A c \in Clients : home'[c] = None
      BY <1>11 DEF Close
  <2> QED BY <1>1, <2>1, AnchorStep
<1> QED
    BY <1>3, <1>4, <1>5, <1>6, <1>7, <1>8, <1>9, <1>10, <1>11 DEF Next, Run

\* A miner upstream still serves is on a link that upstream has or an attach is
\* under way for it, whatever link is lost and whatever open or migration fails,
\* but for the two ways the history tells of (sever, attach, migrate).
THEOREM NoneForgotten == Spec => []NoMinerForgotten
<1>1. Init => JobInv /\ Lively /\ Anchored
  <2>1. ASSUME Init PROVE Anchored
      BY <2>1 DEF Init, Anchored
  <2> QED BY <2>1, JobInitially
<1>2. ASSUME IInv, IInv', JobInv, Lively, Anchored, [Next]_vars
      PROVE  JobInv' /\ Lively' /\ Anchored'
  <2>1. CASE UNCHANGED vars
      BY <1>2, <2>1, JobInductive DEF vars, Anchored, Listed
  <2>2. CASE Next
      BY <1>2, <2>2, JobInductive, AnchorNext
  <2> QED BY <1>2, <2>1, <2>2
<1>3. ASSUME IInv, Anchored PROVE NoMinerForgotten
  <2> SUFFICES ASSUME Idle, NEW c \in live, home[c] \notin Listed, c \notin adrift
               PROVE  AttachPending(c)
      BY DEF NoMinerForgotten
  <2>1. home[c] = None
      BY <1>3 DEF Anchored, IInv, Typed
  <2>2. Due(c) \/ Orphan(c)
      BY <1>3, <2>1 DEF IInv, NoneLost
  <2>3. Items(todo) = {} /\ ~ Orphan(c)
      BY IdleIs
  <2>4. PICK l \in LinkIds : \E w \in Items(waiting[l]) : AttachTask(w.task, c)
      BY <2>2, <2>3 DEF Due
  <2> QED BY <2>4 DEF AttachPending, AttachTask, Items
<1> QED
    BY <1>1, <1>2, <1>3, UpstreamInvariant, PTL DEF Spec
=============================================================================
