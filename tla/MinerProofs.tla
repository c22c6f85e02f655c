----------------------------- MODULE MinerProofs ----------------------------
(***************************************************************************)
(* Proofs about NMiner (module Miner), for every number of connections,    *)
(* jobs, versions and mining threads, about the life of the RandomX memory *)
(* it drives (module RxLifecycle), for every number of threads and of      *)
(* overlapping allocations, and about what is put there (module RxCache):  *)
(* the filling by Argon2, for every number of lanes, blocks and passes,    *)
(* and the superscalar programs, for every number of registers, latency    *)
(* and limit.                                                              *)
(*                                                                         *)
(* First NMiner: it mines a job and a seed of the pool it is connected to, *)
(* it is closed, connected or about to reconnect, the versions the native  *)
(* code still mines are known to it, and a chunk of nonces only reaches    *)
(* the job it was asked for.  One invariant, MInv, is taken through each   *)
(* action of MinerNext; the frames (Stays, Moves, Shut) say what the       *)
(* actions that leave most of the state alone have in common.              *)
(*                                                                         *)
(* Then the memory: the cache and dataset are rewritten by one worker at a *)
(* time, with no VM alive, and a VM always reads a cache and a dataset of  *)
(* one seed.  Each lemma takes one part of its invariant through a step,   *)
(* and begins with a frame: the few actions that write the variables the   *)
(* part is about.                                                          *)
(*                                                                         *)
(* Then Argon2: a block is only made of finished blocks.  Its invariant,   *)
(* ArgonInv, says how far the pass has come in each lane and which pass    *)
(* each block was last written in; the lemmas before it count blocks by    *)
(* lanes and segments.                                                     *)
(*                                                                         *)
(* Last the generator: what it schedules fits its slots and tables.  Its   *)
(* invariant, GeneratorInv, says where an instruction that goes on may be  *)
(* (Due) and how many uops a buffer has decoded up to a slot.              *)
(***************************************************************************)
EXTENDS Miner, RxLifecycle, RxCache, FiniteSetTheorems, TLAPS

-----------------------------------------------------------------------------
(* NMiner.                                                                 *)

\* The records its variables are made of: a StratumClient, an entry of
\* m_versions, the members of NMiner, a call of on_job, the question of a poll
\* and what the native code has.
Client   == [socket : {"new", "connecting", "open", "closed"}, pending : JobsOrNone,
             heard : BOOLEAN, deaf : BOOLEAN,
             step : {"new", "threads", "login", "wait", "job", "done"}]
Version  == [version : Nat, job : Jobs, of : Conns]
Member   == [closed : BOOLEAN, stratum : Conns \union {0}, timer : BOOLEAN, job : JobsOrNone,
             seed : SeedsOrNone, versions : Seq(Version), sent : Nat, gen : Nat, armed : BOOLEAN]
Taken    == [job : Jobs, of : Conns, by : {"login", "push", "chunk"}]
Question == [gen : Nat, of : Conns \union {0}, job : JobsOrNone]
Code     == [active : BOOLEAN, version : 0 .. MaxVersion, job : JobsOrNone, seed : SeedsOrNone]

\* What each variable is a record of.
Shape ==
    /\ m \in Member /\ conn \in [Conns -> Client] /\ calls \in Seq(Taken)
    /\ alloc \in {"no", "await", "started"}
    /\ chunk \in Question /\ native \in Code
    /\ reused \in BOOLEAN /\ late \in BOOLEAN

\* The connection there is is open, and NMiner listens to it.
Current == m.stratum # 0 /\ conn[m.stratum].socket = "open" /\ conn[m.stratum].heard

\* Where reconnect is says what its socket is, and of which connection it is.
LinkOK(c, k) ==
    /\ k.socket = "open" => m.stratum = c /\ ~ m.closed /\ ~ k.deaf /\ (k.heard \/ k.step = "threads")
    /\ k.socket \in {"new", "connecting"} => k.step = "new" /\ ~ k.heard /\ ~ k.deaf
    /\ k.socket = "connecting" =>
         m.stratum = 0 /\ ~ m.timer /\ \A d \in Conns : conn[d].socket = "connecting" => d = c
    /\ k.step = "new" => ~ k.heard
    /\ k.step = "threads" =>
         ~ k.heard /\ (m.stratum = c \/ m.closed) /\ (k.socket = "closed" => k.deaf)
    /\ k.step \in {"login", "wait"} => k.socket = "open" /\ k.heard
    /\ k.heard /\ ~ k.deaf /\ m.stratum = c => k.socket = "open"

\* So it is of every connection, and the timer is only set without one.
LinksFit ==
    /\ m.timer => m.stratum = 0 /\ ~ m.closed
    /\ \A c \in Conns : LinkOK(c, conn[c])

\* NMiner is closed, will connect, connects or is connected; or the connection
\* was lost before it listened.
Reached ==
    ~ m.closed =>
        \/ m.timer
        \/ \E c \in Conns : conn[c].socket = "connecting"
        \/ m.stratum # 0 /\ (conn[m.stratum].socket = "open" \/ conn[m.stratum].deaf)

\* The calls of on_job are of connections that NMiner listened to.
CallsHeard ==
    \A i \in DOMAIN calls :
        /\ calls[i].by = "login" => conn[calls[i].of].heard
        /\ ~ late => conn[calls[i].of].heard /\ ~ conn[calls[i].of].deaf

\* The poll and its question are of the connection there is, or of one before.
Asked ==
    /\ chunk.of = 0 => chunk = NoChunk
    /\ ~ late =>
        /\ m.armed => Current
        /\ chunk.of # 0 => conn[chunk.of].heard /\ ~ conn[chunk.of].deaf
        /\ chunk.of # 0 /\ chunk.gen = m.gen => m.stratum = chunk.of

\* What NMiner remembers of job and dataset is what the native code has.
Agree ==
    /\ m.job = native.job
    /\ alloc = "no" => native.seed = m.seed
    /\ alloc # "no" => m.seed = None /\ calls # <<>>
    /\ alloc = "await" => ~ native.active
    /\ alloc = "started" => native.seed = Seed[calls[1].job]

\* Threads that mine do so for the connection there is, and a job of it was sent,
\* unless the job was taken for known.
Mining ==
    native.active /\ alloc # "started" /\ ~ late => Current /\ (~ reused => m.versions # <<>>)

\* Once a job was sent over it, the dataset is of the seed of that job.
Hashing == alloc = "no" /\ Current /\ m.versions # <<>> => native.seed = Seed[native.job]

\* A question of the poll there is is about the job there is, and a job with a
\* range is polled for.
Polls ==
    /\ chunk.gen <= m.gen
    /\ chunk # NoChunk /\ chunk.gen = m.gen => chunk.job = m.job
    /\ queued.given = queued.granted
    /\ Current /\ m.versions # <<>> /\ m.job \in Ranged =>
         m.armed \/ (chunk # NoChunk /\ chunk.gen = m.gen)

\* The versions are the last ones in a row, and no more than are kept.
Rows(versions, sent, version) ==
    /\ Len(versions) = IF sent < Kept THEN sent ELSE Kept
    /\ sent <= version
    /\ \A i \in DOMAIN versions : versions[i].version = version - Len(versions) + i

\* The version sent last.
LastVersion == m.versions[Len(m.versions)]

\* The last of them is of the job the native code has, from the connection there is.
Known ==
    /\ Rows(m.versions, m.sent, native.version)
    /\ m.versions # <<>> => LastVersion.job = native.job /\ (~ late /\ Current => LastVersion.of = m.stratum)

\* The inductive invariant.
MInv ==
    /\ Shape /\ LinksFit /\ Reached /\ CallsHeard /\ Asked
    /\ Agree /\ Mining /\ Hashing /\ Polls /\ Known

-----------------------------------------------------------------------------
\* Connections are counted from one, and the constants are what they are.
LEMMA Numbers ==
    /\ Conns \subseteq Nat /\ 0 \notin Conns
    /\ Kept \in Nat /\ Kept > 0 /\ MaxVersion \in Nat
    /\ Ranged \subseteq Jobs /\ None \notin Jobs
BY FS_CardinalityType, MinerAssumption

\* A sequence of calls or versions gains elements at its end ...
LEMMA JoinedCalls ==
    ASSUME NEW S, NEW s \in Seq(S), NEW t \in Seq(S)
    PROVE  /\ s \o t \in Seq(S)
           /\ \A i \in DOMAIN (s \o t) :
                \/ i \in DOMAIN s /\ (s \o t)[i] = s[i]
                \/ \E k \in DOMAIN t : (s \o t)[i] = t[k]
           /\ s # <<>> => s \o t # <<>> /\ (s \o t)[1] = s[1]
<1>1. s \o t \in Seq(S) /\ Len(s \o t) = Len(s) + Len(t) /\ Len(s) \in Nat /\ Len(t) \in Nat
    OBVIOUS
<1>2. \A i \in 1 .. Len(s) : (s \o t)[i] = s[i]
    OBVIOUS
<1>3. \A i \in (Len(s) + 1) .. (Len(s) + Len(t)) : (s \o t)[i] = t[i - Len(s)]
    OBVIOUS
<1>4. ASSUME NEW i \in DOMAIN (s \o t), i \notin DOMAIN s
      PROVE  \E k \in DOMAIN t : (s \o t)[i] = t[k]
    <2>1. i \in (Len(s) + 1) .. (Len(s) + Len(t)) /\ i - Len(s) \in DOMAIN t
        BY <1>1, <1>4
    <2>. QED BY <1>3, <2>1
<1>5. s # <<>> => s \o t # <<>> /\ (s \o t)[1] = s[1]
    BY <1>1, <1>2
<1>. QED BY <1>1, <1>2, <1>4, <1>5

\* ... and loses its first.
LEMMA Popped ==
    ASSUME NEW S, NEW s \in Seq(S), s # <<>>
    PROVE  /\ Head(s) = s[1] /\ s[1] \in S /\ 1 \in DOMAIN s
           /\ Tail(s) \in Seq(S)
           /\ \A i \in DOMAIN Tail(s) : i + 1 \in DOMAIN s /\ Tail(s)[i] = s[i + 1]
OBVIOUS

\* w is vs and x after it, without the oldest when there are too many.
Retained(S, vs, x, w) ==
    /\ w \in Seq(S) /\ w # <<>> /\ w[Len(w)] = x
    /\ Len(w) = IF Len(vs) < Kept THEN Len(vs) + 1 ELSE Kept
    /\ \A i \in 1 .. Len(w) - 1 : w[i] = vs[i + Len(vs) + 1 - Len(w)]

\* track_version: the new version is the last one, the oldest may go, and no
\* other does.
LEMMA RetainIs ==
    ASSUME NEW S, NEW vs \in Seq(S), NEW x \in S, Len(vs) <= Kept,
           NEW w, w = Retain(Append(vs, x))
    PROVE  Retained(S, vs, x, w)
<1>1. PICK a : /\ a = Append(vs, x) /\ a \in Seq(S) /\ Len(a) = Len(vs) + 1 /\ Len(vs) \in Nat
               /\ a[Len(vs) + 1] = x /\ \A i \in 1 .. Len(vs) : a[i] = vs[i]
    <2>1. /\ Append(vs, x) \in Seq(S) /\ Len(Append(vs, x)) = Len(vs) + 1 /\ Len(vs) \in Nat
          /\ Append(vs, x)[Len(vs) + 1] = x /\ \A i \in 1 .. Len(vs) : Append(vs, x)[i] = vs[i]
        OBVIOUS
    <2>. QED BY <2>1
<1>2. CASE Len(vs) < Kept
    <2>1. w = a
        BY <1>1, <1>2, Numbers DEF Retain
    <2>2. w # <<>>
        BY <1>1, <2>1
    <2>3. \A i \in 1 .. Len(vs) : i + Len(vs) + 1 - Len(w) = i
        BY <1>1, <2>1
    <2>. QED BY <1>1, <1>2, <2>1, <2>2, <2>3 DEF Retained
<1>3. CASE Len(vs) = Kept
    <2>1. Tail(a) \in Seq(S) /\ Len(Tail(a)) = Kept /\ \A i \in 1 .. Kept : Tail(a)[i] = a[i + 1]
        BY <1>1, <1>3, Numbers
    <2>2. w = Tail(a)
        BY <1>1, <1>3, Numbers DEF Retain
    <2>3. w \in Seq(S) /\ Len(w) = Kept /\ \A i \in 1 .. Kept : w[i] = a[i + 1]
        BY <2>1, <2>2
    <2>4. w[Kept] = x /\ \A i \in 1 .. Kept - 1 : w[i] = vs[i + 1]
        BY <1>1, <1>3, <2>3, Numbers
    <2>5. w # <<>>
        BY <2>3, Numbers
    <2>6. \A i \in 1 .. Kept - 1 : i + Len(vs) + 1 - Kept = i + 1
        BY <1>3, Numbers
    <2>. QED BY <1>3, <2>3, <2>4, <2>5, <2>6, Numbers DEF Retained
<1>. QED BY <1>1, <1>2, <1>3, Numbers

\* close() of a connection writes nothing else of it, and of no other.
LEMMA DownIs ==
    ASSUME conn \in [Conns -> Client], NEW c \in Conns
    PROVE  /\ Down(c) \in [Conns -> Client]
           /\ Down(c)[c].socket = "closed" /\ Down(c)[c].heard = conn[c].heard
           /\ Down(c)[c].deaf = (conn[c].step = "threads")
           /\ Down(c)[c].step = IF conn[c].step \in {"login", "wait"} THEN "done" ELSE conn[c].step
           /\ \A d \in Conns : d # c => Down(c)[d] = conn[d]
<1>1. PICK k \in Client : k = conn[c]
    OBVIOUS
<1>2. PICK b \in BOOLEAN : b = (k.step = "threads")
    <2>1. CASE k.step = "threads"
        BY <2>1
    <2>2. CASE k.step # "threads"
        BY <2>2
    <2>. QED BY <2>1, <2>2
<1>3. PICK to \in {"new", "threads", "login", "wait", "job", "done"} :
            to = IF k.step \in {"login", "wait"} THEN "done" ELSE k.step
    BY DEF Client
<1>4. PICK l \in Client : l = [k EXCEPT !.socket = "closed", !.deaf = b, !.step = to]
    BY Zenon DEF Client
<1>5. l.socket = "closed" /\ l.heard = k.heard /\ l.deaf = b /\ l.step = to
    BY <1>4 DEF Client
<1>6. Down(c) = [conn EXCEPT ![c] = l]
    BY <1>1, <1>2, <1>3, <1>4 DEF Down
<1>7. Down(c) \in [Conns -> Client] /\ Down(c)[c] = l /\ \A d \in Conns : d # c => Down(c)[d] = conn[d]
    BY <1>6
<1>. QED BY <1>1, <1>2, <1>3, <1>5, <1>7

\* What the parts of the invariant say of single fields.
LEMMA Fields ==
    ASSUME Shape
    PROVE  /\ m.closed \in BOOLEAN /\ m.stratum \in Conns \union {0} /\ m.timer \in BOOLEAN
           /\ m.job \in JobsOrNone /\ m.seed \in SeedsOrNone /\ m.versions \in Seq(Version)
           /\ m.sent \in Nat /\ m.gen \in Nat /\ m.armed \in BOOLEAN
           /\ \A d \in Conns :
                /\ conn[d] \in Client /\ conn[d].socket \in {"new", "connecting", "open", "closed"}
                /\ conn[d].heard \in BOOLEAN /\ conn[d].deaf \in BOOLEAN
           /\ \A i \in DOMAIN calls : calls[i] \in Taken /\ calls[i].of \in Conns /\ calls[i].job \in Jobs
           /\ chunk.gen \in Nat /\ chunk.of \in Conns \union {0} /\ chunk.job \in JobsOrNone
           /\ native.active \in BOOLEAN /\ native.version \in 0 .. MaxVersion
           /\ native.job \in JobsOrNone /\ native.seed \in SeedsOrNone
<1>1. /\ m.closed \in BOOLEAN /\ m.stratum \in Conns \union {0} /\ m.timer \in BOOLEAN
      /\ m.job \in JobsOrNone /\ m.seed \in SeedsOrNone /\ m.versions \in Seq(Version)
      /\ m.sent \in Nat /\ m.gen \in Nat /\ m.armed \in BOOLEAN
    BY DEF Shape, Member
<1>2. \A d \in Conns :
        /\ conn[d] \in Client /\ conn[d].socket \in {"new", "connecting", "open", "closed"}
        /\ conn[d].heard \in BOOLEAN /\ conn[d].deaf \in BOOLEAN
    BY DEF Shape, Client
<1>3. \A i \in DOMAIN calls : calls[i] \in Taken /\ calls[i].of \in Conns /\ calls[i].job \in Jobs
    <2>1. \A i \in DOMAIN calls : calls[i] \in Taken
        BY DEF Shape
    <2>. QED BY <2>1 DEF Taken
<1>4. /\ chunk.gen \in Nat /\ chunk.of \in Conns \union {0} /\ chunk.job \in JobsOrNone
      /\ native.active \in BOOLEAN /\ native.version \in 0 .. MaxVersion
      /\ native.job \in JobsOrNone /\ native.seed \in SeedsOrNone
    BY DEF Shape, Question, Code
<1>. QED BY <1>1, <1>2, <1>3, <1>4

\* The members that belong to connection and poll are written, or those that
\* belong to the job: a record of members remains.
LEMMA MemberWith ==
    ASSUME NEW s \in Member, NEW c \in Conns \union {0}, NEW g \in Nat,
           NEW a \in BOOLEAN, NEW t \in BOOLEAN
    PROVE  [s EXCEPT !.stratum = c, !.gen = g, !.armed = a, !.timer = t] \in Member
BY Zenon DEF Member

\* ... or those that send_job writes.
LEMMA MemberSent ==
    ASSUME NEW s \in Member, NEW j \in JobsOrNone, NEW x \in SeedsOrNone, NEW n \in Nat,
           NEW vs \in Seq(Version), NEW g \in Nat, NEW a \in BOOLEAN
    PROVE  [s EXCEPT !.job = j, !.seed = x, !.sent = n, !.versions = vs, !.gen = g, !.armed = a] \in Member
BY Zenon DEF Member

-----------------------------------------------------------------------------
(* The connection there is is closed.                                      *)

\* What closing c does, with "close" heard or not.  A call of on_job may end in
\* the same step.
Shut(c) ==
    /\ conn' \in [Conns -> Client]
    /\ \A d \in Conns \ {c} : conn'[d].socket = conn[d].socket /\ conn'[d].deaf = conn[d].deaf
    /\ conn'[c].socket = "closed" /\ conn'[c].deaf = (conn[c].step = "threads")
    /\ \A d \in Conns :
        /\ conn'[d].heard = conn[d].heard /\ conn'[d].step \in {conn[d].step, "done"}
        /\ conn[d].step \in {"new", "threads"} => conn'[d].step = conn[d].step
    /\ conn'[c].step \notin {"login", "wait"}
    /\ chunk' \in {chunk, NoChunk} /\ late' = late /\ queued' = queued
    /\ m'.closed = m.closed /\ m'.job = m.job
    /\ \/ /\ conn[c].heard
          /\ m'.timer /\ m'.stratum = 0 /\ m'.gen = m.gen + 1 /\ ~ m'.armed
       \/ ~ conn[c].heard /\ m' = m

\* A call there is now was there before ...
NoNewCall == \A i \in DOMAIN calls' : \E k \in DOMAIN calls : calls'[i] = calls[k]

\* ... or is of a connection that NMiner listens to.
Heeded ==
    \A i \in DOMAIN calls' :
        \/ \E k \in DOMAIN calls : calls'[i] = calls[k]
        \/ \E x \in Conns : /\ calls'[i].of = x
                            /\ calls'[i].by = "login" => conn[x].heard
                            /\ ~ late => conn[x].heard /\ ~ conn[x].deaf

\* Closing the connection there is leaves nothing behind that needs it: the poll
\* has ended, and the timer is set unless nobody listened.
LEMMA ShutKeeps ==
    ASSUME Shape, LinksFit, Asked, Polls, CallsHeard,
           NEW c \in Conns, conn[c].socket = "open", Shut(c), NoNewCall
    PROVE  LinksFit' /\ Reached' /\ Asked' /\ Polls' /\ CallsHeard' /\ ~ Current'
<1>1. /\ c # 0 /\ m.stratum = c /\ ~ m.closed /\ ~ conn[c].deaf
      /\ conn[c].heard \/ conn[c].step = "threads"
      /\ conn[c].step = "threads" => ~ conn[c].heard
    BY Numbers DEF LinksFit, LinkOK
<1>2. \A d \in Conns \ {c} :
        /\ conn[d].socket \notin {"open", "connecting"} /\ conn[d].step # "threads"
        /\ conn[d].step \notin {"login", "wait"}
        /\ conn'[d].socket = conn[d].socket /\ conn'[d].heard = conn[d].heard /\ conn'[d].deaf = conn[d].deaf
        /\ conn'[d].step \in {conn[d].step, "done"}
        /\ conn[d].step = "new" => conn'[d].step = "new"
    BY <1>1 DEF LinksFit, LinkOK, Shut
<1>3. /\ conn'[c].socket = "closed" /\ conn'[c].heard = conn[c].heard
      /\ conn'[c].deaf = (conn[c].step = "threads") /\ conn'[c].step \in {conn[c].step, "done"}
      /\ conn'[c].step \notin {"login", "wait"}
    BY DEF Shut
<1>4. /\ m'.closed = m.closed /\ m'.job = m.job
      /\ \/ /\ conn[c].heard
            /\ m'.timer /\ m'.stratum = 0 /\ m'.gen = m.gen + 1 /\ ~ m'.armed
         \/ ~ conn[c].heard /\ m' = m
    BY DEF Shut
<1>5. ~ Current'
    BY <1>1, <1>3, <1>4 DEF Current
<1>6. LinksFit'
    <2>1. m'.timer => m'.stratum = 0 /\ ~ m'.closed
        BY <1>1, <1>4 DEF LinksFit
    <2>2. LinkOK(c, conn[c])'
        <3>1. LinkOK(c, conn[c])
            BY DEF LinksFit
        <3>. QED BY <1>1, <1>3, <1>4, <3>1 DEF LinkOK
    <2>3. ASSUME NEW d \in Conns \ {c}
          PROVE  LinkOK(d, conn[d])'
        <3>1. LinkOK(d, conn[d]) /\ d # 0
            BY Numbers DEF LinksFit
        <3>2. conn'[d].socket \in {"new", "closed"}
            BY <1>2, Fields
        <3>. QED BY <1>1, <1>2, <1>4, <3>1, <3>2 DEF LinkOK
    <2>. QED BY <2>1, <2>2, <2>3 DEF LinksFit
<1>7. Reached'
    BY <1>1, <1>3, <1>4 DEF Reached
<1>8. /\ chunk' = NoChunk \/ chunk' = chunk
      /\ late' = late /\ queued' = queued
    BY DEF Shut
<1>9. m.gen \in Nat /\ chunk.gen \in Nat /\ m.gen + 1 # chunk.gen /\ chunk.gen <= m.gen /\ chunk.gen <= m.gen + 1
    BY Fields DEF Polls
<1>10. Polls'
    <2>1. CASE chunk' = NoChunk
        BY <1>4, <1>5, <1>8, <1>9, <2>1 DEF Polls, NoChunk
    <2>2. CASE chunk' = chunk
        BY <1>4, <1>5, <1>8, <1>9, <2>2 DEF Polls
    <2>. QED BY <1>8, <2>1, <2>2
<1>11. Asked'
    <2>1. ~ late => ~ m'.armed
        BY <1>1, <1>4 DEF Asked, Current
    <2>2. CASE chunk' = NoChunk
        BY <1>8, <2>1, <2>2 DEF Asked, NoChunk
    <2>3. CASE chunk' = chunk
        <3>1. ~ late /\ chunk.of # 0 => conn'[chunk.of].heard /\ ~ conn'[chunk.of].deaf
            BY <1>1, <1>2, <1>3, Fields DEF Asked
        <3>2. ~ late /\ chunk.of # 0 => m'.gen # chunk.gen \/ m'.stratum = chunk.of
            BY <1>4, <1>9 DEF Asked
        <3>. QED BY <1>8, <2>1, <2>3, <3>1, <3>2 DEF Asked
    <2>. QED BY <1>8, <2>2, <2>3
<1>12. CallsHeard'
    <2>1. ASSUME NEW i \in DOMAIN calls'
          PROVE  /\ calls'[i].by = "login" => conn'[calls'[i].of].heard
                 /\ ~ late' => conn'[calls'[i].of].heard /\ ~ conn'[calls'[i].of].deaf
        <3>1. PICK k \in DOMAIN calls : calls'[i] = calls[k]
            BY DEF NoNewCall
        <3>2. PICK x \in Conns : x = calls[k].of
            BY Fields
        <3>3. /\ calls[k].by = "login" => conn[x].heard
              /\ ~ late => conn[x].heard /\ ~ conn[x].deaf
            BY <3>2 DEF CallsHeard
        <3>4. conn'[x].heard = conn[x].heard /\ (conn[x].heard /\ ~ conn[x].deaf => ~ conn'[x].deaf)
            BY <1>1, <1>2, <1>3
        <3>5. calls'[i].of = x /\ calls'[i].by = calls[k].by /\ late' = late
            BY <1>8, <3>1, <3>2
        <3>. QED BY <3>3, <3>4, <3>5
    <2>. QED BY <2>1 DEF CallsHeard
<1>. QED BY <1>5, <1>6, <1>7, <1>10, <1>11, <1>12

\* handleClose of a connection that is open.
LEMMA ClosingKeeps ==
    ASSUME MInv, NEW c \in Conns, conn[c].socket = "open", Closing(c), CallsIdle, HistoryIdle
    PROVE  MInv'
<1>1. /\ Shape /\ LinksFit /\ CallsHeard /\ Asked
      /\ Agree /\ Mining /\ Hashing /\ Polls /\ Known
    BY DEF MInv
<1>2. m.stratum = c /\ ~ m.closed
    BY <1>1 DEF LinksFit, LinkOK
<1>3. calls' = calls /\ alloc' = alloc /\ queued' = queued /\ reused' = reused /\ late' = late
    BY DEF CallsIdle, HistoryIdle
<1>4. chunk' \in {chunk, NoChunk} /\ NoChunk \in Question
    BY DEF Closing, Rejects, NoChunk, Question, JobsOrNone
<1>5. /\ conn' \in [Conns -> Client]
      /\ conn'[c].socket = "closed" /\ conn'[c].heard = conn[c].heard
      /\ conn'[c].deaf = (conn[c].step = "threads")
      /\ conn'[c].step = IF conn[c].step \in {"login", "wait"} THEN "done" ELSE conn[c].step
      /\ \A d \in Conns : d # c => conn'[d] = conn[d]
    BY <1>1, DownIs DEF Closing, Shape
<1>6. \/ /\ conn[c].heard
         /\ m' \in Member /\ native' \in Code
         /\ m'.closed = m.closed /\ m'.timer /\ m'.stratum = 0 /\ m'.gen = m.gen + 1 /\ ~ m'.armed
         /\ m'.job = m.job /\ m'.seed = m.seed /\ m'.versions = m.versions /\ m'.sent = m.sent
         /\ ~ native'.active /\ native'.version = native.version
         /\ native'.job = native.job /\ native'.seed = native.seed
      \/ ~ conn[c].heard /\ m' = m /\ native' = native
    <2>1. CASE conn[c].heard
        <3>1. m' = Rescheduled(PollStopped([m EXCEPT !.stratum = 0])) /\ native' = Stopped(native)
            BY <1>2, <2>1 DEF Closing, Hears
        <3>2. m' = [m EXCEPT !.stratum = 0, !.gen = @ + 1, !.armed = FALSE, !.timer = TRUE]
            BY <1>1, <1>2, <3>1 DEF Rescheduled, PollStopped, Shape, Member
        <3>3. m' \in Member
            <4>1. m \in Member /\ m.gen + 1 \in Nat
                BY <1>1, Fields DEF Shape
            <4>2. m' = [m EXCEPT !.stratum = 0, !.gen = m.gen + 1, !.armed = FALSE, !.timer = TRUE]
                BY <3>2
            <4>. QED BY <4>1, <4>2, MemberWith
        <3>4. native' = [native EXCEPT !.active = FALSE]
            BY <3>1 DEF Stopped
        <3>5. /\ native' \in Code /\ ~ native'.active /\ native'.version = native.version
              /\ native'.job = native.job /\ native'.seed = native.seed
            BY <1>1, <3>4 DEF Shape, Code
        <3>6. /\ m'.closed = m.closed /\ m'.timer /\ m'.stratum = 0 /\ m'.gen = m.gen + 1 /\ ~ m'.armed
              /\ m'.job = m.job /\ m'.seed = m.seed /\ m'.versions = m.versions /\ m'.sent = m.sent
            BY <1>1, <3>2 DEF Shape, Member
        <3>. QED BY <2>1, <3>3, <3>5, <3>6
    <2>2. CASE ~ conn[c].heard
        BY <2>2 DEF Closing, Hears
    <2>. QED BY <2>1, <2>2
<1>7. Shape'
    BY <1>1, <1>3, <1>4, <1>5, <1>6 DEF Shape
<1>8. Shut(c)
    BY <1>3, <1>4, <1>5, <1>6 DEF Shut
<1>9. NoNewCall
    BY <1>3 DEF NoNewCall
<1>10. LinksFit' /\ Reached' /\ Asked' /\ Polls' /\ CallsHeard' /\ ~ Current'
    BY <1>1, <1>8, <1>9, ShutKeeps
<1>11. Agree'
    BY <1>1, <1>3, <1>6 DEF Agree
<1>12. Mining' /\ Hashing'
    BY <1>1, <1>2, <1>3, <1>6, <1>10 DEF Mining, Hashing, Current
<1>13. Known'
    <2>1. m'.versions = m.versions /\ m'.sent = m.sent /\ native'.version = native.version /\ native'.job = native.job
        BY <1>6
    <2>. QED BY <1>1, <1>10, <2>1 DEF Known, LastVersion
<1>. QED BY <1>7, <1>10, <1>11, <1>12, <1>13 DEF MInv

\* A connection that is open is lost.
LEMMA LostKeeps ==
    ASSUME MInv, NEW c \in Conns, Lost(c)
    PROVE  MInv'
BY ClosingKeeps DEF Lost

\* login() fails: the connection there is is closed.
LEMMA LoginFailsKeeps ==
    ASSUME MInv, NEW c \in Conns, LoginFails(c)
    PROVE  MInv'
<1>1. conn[c].socket = "open" /\ m.stratum = c /\ c # 0
    BY Numbers DEF MInv, LinksFit, LinkOK, LoginFails
<1>2. Closing(c) /\ CallsIdle /\ HistoryIdle
    BY <1>1 DEF LoginFails, ClosingMine
<1>. QED BY <1>1, <1>2, ClosingKeeps

-----------------------------------------------------------------------------
(* on_job: a call ends.                                                    *)

\* reconnect has come to its end on a connection, after a login.
Ends(f, x, by, g) ==
    /\ g \in [Conns -> Client]
    /\ \A d \in Conns :
        /\ g[d].socket = f[d].socket /\ g[d].heard = f[d].heard /\ g[d].deaf = f[d].deaf
        /\ g[d].step = IF d = x /\ by = "login" THEN "done" ELSE f[d].step

\* EXCEPT on the step of a connection does what Ends says.
LEMMA StepEnds ==
    ASSUME NEW f \in [Conns -> Client], NEW x \in Conns, NEW by, NEW g,
           g = [f EXCEPT ![x].step = IF by = "login" THEN "done" ELSE @]
    PROVE  Ends(f, x, by, g)
<1>1. g \in [Conns -> Client]
    <2>1. PICK r : r = [f[x] EXCEPT !.step = IF by = "login" THEN "done" ELSE @]
        OBVIOUS
    <2>2. f[x] \in Client
        OBVIOUS
    <2>3. r \in Client
        BY <2>1, <2>2 DEF Client
    <2>4. g = [f EXCEPT ![x] = r]
        BY <2>1
    <2>. QED BY <2>3, <2>4
<1>2. ASSUME NEW d \in Conns
      PROVE  /\ g[d].socket = f[d].socket /\ g[d].heard = f[d].heard /\ g[d].deaf = f[d].deaf
             /\ g[d].step = IF d = x /\ by = "login" THEN "done" ELSE f[d].step
    <2>1. f[d] \in Client
        OBVIOUS
    <2>2. CASE d = x
        <3>1. g[d] = [f[d] EXCEPT !.step = IF by = "login" THEN "done" ELSE @]
            BY <2>2
        <3>. QED BY <2>1, <2>2, <3>1 DEF Client
    <2>3. CASE d # x
        BY <2>3
    <2>. QED BY <2>2, <2>3
<1>. QED BY <1>1, <1>2 DEF Ends

\* The first call is a call of a connection that was listened to.
LEMMA FirstCall ==
    ASSUME Shape, CallsHeard, calls # <<>>
    PROVE  /\ Call = calls[1] /\ Call.of \in Conns /\ Call.job \in Jobs
           /\ Call.by = "login" => conn[Call.of].heard
           /\ ~ late => conn[Call.of].heard /\ ~ conn[Call.of].deaf
           /\ Tail(calls) \in Seq(Taken)
           /\ calls' = Tail(calls) => NoNewCall /\ Heeded
<1>1. /\ Head(calls) = calls[1] /\ 1 \in DOMAIN calls /\ Tail(calls) \in Seq(Taken)
      /\ \A i \in DOMAIN Tail(calls) : i + 1 \in DOMAIN calls /\ Tail(calls)[i] = calls[i + 1]
    BY Popped DEF Shape
<1>2. calls[1].of \in Conns /\ calls[1].job \in Jobs
    BY <1>1, Fields
<1>3. /\ calls[1].by = "login" => conn[calls[1].of].heard
      /\ ~ late => conn[calls[1].of].heard /\ ~ conn[calls[1].of].deaf
    BY <1>1 DEF CallsHeard
<1>4. calls' = Tail(calls) => NoNewCall /\ Heeded
    BY <1>1 DEF NoNewCall, Heeded
<1>. QED BY <1>1, <1>2, <1>3, <1>4 DEF Call

\* Connections stay what they are, but for where reconnect is.
Stays ==
    /\ conn' \in [Conns -> Client]
    /\ \A d \in Conns :
        /\ conn'[d].socket = conn[d].socket /\ conn'[d].heard = conn[d].heard
        /\ conn'[d].deaf = conn[d].deaf
        /\ \/ conn'[d].step = conn[d].step
           \/ conn[d].step \notin {"new", "threads"} /\ conn'[d].step \in {"job", "done"}
           \/ conn[d].step = "login" /\ conn'[d].step = "wait"
    /\ m'.closed = m.closed /\ m'.stratum = m.stratum /\ m'.timer = m.timer

\* Under such a step the connections stay as well connected as they were.
LEMMA StaysKeeps ==
    ASSUME Shape, LinksFit, Reached, CallsHeard, Stays, Heeded, ~ late' => ~ late
    PROVE  LinksFit' /\ Reached' /\ CallsHeard' /\ (Current' <=> Current)
<1>1. /\ m'.closed = m.closed /\ m'.stratum = m.stratum /\ m'.timer = m.timer
      /\ \A d \in Conns :
        /\ conn'[d].socket = conn[d].socket /\ conn'[d].heard = conn[d].heard
        /\ conn'[d].deaf = conn[d].deaf
        /\ \/ conn'[d].step = conn[d].step
           \/ conn[d].step \notin {"new", "threads"} /\ conn'[d].step \in {"job", "done"}
           \/ conn[d].step = "login" /\ conn'[d].step = "wait"
    BY DEF Stays
<1>2. m.stratum \in Conns \union {0}
    BY Fields
<1>3. Current' <=> Current
    BY <1>1, <1>2 DEF Current
<1>4. LinksFit'
    <2>1. ASSUME NEW d \in Conns
          PROVE  LinkOK(d, conn[d])'
        <3>1. LinkOK(d, conn[d])
            BY DEF LinksFit
        <3>2. (\A e \in Conns : conn'[e].socket = "connecting" => e = d)
              <=> (\A e \in Conns : conn[e].socket = "connecting" => e = d)
            BY <1>1
        <3>. QED BY <1>1, <3>1, <3>2 DEF LinkOK
    <2>. QED BY <1>1, <2>1 DEF LinksFit
<1>5. Reached'
    BY <1>1, <1>2 DEF Reached
<1>6. CallsHeard'
    <2>1. ASSUME NEW i \in DOMAIN calls'
          PROVE  /\ calls'[i].by = "login" => conn'[calls'[i].of].heard
                 /\ ~ late' => conn'[calls'[i].of].heard /\ ~ conn'[calls'[i].of].deaf
        <3>1. PICK x \in Conns : /\ calls'[i].of = x
                                 /\ calls'[i].by = "login" => conn[x].heard
                                 /\ ~ late => conn[x].heard /\ ~ conn[x].deaf
            <4>1. CASE \E k \in DOMAIN calls : calls'[i] = calls[k]
                <5>1. PICK k \in DOMAIN calls : calls'[i] = calls[k]
                    BY <4>1
                <5>2. PICK x \in Conns : x = calls[k].of
                    BY Fields
                <5>. QED BY <5>1, <5>2 DEF CallsHeard
            <4>2. CASE ~ \E k \in DOMAIN calls : calls'[i] = calls[k]
                BY <4>2 DEF Heeded
            <4>. QED BY <4>1, <4>2
        <3>. QED BY <1>1, <3>1
    <2>. QED BY <2>1 DEF CallsHeard
<1>. QED BY <1>3, <1>4, <1>5, <1>6

\* reallocate fails, and the connection there is is closed.
LEMMA ReallocateFailsKeeps ==
    ASSUME MInv, ReallocateFails
    PROVE  MInv'
<1>1. /\ Shape /\ LinksFit /\ Reached /\ CallsHeard /\ Asked
      /\ Agree /\ Mining /\ Hashing /\ Polls /\ Known
    BY DEF MInv
<1>2. /\ alloc = "await" /\ alloc' = "no" /\ calls' = Tail(calls)
      /\ native' = [native EXCEPT !.active = FALSE, !.seed = None]
      /\ queued' = queued /\ reused' = reused /\ late' = late
    BY DEF ReallocateFails, HistoryIdle
<1>3. calls # <<>> /\ m.seed = None
    BY <1>1, <1>2 DEF Agree
<1>4. /\ Call.of \in Conns /\ (Call.by = "login" => conn[Call.of].heard)
      /\ Tail(calls) \in Seq(Taken) /\ NoNewCall /\ Heeded
    BY <1>1, <1>2, <1>3, FirstCall
<1>5. PICK x \in Conns, by \in {Call.by} : x = Call.of /\ by = Call.by /\ (by = "login" => conn[x].heard)
    BY <1>4
<1>6. None \in SeedsOrNone /\ NoChunk \in Question
    BY DEF SeedsOrNone, NoChunk, Question, JobsOrNone
<1>7. /\ native' \in Code /\ ~ native'.active /\ native'.version = native.version
      /\ native'.job = native.job /\ native'.seed = None
    BY <1>1, <1>2, <1>6 DEF Shape, Code
<1>8. \A d \in Conns : conn[d].step = "new" \/ conn[d].step = "threads" => ~ conn[d].heard
    <2>1. \A d \in Conns : LinkOK(d, conn[d])
        BY <1>1 DEF LinksFit
    <2>. QED BY <1>1, <2>1 DEF LinkOK
<1>9. /\ conn' \in [Conns -> Client] /\ m' \in Member
      /\ m'.job = m.job /\ m'.seed = m.seed /\ m'.versions = m.versions /\ m'.sent = m.sent
      /\ chunk' \in {chunk, NoChunk}
      /\ LinksFit' /\ Reached' /\ Asked' /\ Polls' /\ CallsHeard' /\ ~ Current'
    <2>1. CASE m.stratum # 0 /\ conn[m.stratum].socket = "open"
        <3>1. PICK c \in Conns : c = m.stratum /\ conn[c].socket = "open"
            BY <1>1, <2>1, Fields
        <3>2. PICK f \in [Conns -> Client] :
                /\ f = Down(c)
                /\ f[c].socket = "closed" /\ f[c].heard = conn[c].heard
                /\ f[c].deaf = (conn[c].step = "threads")
                /\ f[c].step = IF conn[c].step \in {"login", "wait"} THEN "done" ELSE conn[c].step
                /\ \A d \in Conns : d # c => f[d] = conn[d]
            BY <1>1, DownIs DEF Shape
        <3>3. conn' = [f EXCEPT ![x].step = IF by = "login" THEN "done" ELSE @]
            BY <1>5, <2>1, <3>1, <3>2 DEF ReallocateFails
        <3>4. /\ conn' \in [Conns -> Client]
              /\ \A d \in Conns :
                   /\ conn'[d].socket = f[d].socket /\ conn'[d].heard = f[d].heard
                   /\ conn'[d].deaf = f[d].deaf
                   /\ conn'[d].step = IF d = x /\ by = "login" THEN "done" ELSE f[d].step
            <4>1. PICK g : g = conn'
                OBVIOUS
            <4>2. Ends(f, x, by, g)
                BY <3>3, <4>1, StepEnds
            <4>. QED BY <4>1, <4>2 DEF Ends
        <3>5. chunk' \in {chunk, NoChunk}
            BY <2>1, <3>1 DEF ReallocateFails, Rejects
        <3>6. \/ /\ conn[c].heard
                 /\ m' = [m EXCEPT !.stratum = 0, !.gen = m.gen + 1, !.armed = FALSE, !.timer = TRUE]
              \/ ~ conn[c].heard /\ m' = m
            <4>1. ~ m.closed
                BY <1>1, <3>1 DEF LinksFit, LinkOK
            <4>2. CASE conn[c].heard
                <5>1. m' = Rescheduled(PollStopped([m EXCEPT !.stratum = 0]))
                    BY <2>1, <3>1, <4>2 DEF ReallocateFails, Hears
                <5>. QED BY <1>1, <4>1, <4>2, <5>1 DEF Rescheduled, PollStopped, Shape, Member
            <4>3. CASE ~ conn[c].heard
                BY <2>1, <3>1, <4>3 DEF ReallocateFails, Hears
            <4>. QED BY <4>2, <4>3
        <3>7. m' \in Member
            <4>1. m \in Member /\ m.gen + 1 \in Nat
                BY <1>1, Fields DEF Shape
            <4>2. [m EXCEPT !.stratum = 0, !.gen = m.gen + 1, !.armed = FALSE, !.timer = TRUE] \in Member
                BY <4>1, MemberWith
            <4>. QED BY <3>6, <4>1, <4>2
        <3>8. /\ m'.closed = m.closed /\ m'.job = m.job /\ m'.seed = m.seed
              /\ m'.versions = m.versions /\ m'.sent = m.sent
              /\ \/ /\ conn[c].heard
                    /\ m'.timer /\ m'.stratum = 0 /\ m'.gen = m.gen + 1 /\ ~ m'.armed
                 \/ ~ conn[c].heard /\ m' = m
            BY <1>1, <3>6 DEF Shape, Member
        <3>9. Shut(c)
            <4>1. \A d \in Conns \ {c} : conn'[d].socket = conn[d].socket /\ conn'[d].deaf = conn[d].deaf
                BY <3>2, <3>4
            <4>2. \A d \in Conns :
                    /\ conn'[d].heard = conn[d].heard /\ conn'[d].step \in {conn[d].step, "done"}
                    /\ conn[d].step \in {"new", "threads"} => conn'[d].step = conn[d].step
                BY <1>5, <1>8, <3>2, <3>4
            <4>. QED BY <1>2, <3>2, <3>4, <3>5, <3>8, <4>1, <4>2 DEF Shut
        <3>10. LinksFit' /\ Reached' /\ Asked' /\ Polls' /\ CallsHeard' /\ ~ Current'
            BY <1>1, <1>4, <3>1, <3>9, ShutKeeps
        <3>. QED BY <3>4, <3>5, <3>7, <3>8, <3>10
    <2>2. CASE ~ (m.stratum # 0 /\ conn[m.stratum].socket = "open")
        <3>1. PICK f \in [Conns -> Client] : f = conn
            BY <1>1 DEF Shape
        <3>2. conn' = [f EXCEPT ![x].step = IF by = "login" THEN "done" ELSE @]
            BY <1>5, <2>2, <3>1 DEF ReallocateFails
        <3>3. /\ conn' \in [Conns -> Client]
              /\ \A d \in Conns :
                   /\ conn'[d].socket = conn[d].socket /\ conn'[d].heard = conn[d].heard
                   /\ conn'[d].deaf = conn[d].deaf
                   /\ conn'[d].step = IF d = x /\ by = "login" THEN "done" ELSE conn[d].step
            <4>1. PICK g : g = conn'
                OBVIOUS
            <4>2. Ends(f, x, by, g)
                BY <3>1, <3>2, <4>1, StepEnds
            <4>. QED BY <3>1, <4>1, <4>2 DEF Ends
        <3>4. m' = m /\ chunk' \in {chunk, NoChunk}
            BY <2>2 DEF ReallocateFails
        <3>5. Stays
            BY <1>5, <1>8, <3>3, <3>4 DEF Stays
        <3>6. LinksFit' /\ Reached' /\ CallsHeard' /\ (Current' <=> Current)
            BY <1>1, <1>2, <1>4, <3>5, StaysKeeps
        <3>7. ~ Current'
            BY <2>2, <3>6 DEF Current
        <3>8. m \in Member /\ m.gen \in Nat /\ chunk.of \in Conns \union {0}
            BY <1>1, Fields DEF Shape
        <3>9. Polls' /\ Asked'
            <4>1. CASE chunk' = NoChunk
                BY <1>1, <1>2, <3>4, <3>6, <3>7, <3>8, <4>1 DEF Polls, Asked, NoChunk
            <4>2. CASE chunk' = chunk
                BY <1>1, <1>2, <3>3, <3>4, <3>6, <3>7, <3>8, <4>2 DEF Polls, Asked
            <4>. QED BY <3>4, <4>1, <4>2
        <3>. QED BY <3>3, <3>4, <3>6, <3>7, <3>8, <3>9
    <2>. QED BY <2>1, <2>2
<1>10. Shape'
    BY <1>1, <1>2, <1>4, <1>6, <1>7, <1>9 DEF Shape
<1>11. Agree'
    BY <1>1, <1>2, <1>3, <1>7, <1>9 DEF Agree
<1>12. Mining' /\ Hashing'
    BY <1>7, <1>9 DEF Mining, Hashing
<1>13. Known'
    BY <1>1, <1>7, <1>9 DEF Known, LastVersion
<1>. QED BY <1>9, <1>10, <1>11, <1>12, <1>13 DEF MInv

\* The call that ends is of the connection there is: NMiner still listens to it,
\* so it is open.
LEMMA CallCurrent ==
    ASSUME Shape, LinksFit, CallsHeard, calls # <<>>, ~ late, Call.of = m.stratum
    PROVE  Current
<1>1. PICK c \in Conns : c = Call.of /\ conn[c].heard /\ ~ conn[c].deaf
    BY FirstCall
<1>2. conn[c].socket = "open" /\ c # 0
    BY <1>1, Numbers DEF LinksFit, LinkOK
<1>. QED BY <1>1, <1>2 DEF Current

\* What every end of a call has in common: nothing happens to the connections.
LEMMA ReturnedKeeps ==
    ASSUME Shape, LinksFit, Reached, CallsHeard, calls # <<>>,
           NEW s, s.closed = m.closed, s.stratum = m.stratum, s.timer = m.timer, s \in Member,
           NEW n, Returned(s, n, TRUE)
    PROVE  /\ LinksFit' /\ Reached' /\ CallsHeard' /\ (Current' <=> Current)
           /\ conn' \in [Conns -> Client] /\ m'.stratum = m.stratum
           /\ \A d \in Conns : conn'[d].heard = conn[d].heard /\ conn'[d].deaf = conn[d].deaf
           /\ late' \in BOOLEAN /\ (~ late' => ~ late /\ Call.of = m.stratum /\ Current)
<1>1. /\ Call.of \in Conns /\ (Call.by = "login" => conn[Call.of].heard)
      /\ calls' = Tail(calls) /\ Heeded
    BY FirstCall DEF Returned
<1>2. PICK x \in Conns : x = Call.of /\ (Call.by = "login" => conn[x].heard)
    BY <1>1
<1>3. PICK by : by = Call.by
    OBVIOUS
<1>4. late' = (late \/ x # m.stratum)
    BY <1>2 DEF Returned
<1>5. PICK f \in [Conns -> Client] : f = conn
    BY DEF Shape
<1>6. conn' = [f EXCEPT ![x].step = IF by = "login" THEN "done" ELSE @]
    BY <1>2, <1>5, <1>3 DEF Returned
<1>7. /\ conn' \in [Conns -> Client]
      /\ \A d \in Conns :
           /\ conn'[d].socket = f[d].socket /\ conn'[d].heard = f[d].heard
           /\ conn'[d].deaf = f[d].deaf
           /\ conn'[d].step = IF d = x /\ by = "login" THEN "done" ELSE f[d].step
    <2>1. PICK g : g = conn'
        OBVIOUS
    <2>2. Ends(f, x, by, g)
        BY <1>6, <2>1, StepEnds
    <2>. QED BY <2>1, <2>2 DEF Ends
<1>8. m'.closed = m.closed /\ m'.stratum = m.stratum /\ m'.timer = m.timer
    <2>1. m' = s \/ m' = Rearmed(s)
        BY DEF Returned
    <2>. QED BY <2>1 DEF Rearmed, Member
<1>9. \A d \in Conns : conn[d].step = "new" \/ conn[d].step = "threads" => ~ conn[d].heard
    <2>1. \A d \in Conns : LinkOK(d, conn[d])
        BY DEF LinksFit
    <2>. QED BY <2>1 DEF LinkOK
<1>10. Stays
    BY <1>2, <1>5, <1>7, <1>8, <1>9, <1>3 DEF Stays
<1>11. LinksFit' /\ Reached' /\ CallsHeard' /\ (Current' <=> Current)
    BY <1>1, <1>4, <1>10, StaysKeeps
<1>12. late' \in BOOLEAN /\ (~ late' => ~ late /\ Call.of = m.stratum /\ Current)
    BY <1>2, <1>4, CallCurrent DEF Shape
<1>. QED BY <1>5, <1>7, <1>8, <1>11, <1>12

\* The pool sends the job again.
LEMMA SameJobKeeps ==
    ASSUME MInv, SameJob
    PROVE  MInv'
<1>1. /\ Shape /\ LinksFit /\ Reached /\ CallsHeard /\ Asked
      /\ Agree /\ Mining /\ Hashing /\ Polls /\ Known
    BY DEF MInv
<1>2. /\ calls # <<>> /\ alloc = "no" /\ alloc' = alloc /\ queued' = queued
      /\ Returned(m, native, TRUE)
      /\ reused' = (reused \/ \A i \in DOMAIN m.versions : m.versions[i].job # Call.job)
    BY DEF SameJob
<1>3. m \in Member /\ native \in Code /\ chunk \in Question
    BY <1>1 DEF Shape
<1>4. /\ LinksFit' /\ Reached' /\ CallsHeard' /\ (Current' <=> Current)
      /\ conn' \in [Conns -> Client] /\ m'.stratum = m.stratum
      /\ \A d \in Conns : conn'[d].heard = conn[d].heard /\ conn'[d].deaf = conn[d].deaf
      /\ late' \in BOOLEAN /\ (~ late' => ~ late /\ Call.of = m.stratum /\ Current)
    BY <1>1, <1>2, <1>3, ReturnedKeeps
<1>5. /\ calls' = Tail(calls) /\ Tail(calls) \in Seq(Taken)
      /\ native' \in {native, [native EXCEPT !.active = TRUE]}
      /\ chunk' \in {chunk, NoChunk} /\ NoChunk \in Question
    BY <1>1, <1>2, FirstCall DEF Returned, NoChunk, Question, JobsOrNone
<1>6. native' \in Code /\ native'.version = native.version /\ native'.job = native.job /\ native'.seed = native.seed
    BY <1>3, <1>5 DEF Code
<1>7. \/ m' = m /\ (chunk' = chunk \/ (chunk' = NoChunk /\ chunk.gen # m.gen))
      \/ m' = Rearmed(m) /\ chunk' = NoChunk
    <2>1. /\ m' = IF Call.by = "chunk" /\ chunk.gen = m.gen THEN Rearmed(m) ELSE m
          /\ chunk' = IF Call.by = "chunk" THEN NoChunk ELSE chunk
        BY <1>2 DEF Returned
    <2>2. CASE Call.by = "chunk" /\ chunk.gen = m.gen
        BY <2>1, <2>2
    <2>3. CASE Call.by = "chunk" /\ chunk.gen # m.gen
        BY <2>1, <2>3
    <2>4. CASE Call.by # "chunk"
        BY <2>1, <2>4
    <2>. QED BY <2>2, <2>3, <2>4
<1>8. PICK a \in BOOLEAN : a = (m.stratum # 0 /\ m.job # None)
    OBVIOUS
<1>9. Rearmed(m) = [m EXCEPT !.armed = a] /\ [m EXCEPT !.armed = a] \in Member
    <2>1. Rearmed(m) = [m EXCEPT !.armed = a]
        BY <1>8 DEF Rearmed
    <2>2. [m EXCEPT !.armed = a] \in Member
        BY <1>3, Zenon DEF Member
    <2>. QED BY <2>1, <2>2
<1>10. /\ m' \in Member /\ m'.job = m.job /\ m'.seed = m.seed /\ m'.versions = m.versions
       /\ m'.sent = m.sent /\ m'.gen = m.gen
       /\ \/ (m'.armed <=> m.armed) /\ (chunk' = chunk \/ (chunk' = NoChunk /\ chunk.gen # m.gen))
          \/ (m'.armed <=> a) /\ chunk' = NoChunk
    BY <1>3, <1>7, <1>9 DEF Member
<1>11. reused' \in BOOLEAN /\ (~ reused' => ~ reused /\ m.versions # <<>>)
    <2>1. m.versions = <<>> => DOMAIN m.versions = {}
        OBVIOUS
    <2>2. reused' = (reused \/ \A i \in DOMAIN m.versions : m.versions[i].job # Call.job)
        BY <1>2
    <2>. QED BY <1>1, <2>1, <2>2 DEF Shape
<1>12. Shape'
    BY <1>1, <1>2, <1>3, <1>4, <1>5, <1>6, <1>10, <1>11 DEF Shape
<1>13. Asked'
    <2>1. ~ late' => /\ Current'
                     /\ chunk.of # 0 => conn[chunk.of].heard /\ ~ conn[chunk.of].deaf
                     /\ chunk.of # 0 /\ chunk.gen = m.gen => m.stratum = chunk.of
        BY <1>1, <1>4 DEF Asked
    <2>2. CASE chunk' = NoChunk
        BY <2>1, <2>2 DEF Asked, NoChunk
    <2>3. CASE chunk' = chunk
        <3>1. ~ late' /\ chunk.of # 0 => conn'[chunk.of].heard /\ ~ conn'[chunk.of].deaf
            BY <1>1, <1>4, <2>1, Fields
        <3>2. ~ late' /\ chunk.of # 0 /\ chunk.gen = m'.gen => m'.stratum = chunk.of
            BY <1>4, <1>10, <2>1
        <3>3. chunk.of = 0 => chunk = NoChunk
            BY <1>1 DEF Asked
        <3>. QED BY <2>1, <2>3, <3>1, <3>2, <3>3 DEF Asked
    <2>. QED BY <1>5, <2>2, <2>3
<1>14. Agree'
    BY <1>1, <1>2, <1>6, <1>10 DEF Agree
<1>15. Mining'
    BY <1>4, <1>10, <1>11 DEF Mining
<1>16. Hashing'
    BY <1>1, <1>2, <1>4, <1>6, <1>10 DEF Hashing
<1>17. Polls'
    <2>1. /\ chunk.gen <= m.gen /\ (chunk # NoChunk /\ chunk.gen = m.gen => chunk.job = m.job)
          /\ queued.given = queued.granted /\ m.gen \in Nat
          /\ Current /\ m.versions # <<>> /\ m.job \in Ranged =>
               m.armed \/ (chunk # NoChunk /\ chunk.gen = m.gen)
        BY <1>1, Fields DEF Polls
    <2>2. Current /\ m.job \in Ranged => a
        BY <1>8, Numbers DEF Current
    <2>3. CASE chunk' = chunk
        BY <1>2, <1>4, <1>10, <2>1, <2>2, <2>3 DEF Polls
    <2>4. CASE chunk' = NoChunk
        <3>1. \/ (m'.armed <=> m.armed) /\ (chunk.gen # m.gen \/ chunk = NoChunk)
              \/ m'.armed <=> a
            BY <1>10, <2>4
        <3>2. Current /\ m.versions # <<>> /\ m.job \in Ranged => m'.armed
            BY <2>1, <2>2, <3>1
        <3>. QED BY <1>2, <1>4, <1>10, <2>1, <2>4, <3>2 DEF Polls, NoChunk
    <2>. QED BY <1>5, <2>3, <2>4
<1>18. Known'
    BY <1>1, <1>4, <1>6, <1>10 DEF Known, LastVersion
<1>. QED BY <1>4, <1>12, <1>13, <1>14, <1>15, <1>16, <1>17, <1>18 DEF MInv

\* send_job: the job is the one that is worked on, its version is the last, and
\* every question is of a poll before.
LEMMA SentKeeps ==
    ASSUME MInv, calls # <<>>, alloc = "no" \/ alloc = "started",
           alloc = "no" => m.seed = Seed[Call.job],
           Sent(native), alloc' = "no", queued' = queued, reused' = reused
    PROVE  MInv'
<1>1. /\ Shape /\ LinksFit /\ Reached /\ CallsHeard /\ Asked
      /\ Agree /\ Mining /\ Hashing /\ Polls /\ Known
    BY DEF MInv
<1>2. /\ m \in Member /\ native \in Code /\ chunk \in Question
      /\ m.gen \in Nat /\ m.sent \in Nat /\ native.version \in 0 .. MaxVersion /\ m.versions \in Seq(Version)
      /\ chunk.gen \in Nat /\ chunk.gen <= m.gen
    BY <1>1, Fields DEF Shape, Polls
<1>3. Call = calls[1] /\ Call.of \in Conns /\ Call.job \in Jobs /\ Tail(calls) \in Seq(Taken)
    BY <1>1, FirstCall
<1>4. PICK j \in Jobs : j = Call.job
    BY <1>3
<1>5. PICK x \in Conns : x = Call.of
    BY <1>3
<1>6. PICK v \in Nat : v = native.version + 1 /\ v \in 0 .. MaxVersion /\ native.version \in Nat
    BY <1>2, Numbers DEF Sent
<1>7. native.seed = Seed[j] /\ Seed[j] \in SeedsOrNone
    BY <1>1, <1>3, <1>4 DEF Agree, SeedsOrNone
<1>8. /\ Len(m.versions) = IF m.sent < Kept THEN m.sent ELSE Kept
      /\ m.sent <= native.version
      /\ \A i \in DOMAIN m.versions : m.versions[i].version = native.version - Len(m.versions) + i
    BY <1>1 DEF Known, Rows
<1>9. PICK y \in Version : y = [version |-> v, job |-> j, of |-> x]
    <2>1. [version |-> v, job |-> j, of |-> x] \in Version
        BY DEF Version
    <2>. QED BY <2>1
<1>10. PICK vs : vs = Retain(Append(m.versions, y))
    OBVIOUS
<1>11. /\ vs \in Seq(Version) /\ vs # <<>> /\ vs[Len(vs)] = y
       /\ Len(vs) = IF Len(m.versions) < Kept THEN Len(m.versions) + 1 ELSE Kept
       /\ \A i \in 1 .. Len(vs) - 1 : vs[i] = m.versions[i + Len(m.versions) + 1 - Len(vs)]
    <2>1. Len(m.versions) <= Kept
        BY <1>2, <1>8, Numbers
    <2>2. PICK ws \in Seq(Version) : ws = m.versions
        BY <1>2
    <2>3. Len(ws) <= Kept /\ vs = Retain(Append(ws, y))
        BY <1>10, <2>1, <2>2
    <2>4. Retained(Version, ws, y, vs)
        BY <2>3, RetainIs
    <2>. QED BY <2>2, <2>4 DEF Retained
<1>12. PICK a \in BOOLEAN : a <=> j \in Ranged
    <2>1. CASE j \in Ranged
        BY <2>1
    <2>2. CASE j \notin Ranged
        BY <2>2
    <2>. QED BY <2>1, <2>2
<1>13. PICK s \in Member :
            s = [m EXCEPT !.job = j, !.seed = Seed[j], !.sent = m.sent + 1, !.versions = vs,
                          !.gen = m.gen + 1, !.armed = a]
    <2>1. j \in JobsOrNone /\ m.sent + 1 \in Nat /\ m.gen + 1 \in Nat
        BY <1>2 DEF JobsOrNone
    <2>. QED BY <1>2, <1>7, <1>11, <2>1, MemberSent
<1>14. PICK n : n = [native EXCEPT !.version = v, !.job = j]
    OBVIOUS
<1>15. Returned(s, n, TRUE)
    <2>1. PICK u : u = [m EXCEPT !.job = j, !.seed = Seed[j], !.sent = @ + 1, !.versions = vs]
        OBVIOUS
    <2>2. Returned(IF j \in Ranged THEN PollScheduled(u) ELSE PollStopped(u), n, TRUE)
        BY <1>4, <1>5, <1>6, <1>9, <1>10, <1>14, <2>1 DEF Sent
    <2>3. CASE j \in Ranged
        <3>1. PollScheduled(u) = s
            BY <1>2, <1>12, <1>13, <2>1, <2>3 DEF PollScheduled, Member
        <3>. QED BY <2>2, <2>3, <3>1
    <2>4. CASE j \notin Ranged
        <3>1. PollStopped(u) = s
            BY <1>2, <1>12, <1>13, <2>1, <2>4 DEF PollStopped, Member
        <3>. QED BY <2>2, <2>4, <3>1
    <2>. QED BY <2>3, <2>4
<1>16. /\ s.closed = m.closed /\ s.stratum = m.stratum /\ s.timer = m.timer
       /\ s.job = j /\ s.seed = Seed[j] /\ s.sent = m.sent + 1 /\ s.versions = vs
       /\ s.gen = m.gen + 1 /\ (s.armed <=> j \in Ranged)
    BY <1>2, <1>12, <1>13 DEF Member
<1>17. /\ LinksFit' /\ Reached' /\ CallsHeard' /\ (Current' <=> Current)
       /\ conn' \in [Conns -> Client] /\ m'.stratum = m.stratum
       /\ \A d \in Conns : conn'[d].heard = conn[d].heard /\ conn'[d].deaf = conn[d].deaf
       /\ late' \in BOOLEAN /\ (~ late' => ~ late /\ Call.of = m.stratum /\ Current)
    BY <1>1, <1>15, <1>16, ReturnedKeeps
<1>18. m' = s
    <2>1. chunk.gen # s.gen
        BY <1>2, <1>16
    <2>. QED BY <1>15, <2>1 DEF Returned
<1>19. /\ calls' = Tail(calls)
       /\ native' \in {n, [n EXCEPT !.active = TRUE]}
       /\ chunk' \in {chunk, NoChunk} /\ NoChunk \in Question
    BY <1>15 DEF Returned, NoChunk, Question, JobsOrNone
<1>20. /\ native' \in Code /\ native'.version = v /\ native'.job = j /\ native'.seed = native.seed
    BY <1>2, <1>6, <1>14, <1>19 DEF Code, JobsOrNone
<1>21. Shape'
    BY <1>1, <1>2, <1>3, <1>17, <1>18, <1>19, <1>20 DEF Shape
<1>22. Asked'
    <2>1. ~ late' => Current' /\ (chunk.of # 0 => conn[chunk.of].heard /\ ~ conn[chunk.of].deaf)
        BY <1>1, <1>17 DEF Asked
    <2>2. CASE chunk' = NoChunk
        BY <2>1, <2>2 DEF Asked, NoChunk
    <2>3. CASE chunk' = chunk
        <3>1. ~ late' /\ chunk.of # 0 => conn'[chunk.of].heard /\ ~ conn'[chunk.of].deaf
            BY <1>1, <1>17, <2>1, Fields
        <3>2. chunk.gen # m'.gen
            BY <1>2, <1>16, <1>18
        <3>3. chunk.of = 0 => chunk = NoChunk
            BY <1>1 DEF Asked
        <3>. QED BY <2>1, <2>3, <3>1, <3>2, <3>3 DEF Asked
    <2>. QED BY <1>19, <2>2, <2>3
<1>23. Agree'
    BY <1>7, <1>16, <1>18, <1>20 DEF Agree
<1>24. Mining' /\ Hashing'
    BY <1>7, <1>11, <1>16, <1>17, <1>18, <1>20 DEF Mining, Hashing
<1>25. Polls'
    <2>1. chunk'.gen <= m'.gen /\ chunk'.gen # m'.gen
        BY <1>2, <1>16, <1>18, <1>19 DEF NoChunk
    <2>2. m'.job \in Ranged => m'.armed
        BY <1>16, <1>18
    <2>3. queued'.given = queued'.granted
        BY <1>1 DEF Polls
    <2>. QED BY <2>1, <2>2, <2>3 DEF Polls
<1>26. Known'
    <2>1. y.version = v /\ y.job = j /\ y.of = x
        BY <1>9
    <2>2. /\ Len(vs) = IF m.sent + 1 < Kept THEN m.sent + 1 ELSE Kept
          /\ m.sent + 1 <= v /\ Len(vs) \in Nat /\ Len(vs) > 0
        <3>1. PICK sent \in Nat, held \in Nat : sent = m.sent /\ held = Len(m.versions)
            BY <1>2
        <3>2. held = (IF sent < Kept THEN sent ELSE Kept) /\ sent <= native.version
            BY <1>8, <3>1
        <3>3. PICK len \in Nat : len = Len(vs)
            BY <1>11
        <3>4. len = IF held < Kept THEN held + 1 ELSE Kept
            BY <1>11, <3>1, <3>3
        <3>5. Kept \in Nat /\ Kept > 0
            BY Numbers
        <3>6. sent + 1 <= v
            BY <1>6, <3>2
        <3>7. len = (IF sent + 1 < Kept THEN sent + 1 ELSE Kept) /\ len > 0
            BY <3>2, <3>4, <3>5
        <3>. QED BY <3>1, <3>3, <3>6, <3>7
    <2>3. ASSUME NEW i \in DOMAIN vs
          PROVE  vs[i].version = v - Len(vs) + i
        <3>1. i \in 1 .. Len(vs)
            BY <1>11
        <3>2. CASE i = Len(vs)
            <4>1. vs[i] = y
                BY <1>11, <3>2
            <4>2. PICK q \in Nat : q = Len(vs)
                BY <2>2
            <4>3. v - q + q = v
                OBVIOUS
            <4>. QED BY <2>1, <3>2, <4>1, <4>2, <4>3
        <3>3. CASE i < Len(vs)
            <4>1. PICK k : k = i + Len(m.versions) + 1 - Len(vs)
                OBVIOUS
            <4>2. PICK p \in Nat : p = Len(m.versions)
                BY <1>2
            <4>3. PICK q \in Nat : q = Len(vs)
                BY <2>2
            <4>4. i \in 1 .. q - 1 /\ vs[i] = m.versions[k]
                <5>1. i \in 1 .. q - 1 /\ i \in 1 .. Len(vs) - 1
                    BY <3>1, <3>3, <4>3
                <5>2. vs[i] = m.versions[i + Len(m.versions) + 1 - Len(vs)]
                    BY <1>11, <5>1
                <5>. QED BY <4>1, <5>1, <5>2
            <4>5. q = IF p < Kept THEN p + 1 ELSE Kept
                BY <1>11, <4>2, <4>3
            <4>6. p <= Kept
                BY <1>2, <1>8, <4>2, Numbers
            <4>7. k \in 1 .. p /\ native.version - p + k = v - q + i
                <5>1. k = i + p + 1 - q /\ i \in 1 .. q - 1 /\ i \in Int
                    BY <4>1, <4>2, <4>3, <4>4
                <5>2. k \in 1 .. p
                    BY <4>5, <4>6, <5>1, Numbers
                <5>3. PICK r \in Nat : r = native.version /\ v = r + 1
                    BY <1>6
                <5>4. r - p + k = v - q + i
                    <6>1. k = i + p + 1 - q /\ i \in Int /\ v = r + 1
                        BY <5>1, <5>3
                    <6>. QED BY <6>1
                <5>. QED BY <5>2, <5>3, <5>4
            <4>8. m.versions[k].version = native.version - p + k
                BY <1>2, <1>8, <4>2, <4>7
            <4>. QED BY <4>3, <4>4, <4>7, <4>8
        <3>. QED BY <2>2, <3>1, <3>2, <3>3
    <2>4. Rows(vs, m.sent + 1, v)
        BY <2>2, <2>3 DEF Rows
    <2>5. m'.versions = vs /\ m'.sent = m.sent + 1 /\ native'.version = v /\ native'.job = j
        BY <1>16, <1>18, <1>20
    <2>6. Rows(m'.versions, m'.sent, native'.version)
        BY <2>4, <2>5
    <2>7. LastVersion' = y
        BY <1>11, <2>5 DEF LastVersion
    <2>8. ~ late' => x = m'.stratum
        BY <1>5, <1>17
    <2>. QED BY <2>1, <2>5, <2>6, <2>7, <2>8 DEF Known
<1>. QED BY <1>17, <1>21, <1>22, <1>23, <1>24, <1>25, <1>26 DEF MInv

\* A call that finds its seed allocated sends its job.
LEMMA SendJobKeeps ==
    ASSUME MInv, SendJob
    PROVE  MInv'
BY SentKeeps DEF SendJob

\* So does the call that has had the threads started again.
LEMMA ReallocatedKeeps ==
    ASSUME MInv, Reallocated
    PROVE  MInv'
<1>1. calls # <<>>
    BY DEF MInv, Agree, Reallocated
<1>. QED BY <1>1, SentKeeps DEF Reallocated

\* Another seed: what the dataset was built for is forgotten with it.
LEMMA ReallocateKeeps ==
    ASSUME MInv, Reallocate
    PROVE  MInv'
<1>1. /\ Shape /\ LinksFit /\ Reached /\ CallsHeard /\ Asked
      /\ Agree /\ Mining /\ Hashing /\ Polls /\ Known
    BY DEF MInv
<1>2. /\ calls # <<>> /\ alloc' = "await" /\ conn' = conn /\ calls' = calls /\ chunk' = chunk
      /\ queued' = queued /\ reused' = reused /\ late' = late
      /\ native' = [native EXCEPT !.active = FALSE] /\ m' = [m EXCEPT !.seed = None]
    BY DEF Reallocate, HistoryIdle, Stopped, Unseeded
<1>3. None \in SeedsOrNone
    BY DEF SeedsOrNone
<1>4. m \in Member /\ native \in Code
    BY <1>1 DEF Shape
<1>5. m' \in Member
    BY <1>2, <1>3, <1>4, Zenon DEF Member
<1>6. /\ m'.closed = m.closed /\ m'.stratum = m.stratum /\ m'.timer = m.timer /\ m'.job = m.job
      /\ m'.seed = None /\ m'.versions = m.versions /\ m'.sent = m.sent /\ m'.gen = m.gen
      /\ (m'.armed <=> m.armed)
    BY <1>2, <1>4 DEF Member
<1>7. /\ native' \in Code /\ ~ native'.active /\ native'.version = native.version
      /\ native'.job = native.job
    BY <1>2, <1>4 DEF Code
<1>8. Current' <=> Current
    BY <1>2, <1>6 DEF Current
<1>9. Shape'
    BY <1>1, <1>2, <1>5, <1>7 DEF Shape
<1>10. LinksFit' /\ Reached'
    <2>1. ASSUME NEW c \in Conns
          PROVE  LinkOK(c, conn[c])'
        BY <1>1, <1>2, <1>6 DEF LinksFit, LinkOK
    <2>. QED BY <1>1, <1>2, <1>6, <2>1 DEF LinksFit, Reached
<1>11. CallsHeard' /\ Asked'
    BY <1>1, <1>2, <1>6, <1>8 DEF CallsHeard, Asked
<1>12. Agree' /\ Mining' /\ Hashing'
    BY <1>1, <1>2, <1>6, <1>7 DEF Agree, Mining, Hashing
<1>13. Polls'
    BY <1>1, <1>2, <1>6, <1>8 DEF Polls
<1>14. Known'
    BY <1>1, <1>2, <1>6, <1>7, <1>8 DEF Known, LastVersion
<1>. QED BY <1>9, <1>10, <1>11, <1>12, <1>13, <1>14 DEF MInv

\* The threads are started over the dataset of the first call.
LEMMA RestartKeeps ==
    ASSUME MInv, Restart
    PROVE  MInv'
<1>1. /\ Shape /\ LinksFit /\ Reached /\ CallsHeard /\ Asked
      /\ Agree /\ Mining /\ Hashing /\ Polls /\ Known
    BY DEF MInv
<1>2. /\ alloc = "await" /\ alloc' = "started" /\ m' = m /\ conn' = conn /\ calls' = calls /\ chunk' = chunk
      /\ queued' = queued /\ reused' = reused /\ late' = late
    BY DEF Restart, HistoryIdle
<1>3. calls # <<>> /\ m.seed = None
    BY <1>1, <1>2 DEF Agree
<1>4. PICK x \in SeedsOrNone : x = Seed[calls[1].job] /\ native' = [native EXCEPT !.active = TRUE, !.seed = x]
    <2>1. Call = calls[1] /\ Call.job \in Jobs
        BY <1>1, <1>3, FirstCall
    <2>2. Seed[calls[1].job] \in SeedsOrNone
        BY <2>1 DEF SeedsOrNone
    <2>3. native' = [native EXCEPT !.active = TRUE, !.seed = Seed[calls[1].job]]
        BY <2>1 DEF Restart
    <2>. QED BY <2>2, <2>3
<1>5. /\ native' \in Code /\ native'.version = native.version
      /\ native'.job = native.job /\ native'.seed = x
    BY <1>1, <1>4 DEF Shape, Code
<1>6. Current' <=> Current
    BY <1>2 DEF Current
<1>7. Shape'
    BY <1>1, <1>2, <1>5 DEF Shape
<1>8. LinksFit' /\ Reached'
    BY <1>1, <1>2 DEF LinksFit, LinkOK, Reached
<1>9. CallsHeard' /\ Asked' /\ Polls'
    BY <1>1, <1>2, <1>6 DEF CallsHeard, Asked, Polls
<1>10. Agree' /\ Mining' /\ Hashing'
    BY <1>1, <1>2, <1>3, <1>4, <1>5 DEF Agree, Mining, Hashing
<1>11. Known'
    BY <1>1, <1>2, <1>5, <1>6 DEF Known, LastVersion
<1>. QED BY <1>7, <1>8, <1>9, <1>10, <1>11 DEF MInv

-----------------------------------------------------------------------------
(* Calls come.                                                             *)

\* What comes with a call: the first one stays the first.
LEMMA MoreCalls ==
    ASSUME MInv, Stays, Heeded, calls' \in Seq(Taken),
           calls # <<>> => calls' # <<>> /\ calls'[1] = calls[1],
           m' = m, native' = native, chunk' = chunk, alloc' = alloc, HistoryIdle
    PROVE  MInv'
<1>1. /\ Shape /\ LinksFit /\ Reached /\ CallsHeard /\ Asked
      /\ Agree /\ Mining /\ Hashing /\ Polls /\ Known
    BY DEF MInv
<1>2. queued' = queued /\ reused' = reused /\ late' = late
    BY DEF HistoryIdle
<1>3. LinksFit' /\ Reached' /\ CallsHeard' /\ (Current' <=> Current)
    BY <1>1, <1>2, StaysKeeps
<1>4. /\ conn' \in [Conns -> Client]
      /\ \A d \in Conns : conn'[d].heard = conn[d].heard /\ conn'[d].deaf = conn[d].deaf
    BY DEF Stays
<1>5. Shape'
    BY <1>1, <1>2, <1>4 DEF Shape
<1>6. Asked'
    <2>1. chunk.of \in Conns \union {0}
        BY <1>1, Fields
    <2>. QED BY <1>1, <1>2, <1>3, <1>4, <2>1 DEF Asked
<1>7. Agree' /\ Mining' /\ Hashing'
    BY <1>1, <1>2, <1>3 DEF Agree, Mining, Hashing
<1>8. Polls' /\ Known'
    BY <1>1, <1>2, <1>3 DEF Polls, Known, LastVersion
<1>. QED BY <1>3, <1>5, <1>6, <1>7, <1>8 DEF MInv

\* Calls of a connection that NMiner listens to follow those there are.
LEMMA CallsJoined ==
    ASSUME Shape, NEW t \in Seq(Taken), calls' = calls \o t, NEW x \in Conns,
           \A k \in DOMAIN t : t[k].of = x,
           \A k \in DOMAIN t : t[k].by = "login" => conn[x].heard,
           t # <<>> /\ ~ late => conn[x].heard /\ ~ conn[x].deaf
    PROVE  /\ Heeded /\ calls' \in Seq(Taken)
           /\ calls # <<>> => calls' # <<>> /\ calls'[1] = calls[1]
<1>1. PICK s \in Seq(Taken) : s = calls
    BY DEF Shape
<1>2. /\ s \o t \in Seq(Taken)
      /\ \A i \in DOMAIN (s \o t) :
           \/ i \in DOMAIN s /\ (s \o t)[i] = s[i]
           \/ \E k \in DOMAIN t : (s \o t)[i] = t[k]
      /\ s # <<>> => s \o t # <<>> /\ (s \o t)[1] = s[1]
    BY JoinedCalls
<1>3. PICK u : u = s \o t
    OBVIOUS
<1>4. /\ u \in Seq(Taken)
      /\ \A i \in DOMAIN u : (i \in DOMAIN s /\ u[i] = s[i]) \/ \E k \in DOMAIN t : u[i] = t[k]
      /\ s # <<>> => u # <<>> /\ u[1] = s[1]
    BY <1>2, <1>3
<1>5. calls' = u
    BY <1>1, <1>3
<1>6. ASSUME NEW i \in DOMAIN u, NEW k \in DOMAIN t, u[i] = t[k]
      PROVE  /\ u[i].of = x
             /\ u[i].by = "login" => conn[x].heard
             /\ ~ late => conn[x].heard /\ ~ conn[x].deaf
    <2>1. t # <<>>
        BY <1>6
    <2>. QED BY <1>6, <2>1
<1>7. Heeded
    BY <1>1, <1>4, <1>5, <1>6 DEF Heeded
<1>. QED BY <1>1, <1>4, <1>5, <1>7

\* A connection that waits to be logged in is open and listened to.
LEMMA HeardInStep ==
    ASSUME LinksFit, NEW c \in Conns
    PROVE  /\ conn[c].step \in {"login", "wait"} => conn[c].socket = "open" /\ conn[c].heard
           /\ conn[c].socket = "open" => ~ conn[c].deaf /\ m.stratum = c /\ ~ m.closed
BY DEF LinksFit, LinkOK

\* login() has answered: the job that waited, or the one of the answer, is taken.
LEMMA LoggedInKeeps ==
    ASSUME MInv, NEW c \in Conns, NEW j \in Jobs \union {None}, LoggedIn(c, j)
    PROVE  MInv'
<1>1. Shape /\ LinksFit
    BY DEF MInv
<1>2. conn[c].step = "login" /\ conn[c].socket = "open" /\ conn[c].heard /\ ~ conn[c].deaf
    BY <1>1, HeardInStep DEF LoggedIn
<1>3. PICK job \in JobsOrNone : job = IF conn[c].pending # None THEN conn[c].pending ELSE j
    BY <1>1 DEF Shape, Client, JobsOrNone
<1>4. /\ conn' = [conn EXCEPT ![c].step = IF job = None THEN "wait" ELSE "job"]
      /\ IF job = None THEN UNCHANGED calls ELSE Enqueue(job, c, "login")
      /\ HistoryIdle /\ alloc' = alloc /\ chunk' = chunk /\ m' = m /\ native' = native
    BY <1>3 DEF LoggedIn
<1>5. Stays
    <2>1. PICK f \in [Conns -> Client] : f = conn
        BY <1>1 DEF Shape
    <2>2. PICK to \in {"wait", "job"} : conn' = [f EXCEPT ![c].step = to]
        BY <1>4, <2>1
    <2>3. [f EXCEPT ![c].step = to] \in [Conns -> Client]
        BY Zenon DEF Client
    <2>4. ASSUME NEW d \in Conns
          PROVE  /\ conn'[d].socket = f[d].socket /\ conn'[d].heard = f[d].heard /\ conn'[d].deaf = f[d].deaf
                 /\ conn'[d].step = IF d = c THEN to ELSE f[d].step
        <3>1. f[d] \in Client
            OBVIOUS
        <3>2. conn'[d] = IF d = c THEN [f[d] EXCEPT !.step = to] ELSE f[d]
            BY <2>2
        <3>. QED BY <3>1, <3>2 DEF Client
    <2>. QED BY <1>2, <1>4, <2>1, <2>2, <2>3, <2>4 DEF Stays
<1>6. PICK t \in Seq(Taken) : calls' = calls \o t /\ \A k \in DOMAIN t : t[k].of = c
    <2>1. CASE job = None
        <3>1. calls' = calls \o <<>> /\ <<>> \in Seq(Taken) /\ DOMAIN <<>> = {}
            BY <1>1, <1>4, <2>1 DEF Shape
        <3>. QED BY <3>1
    <2>2. CASE job # None
        <3>1. PICK y \in Taken : y = [job |-> job, of |-> c, by |-> "login"]
            BY <1>3, <2>2 DEF Taken, JobsOrNone
        <3>2. <<y>> \in Seq(Taken) /\ \A k \in DOMAIN <<y>> : <<y>>[k].of = c
            BY <3>1
        <3>3. calls' = calls \o <<y>>
            BY <1>1, <1>4, <2>2, <3>1 DEF Shape, Enqueue
        <3>. QED BY <3>2, <3>3
    <2>. QED BY <2>1, <2>2
<1>7. /\ Heeded /\ calls' \in Seq(Taken)
      /\ calls # <<>> => calls' # <<>> /\ calls'[1] = calls[1]
    BY <1>1, <1>2, <1>6, CallsJoined
<1>. QED BY <1>4, <1>5, <1>7, MoreCalls

\* The pool pushes a job: it is taken, or waits for the login.
LEMMA PushKeeps ==
    ASSUME MInv, NEW c \in Conns, NEW j \in Jobs, Push(c, j)
    PROVE  MInv'
<1>1. Shape /\ LinksFit
    BY DEF MInv
<1>2. /\ conn[c].socket = "open" /\ ~ conn[c].deaf /\ m.stratum = c
      /\ conn[c].step = "wait" => conn[c].heard
    BY <1>1, HeardInStep DEF Push
<1>3. PICK login \in Seq(Taken) :
        /\ login = IF conn[c].step = "wait" THEN <<[job |-> j, of |-> c, by |-> "login"]>> ELSE <<>>
        /\ \A k \in DOMAIN login : login[k].of = c /\ conn[c].heard
    <2>1. CASE conn[c].step = "wait"
        <3>1. PICK y \in Taken : y = [job |-> j, of |-> c, by |-> "login"]
            BY DEF Taken
        <3>2. <<y>> \in Seq(Taken) /\ \A k \in DOMAIN <<y>> : <<y>>[k].of = c
            BY <3>1
        <3>. QED BY <1>2, <2>1, <3>1, <3>2
    <2>2. CASE conn[c].step # "wait"
        <3>1. <<>> \in Seq(Taken) /\ DOMAIN <<>> = {}
            OBVIOUS
        <3>. QED BY <2>2, <3>1
    <2>. QED BY <2>1, <2>2
<1>4. PICK event \in Seq(Taken) :
        /\ event = IF Hears(c) THEN <<[job |-> j, of |-> c, by |-> "push"]>> ELSE <<>>
        /\ \A k \in DOMAIN event : event[k].of = c /\ conn[c].heard
    <2>1. CASE Hears(c)
        <3>1. PICK y \in Taken : y = [job |-> j, of |-> c, by |-> "push"]
            BY DEF Taken
        <3>2. <<y>> \in Seq(Taken) /\ \A k \in DOMAIN <<y>> : <<y>>[k].of = c
            BY <3>1
        <3>. QED BY <2>1, <3>1, <3>2 DEF Hears
    <2>2. CASE ~ Hears(c)
        <3>1. <<>> \in Seq(Taken) /\ DOMAIN <<>> = {}
            OBVIOUS
        <3>. QED BY <2>2, <3>1
    <2>. QED BY <2>1, <2>2
<1>5. PICK t \in Seq(Taken) : calls' = calls \o t /\ \A k \in DOMAIN t : t[k].of = c /\ conn[c].heard
    <2>1. calls' = (calls \o event) \o login
        BY <1>3, <1>4 DEF Push
    <2>2. calls' = calls \o (event \o login)
        BY <1>1, <2>1 DEF Shape
    <2>3. /\ event \o login \in Seq(Taken)
          /\ \A i \in DOMAIN (event \o login) :
                \/ i \in DOMAIN event /\ (event \o login)[i] = event[i]
                \/ \E k \in DOMAIN login : (event \o login)[i] = login[k]
        BY JoinedCalls
    <2>4. PICK t : t = event \o login
        OBVIOUS
    <2>5. \A i \in DOMAIN t : (i \in DOMAIN event /\ t[i] = event[i]) \/ \E k \in DOMAIN login : t[i] = login[k]
        BY <2>3, <2>4
    <2>6. \A i \in DOMAIN t : t[i].of = c /\ conn[c].heard
        BY <1>3, <1>4, <2>5
    <2>. QED BY <2>2, <2>3, <2>4, <2>6
<1>6. t # <<>> => conn[c].heard
    BY <1>5
<1>7. /\ Heeded /\ calls' \in Seq(Taken)
      /\ calls # <<>> => calls' # <<>> /\ calls'[1] = calls[1]
    BY <1>1, <1>2, <1>5, <1>6, CallsJoined
<1>8. HistoryIdle /\ alloc' = alloc /\ chunk' = chunk /\ m' = m /\ native' = native
    BY DEF Push
<1>9. Stays
    <2>1. PICK f \in [Conns -> Client] : f = conn
        BY <1>1 DEF Shape
    <2>2. conn' = [f EXCEPT ![c].pending = j, ![c].step = IF @ = "wait" THEN "job" ELSE @]
        BY <2>1 DEF Push
    <2>3. j \in JobsOrNone
        BY DEF JobsOrNone
    <2>4. conn' \in [Conns -> Client]
        <3>1. PICK k \in Client : k = f[c]
            OBVIOUS
        <3>2. PICK to \in {"new", "threads", "login", "wait", "job", "done"} :
                    to = IF k.step = "wait" THEN "job" ELSE k.step
            BY DEF Client
        <3>3. PICK l \in Client : l = [k EXCEPT !.pending = j, !.step = to]
            BY <2>3, Zenon DEF Client
        <3>4. conn' = [f EXCEPT ![c] = l]
            BY <2>2, <3>1, <3>2, <3>3
        <3>. QED BY <3>4
    <2>5. ASSUME NEW d \in Conns
          PROVE  /\ conn'[d].socket = f[d].socket /\ conn'[d].heard = f[d].heard /\ conn'[d].deaf = f[d].deaf
                 /\ conn'[d].step \in {f[d].step, "job"} /\ (f[d].step # "wait" => conn'[d].step = f[d].step)
        <3>1. f[d] \in Client
            OBVIOUS
        <3>2. CASE d = c
            <4>1. conn'[d] = [f[d] EXCEPT !.pending = j, !.step = IF f[d].step = "wait" THEN "job" ELSE f[d].step]
                BY <2>2, <3>2
            <4>. QED BY <3>1, <4>1 DEF Client
        <3>3. CASE d # c
            <4>1. conn'[d] = f[d]
                BY <2>2, <3>3
            <4>. QED BY <4>1
        <3>. QED BY <3>2, <3>3
    <2>. QED BY <1>8, <2>1, <2>4, <2>5 DEF Stays
<1>. QED BY <1>7, <1>8, <1>9, MoreCalls

\* The answer of get_chunk carries a job, which is taken like any other.
LEMMA AnsweredJobKeeps ==
    ASSUME MInv, NEW j \in Jobs, AnsweredJob(j)
    PROVE  MInv'
<1>1. Shape /\ LinksFit /\ Asked
    BY DEF MInv
<1>2. PICK c \in Conns : c = chunk.of /\ (~ late => conn[c].heard /\ ~ conn[c].deaf)
    BY <1>1, Fields DEF Asked, AnsweredJob
<1>3. PICK y \in Taken : y = [job |-> j, of |-> c, by |-> "chunk"]
    BY DEF Taken
<1>4. <<y>> \in Seq(Taken) /\ \A k \in DOMAIN <<y>> : <<y>>[k].of = c /\ <<y>>[k].by # "login"
    BY <1>3
<1>5. calls' = calls \o <<y>>
    <2>1. PICK s \in Seq(Taken) : s = calls
        BY <1>1 DEF Shape
    <2>2. calls' = Append(s, y)
        BY <1>2, <1>3, <2>1 DEF AnsweredJob, Enqueue
    <2>3. Append(s, y) = s \o <<y>>
        OBVIOUS
    <2>. QED BY <2>1, <2>2, <2>3
<1>6. PICK t \in Seq(Taken) : calls' = calls \o t /\ \A k \in DOMAIN t : t[k].of = c /\ t[k].by # "login"
    BY <1>4, <1>5
<1>7. /\ Heeded /\ calls' \in Seq(Taken)
      /\ calls # <<>> => calls' # <<>> /\ calls'[1] = calls[1]
    BY <1>1, <1>2, <1>6, CallsJoined
<1>8. HistoryIdle /\ alloc' = alloc /\ chunk' = chunk /\ m' = m /\ native' = native /\ conn' = conn
    BY DEF AnsweredJob
<1>9. Stays
    BY <1>1, <1>8 DEF Stays, Shape
<1>. QED BY <1>7, <1>8, <1>9, MoreCalls

-----------------------------------------------------------------------------
(* reconnect makes a connection.                                           *)

\* A connection is on its way, or NMiner begins to listen to one: all else
\* stays, or the versions are forgotten.
Moves ==
    /\ m' \in Member /\ conn' \in [Conns -> Client]
    /\ \A d \in Conns : (conn[d].heard => conn'[d].heard) /\ conn'[d].deaf = conn[d].deaf
    /\ m'.job = m.job /\ m'.seed = m.seed /\ m'.gen = m.gen /\ (m'.armed <=> m.armed)
    /\ m'.stratum = m.stratum \/ m.stratum = 0
    /\ \/ m'.versions = m.versions /\ m'.sent = m.sent /\ (Current' <=> Current)
       \/ m'.versions = <<>> /\ m'.sent = 0 /\ ~ Current
    /\ CallsIdle /\ HistoryIdle /\ chunk' = chunk /\ native' = native

\* Under such a step NMiner may have forgotten the versions, and nothing else.
LEMMA MovesKeep ==
    ASSUME MInv, Moves
    PROVE  Shape' /\ CallsHeard' /\ Asked' /\ Agree' /\ Mining' /\ Hashing' /\ Polls' /\ Known'
<1>1. /\ Shape /\ LinksFit /\ Reached /\ CallsHeard /\ Asked
      /\ Agree /\ Mining /\ Hashing /\ Polls /\ Known
    BY DEF MInv
<1>2. /\ calls' = calls /\ alloc' = alloc /\ queued' = queued /\ reused' = reused /\ late' = late
      /\ chunk' = chunk /\ native' = native
      /\ m'.job = m.job /\ m'.seed = m.seed /\ m'.gen = m.gen /\ (m'.armed <=> m.armed)
      /\ m'.stratum = m.stratum \/ m.stratum = 0
      /\ \A d \in Conns : (conn[d].heard => conn'[d].heard) /\ conn'[d].deaf = conn[d].deaf
    BY DEF Moves, CallsIdle, HistoryIdle
<1>3. \/ m'.versions = m.versions /\ m'.sent = m.sent /\ (Current' <=> Current)
      \/ m'.versions = <<>> /\ m'.sent = 0 /\ ~ Current
    BY DEF Moves
<1>4. Shape'
    BY <1>1, <1>2 DEF Shape, Moves
<1>5. CallsHeard'
    <2>1. ASSUME NEW i \in DOMAIN calls
          PROVE  /\ calls[i].by = "login" => conn'[calls[i].of].heard
                 /\ ~ late => conn'[calls[i].of].heard /\ ~ conn'[calls[i].of].deaf
        <3>1. PICK x \in Conns : x = calls[i].of
            BY <1>1, Fields
        <3>. QED BY <1>1, <1>2, <3>1 DEF CallsHeard
    <2>. QED BY <1>2, <2>1 DEF CallsHeard
<1>6. ~ late /\ ~ Current => ~ m.armed
    BY <1>1 DEF Asked
<1>7. Asked'
    <2>1. chunk.of \in Conns \union {0}
        BY <1>1, Fields
    <2>2. ~ late => (m'.armed => Current')
        BY <1>1, <1>2, <1>3, <1>6 DEF Asked
    <2>3. ~ late /\ chunk.of # 0 => conn'[chunk.of].heard /\ ~ conn'[chunk.of].deaf
        BY <1>1, <1>2, <2>1 DEF Asked
    <2>4. ~ late /\ chunk.of # 0 /\ chunk.gen = m.gen => m'.stratum = chunk.of
        BY <1>1, <1>2 DEF Asked
    <2>5. chunk.of = 0 => chunk = NoChunk
        BY <1>1 DEF Asked
    <2>. QED BY <1>2, <2>2, <2>3, <2>4, <2>5 DEF Asked
<1>8. Agree'
    BY <1>1, <1>2 DEF Agree
<1>9. Mining'
    BY <1>1, <1>2, <1>3 DEF Mining
<1>10. Hashing' /\ Polls'
    BY <1>1, <1>2, <1>3 DEF Hashing, Polls
<1>11. Known'
    <2>1. CASE m'.versions = m.versions /\ m'.sent = m.sent /\ (Current' <=> Current)
        <3>1. Current => m'.stratum = m.stratum
            BY <1>2 DEF Current
        <3>. QED BY <1>1, <1>2, <2>1, <3>1 DEF Known, LastVersion
    <2>2. CASE m'.versions = <<>> /\ m'.sent = 0 /\ ~ Current
        <3>1. native.version \in Nat
            BY <1>1, Fields, Numbers
        <3>2. Rows(<<>>, 0, native.version)
            BY <3>1, Numbers DEF Rows
        <3>. QED BY <1>2, <2>2, <3>2 DEF Known
    <2>. QED BY <1>3, <2>1, <2>2
<1>. QED BY <1>4, <1>5, <1>7, <1>8, <1>9, <1>10, <1>11

\* The timer fires: no connection is open, and none is on its way.
LEMMA ReconnectKeeps ==
    ASSUME MInv, NEW c \in Conns, Reconnect(c)
    PROVE  MInv'
<1>1. Shape /\ LinksFit /\ m.timer /\ m.stratum = 0 /\ ~ m.closed /\ m \in Member
      /\ conn[c].socket = "new" /\ conn \in [Conns -> Client]
    BY DEF MInv, LinksFit, Reconnect, Shape
<1>2. /\ m' = [m EXCEPT !.timer = FALSE] /\ conn' = [conn EXCEPT ![c].socket = "connecting"]
      /\ CallsIdle /\ HistoryIdle /\ chunk' = chunk /\ native' = native
    BY DEF Reconnect
<1>3. m' \in Member /\ conn' \in [Conns -> Client]
    <2>1. m' \in Member
        BY <1>1, <1>2, Zenon DEF Member
    <2>2. conn' \in [Conns -> Client]
        BY <1>1, <1>2, Zenon DEF Client
    <2>. QED BY <2>1, <2>2
<1>4. /\ ~ m'.timer /\ m'.closed = m.closed /\ m'.stratum = 0 /\ m'.job = m.job /\ m'.seed = m.seed
      /\ m'.versions = m.versions /\ m'.sent = m.sent /\ m'.gen = m.gen /\ (m'.armed <=> m.armed)
    BY <1>1, <1>2 DEF Member
<1>5. /\ conn'[c].socket = "connecting" /\ conn'[c].heard = conn[c].heard
      /\ conn'[c].deaf = conn[c].deaf /\ conn'[c].step = conn[c].step
      /\ \A d \in Conns \ {c} : conn'[d] = conn[d]
    BY <1>1, <1>2 DEF Client
<1>6. ~ Current /\ ~ Current'
    BY <1>1, <1>4 DEF Current
<1>7. Moves
    BY <1>1, <1>2, <1>3, <1>4, <1>5, <1>6 DEF Moves
<1>8. LinksFit'
    <2>1. LinkOK(c, conn[c])
        BY <1>1 DEF LinksFit
    <2>2. \A d \in Conns : conn[d].socket # "connecting"
        BY <1>1 DEF LinksFit, LinkOK
    <2>3. \A d \in Conns : conn'[d].socket = "connecting" => d = c
        BY <1>5, <2>2
    <2>4. LinkOK(c, conn[c])'
        BY <1>1, <1>4, <1>5, <2>1, <2>3 DEF LinkOK
    <2>5. ASSUME NEW d \in Conns \ {c}
          PROVE  LinkOK(d, conn[d])'
        <3>1. LinkOK(d, conn[d]) /\ conn'[d] = conn[d] /\ conn[d].socket # "connecting"
            BY <1>1, <1>5, <2>2 DEF LinksFit
        <3>. QED BY <1>1, <1>4, <3>1 DEF LinkOK
    <2>. QED BY <1>4, <2>4, <2>5 DEF LinksFit
<1>9. Reached'
    BY <1>5 DEF Reached
<1>. QED BY <1>7, <1>8, <1>9, MovesKeep DEF MInv

\* connect() fails: the timer is set again, unless NMiner was closed.
LEMMA ConnectFailsKeeps ==
    ASSUME MInv, NEW c \in Conns, ConnectFails(c)
    PROVE  MInv'
<1>1. Shape /\ LinksFit /\ m \in Member /\ conn \in [Conns -> Client] /\ conn[c].socket = "connecting"
    BY DEF MInv, ConnectFails, Shape
<1>2. LinkOK(c, conn[c])
    BY <1>1 DEF LinksFit
<1>3. m.stratum = 0 /\ ~ m.timer /\ (\A d \in Conns : conn[d].socket = "connecting" => d = c)
      /\ conn[c].step = "new" /\ ~ conn[c].heard
    BY <1>1, <1>2 DEF LinkOK
<1>4. PICK t \in BOOLEAN : t <=> ~ m.closed
    <2>1. CASE m.closed
        BY <2>1
    <2>2. CASE ~ m.closed
        BY <2>2
    <2>. QED BY <2>1, <2>2
<1>5. /\ m' = [m EXCEPT !.timer = t] /\ conn' = [conn EXCEPT ![c].socket = "closed"]
      /\ CallsIdle /\ HistoryIdle /\ chunk' = chunk /\ native' = native
    BY <1>1, <1>4 DEF ConnectFails, Rescheduled, Member
<1>6. m' \in Member /\ conn' \in [Conns -> Client]
    <2>1. m' \in Member
        BY <1>1, <1>5, Zenon DEF Member
    <2>2. conn' \in [Conns -> Client]
        BY <1>1, <1>5, Zenon DEF Client
    <2>. QED BY <2>1, <2>2
<1>7. /\ (m'.timer <=> ~ m.closed) /\ m'.closed = m.closed /\ m'.stratum = 0 /\ m'.job = m.job /\ m'.seed = m.seed
      /\ m'.versions = m.versions /\ m'.sent = m.sent /\ m'.gen = m.gen /\ (m'.armed <=> m.armed)
    BY <1>1, <1>3, <1>4, <1>5 DEF Member
<1>8. /\ conn'[c].socket = "closed" /\ conn'[c].heard = conn[c].heard
      /\ conn'[c].deaf = conn[c].deaf /\ conn'[c].step = conn[c].step
      /\ \A d \in Conns \ {c} : conn'[d] = conn[d]
    BY <1>1, <1>5 DEF Client
<1>9. ~ Current /\ ~ Current'
    BY <1>3, <1>7 DEF Current
<1>10. Moves
    BY <1>1, <1>3, <1>5, <1>6, <1>7, <1>8, <1>9 DEF Moves
<1>11. LinksFit'
    <2>1. LinkOK(c, conn[c])'
        BY <1>2, <1>3, <1>7, <1>8 DEF LinkOK
    <2>2. ASSUME NEW d \in Conns \ {c}
          PROVE  LinkOK(d, conn[d])'
        <3>1. LinkOK(d, conn[d]) /\ conn'[d] = conn[d] /\ conn[d].socket # "connecting"
            BY <1>1, <1>3, <1>8 DEF LinksFit
        <3>. QED BY <1>3, <1>7, <3>1 DEF LinkOK
    <2>. QED BY <1>7, <2>1, <2>2 DEF LinksFit
<1>12. Reached'
    BY <1>7 DEF Reached
<1>. QED BY <1>10, <1>11, <1>12, MovesKeep DEF MInv

\* connect() returns.
LEMMA ConnectedKeeps ==
    ASSUME MInv, NEW c \in Conns, Connected(c)
    PROVE  MInv'
<1>1. Shape /\ LinksFit /\ m \in Member /\ conn \in [Conns -> Client] /\ conn[c].socket = "connecting"
    BY DEF MInv, Connected, Shape
<1>2. LinkOK(c, conn[c]) /\ c # 0
    BY <1>1, Numbers DEF LinksFit
<1>3. m.stratum = 0 /\ ~ m.timer /\ (\A d \in Conns : conn[d].socket = "connecting" => d = c)
      /\ conn[c].step = "new" /\ ~ conn[c].heard /\ ~ conn[c].deaf
    BY <1>1, <1>2 DEF LinkOK
<1>4. CallsIdle /\ HistoryIdle /\ chunk' = chunk /\ native' = native
    BY DEF Connected
<1>5. /\ m' \in Member /\ conn' \in [Conns -> Client]
      /\ m'.closed = m.closed /\ m'.timer = m.timer /\ m'.stratum = c /\ m'.job = m.job /\ m'.seed = m.seed
      /\ m'.gen = m.gen /\ (m'.armed <=> m.armed)
      /\ \A d \in Conns \ {c} : conn'[d] = conn[d]
      /\ conn'[c].deaf = conn[c].deaf
      /\ \/ /\ m.closed /\ conn'[c].socket = "closed" /\ ~ conn'[c].heard /\ conn'[c].step = "done"
            /\ m'.versions = m.versions /\ m'.sent = m.sent
         \/ /\ ~ m.closed /\ conn'[c].socket = "open" /\ ~ conn'[c].heard /\ conn'[c].step = "threads"
            /\ m'.versions = m.versions /\ m'.sent = m.sent
         \/ /\ ~ m.closed /\ conn'[c].socket = "open" /\ conn'[c].heard /\ conn'[c].step = "login"
            /\ m'.versions = <<>> /\ m'.sent = 0
    <2>1. PICK k \in Client : k = conn[c]
        BY <1>1
    <2>2. CASE m.closed
        <3>1. /\ m' = [m EXCEPT !.stratum = c]
              /\ conn' = [conn EXCEPT ![c] = [k EXCEPT !.socket = "closed", !.step = "done"]]
            BY <2>1, <2>2 DEF Connected
        <3>2. m' \in Member
            BY <1>1, <3>1, Zenon DEF Member
        <3>3. PICK l \in Client : l = [k EXCEPT !.socket = "closed", !.step = "done"]
            BY Zenon DEF Client
        <3>4. conn' \in [Conns -> Client] /\ conn'[c] = l /\ \A d \in Conns \ {c} : conn'[d] = conn[d]
            BY <1>1, <3>1, <3>3
        <3>5. l.socket = "closed" /\ l.step = "done" /\ l.heard = k.heard /\ l.deaf = k.deaf
            BY <3>3 DEF Client
        <3>6. /\ m'.closed = m.closed /\ m'.timer = m.timer /\ m'.stratum = c /\ m'.job = m.job /\ m'.seed = m.seed
              /\ m'.gen = m.gen /\ (m'.armed <=> m.armed) /\ m'.versions = m.versions /\ m'.sent = m.sent
            BY <1>1, <3>1 DEF Member
        <3>. QED BY <1>3, <2>1, <2>2, <3>2, <3>4, <3>5, <3>6
    <2>3. CASE ~ m.closed /\ Slow
        <3>1. /\ m' = [m EXCEPT !.stratum = c]
              /\ conn' = [conn EXCEPT ![c] = [k EXCEPT !.socket = "open", !.step = "threads"]]
            BY <2>1, <2>3 DEF Connected
        <3>2. m' \in Member
            BY <1>1, <3>1, Zenon DEF Member
        <3>3. PICK l \in Client : l = [k EXCEPT !.socket = "open", !.step = "threads"]
            BY Zenon DEF Client
        <3>4. conn' \in [Conns -> Client] /\ conn'[c] = l /\ \A d \in Conns \ {c} : conn'[d] = conn[d]
            BY <1>1, <3>1, <3>3
        <3>5. l.socket = "open" /\ l.step = "threads" /\ l.heard = k.heard /\ l.deaf = k.deaf
            BY <3>3 DEF Client
        <3>6. /\ m'.closed = m.closed /\ m'.timer = m.timer /\ m'.stratum = c /\ m'.job = m.job /\ m'.seed = m.seed
              /\ m'.gen = m.gen /\ (m'.armed <=> m.armed) /\ m'.versions = m.versions /\ m'.sent = m.sent
            BY <1>1, <3>1 DEF Member
        <3>. QED BY <1>3, <2>1, <2>3, <3>2, <3>4, <3>5, <3>6
    <2>4. CASE ~ m.closed /\ ~ Slow
        <3>1. /\ m' = Forgetting([m EXCEPT !.stratum = c])
              /\ conn' = [conn EXCEPT ![c] = LoggingIn([k EXCEPT !.socket = "open", !.step = "threads"])]
            BY <2>1, <2>4 DEF Connected
        <3>2. PICK n \in Member : n = [m EXCEPT !.stratum = c]
            BY <1>1, Zenon DEF Member
        <3>3. m' = [n EXCEPT !.versions = <<>>, !.sent = 0]
            BY <3>1, <3>2 DEF Forgetting
        <3>4. <<>> \in Seq(Version) /\ 0 \in Nat
            OBVIOUS
        <3>5. m' \in Member
            BY <3>2, <3>3, <3>4, Zenon DEF Member
        <3>6. PICK h \in Client : h = [k EXCEPT !.socket = "open", !.step = "threads"]
            BY Zenon DEF Client
        <3>7. PICK l \in Client : l = [h EXCEPT !.heard = TRUE, !.step = "login"]
            BY Zenon DEF Client
        <3>8. conn' \in [Conns -> Client] /\ conn'[c] = l /\ \A d \in Conns \ {c} : conn'[d] = conn[d]
            BY <1>1, <3>1, <3>6, <3>7 DEF LoggingIn
        <3>9. l.socket = "open" /\ l.step = "login" /\ l.heard /\ l.deaf = k.deaf
            BY <3>6, <3>7 DEF Client
        <3>10. /\ m'.closed = m.closed /\ m'.timer = m.timer /\ m'.stratum = c /\ m'.job = m.job /\ m'.seed = m.seed
               /\ m'.gen = m.gen /\ (m'.armed <=> m.armed) /\ m'.versions = <<>> /\ m'.sent = 0
            BY <1>1, <3>2, <3>3 DEF Member
        <3>. QED BY <2>1, <2>4, <3>5, <3>8, <3>9, <3>10
    <2>. QED BY <2>2, <2>3, <2>4
<1>6. ~ Current
    BY <1>3 DEF Current
<1>7. m'.versions = <<>> \/ ~ Current'
    BY <1>5 DEF Current
<1>8. Moves
    <2>1. \A d \in Conns : (conn[d].heard => conn'[d].heard) /\ conn'[d].deaf = conn[d].deaf
        BY <1>3, <1>5
    <2>2. \/ m'.versions = m.versions /\ m'.sent = m.sent /\ (Current' <=> Current)
          \/ m'.versions = <<>> /\ m'.sent = 0 /\ ~ Current
        BY <1>5, <1>6 DEF Current
    <2>. QED BY <1>3, <1>4, <1>5, <2>1, <2>2 DEF Moves
<1>9. LinksFit'
    <2>1. LinkOK(c, conn[c])'
        BY <1>3, <1>5 DEF LinkOK
    <2>2. ASSUME NEW d \in Conns \ {c}
          PROVE  LinkOK(d, conn[d])'
        <3>1. LinkOK(d, conn[d]) /\ conn'[d] = conn[d] /\ conn[d].socket # "connecting" /\ d # 0
            BY <1>1, <1>3, <1>5, Numbers DEF LinksFit
        <3>. QED BY <1>3, <1>5, <3>1 DEF LinkOK
    <2>. QED BY <1>3, <1>5, <2>1, <2>2 DEF LinksFit
<1>10. Reached'
    BY <1>2, <1>5 DEF Reached
<1>. QED BY <1>8, <1>9, <1>10, MovesKeep DEF MInv

\* MaxThreads returns: NMiner listens from now on, to whatever is left.
LEMMA ThreadsCountedKeeps ==
    ASSUME MInv, NEW c \in Conns, ThreadsCounted(c)
    PROVE  MInv'
<1>1. Shape /\ LinksFit /\ Reached /\ m \in Member /\ conn \in [Conns -> Client] /\ conn[c].step = "threads"
    BY DEF MInv, ThreadsCounted, Shape
<1>2. \A d \in Conns : LinkOK(d, conn[d])
    BY <1>1 DEF LinksFit
<1>3. /\ ~ conn[c].heard /\ (m.stratum = c \/ m.closed) /\ (conn[c].socket = "closed" => conn[c].deaf)
      /\ conn[c].socket \in {"open", "closed"}
    <2>1. conn[c].socket \in {"new", "connecting", "open", "closed"}
        BY <1>1, Fields
    <2>. QED BY <1>1, <1>2, <2>1 DEF LinkOK
<1>4. CallsIdle /\ HistoryIdle /\ chunk' = chunk /\ native' = native /\ m' = Forgetting(m)
    BY DEF ThreadsCounted
<1>5. m' \in Member
    <2>1. <<>> \in Seq(Version) /\ 0 \in Nat
        OBVIOUS
    <2>2. m' = [m EXCEPT !.versions = <<>>, !.sent = 0]
        BY <1>4 DEF Forgetting
    <2>. QED BY <1>1, <2>1, <2>2, Zenon DEF Member
<1>6. /\ m'.closed = m.closed /\ m'.timer = m.timer /\ m'.stratum = m.stratum /\ m'.job = m.job /\ m'.seed = m.seed
      /\ m'.gen = m.gen /\ (m'.armed <=> m.armed) /\ m'.versions = <<>> /\ m'.sent = 0
    BY <1>1, <1>4 DEF Forgetting, Member
<1>7. PICK to \in {"login", "done"} :
        /\ to = IF conn[c].socket = "open" THEN "login" ELSE "done"
        /\ conn' = [conn EXCEPT ![c] = [conn[c] EXCEPT !.heard = TRUE, !.step = to]]
    BY <1>1 DEF ThreadsCounted, LoggingIn
<1>8. PICK k \in Client : k = [conn[c] EXCEPT !.heard = TRUE, !.step = to]
    <2>1. PICK h \in Client : h = conn[c]
        BY <1>1
    <2>2. [h EXCEPT !.heard = TRUE, !.step = to] \in Client
        BY Zenon DEF Client
    <2>. QED BY <2>1, <2>2
<1>9. k.heard /\ k.socket = conn[c].socket /\ k.deaf = conn[c].deaf /\ k.step = to
    BY <1>1, <1>8 DEF Client
<1>10. conn' \in [Conns -> Client] /\ conn'[c] = k /\ \A d \in Conns \ {c} : conn'[d] = conn[d]
    BY <1>1, <1>7, <1>8
<1>11. ~ Current
    <2>1. \A d \in Conns : conn[d].socket = "open" => m.stratum = d /\ ~ m.closed
        BY <1>2 DEF LinkOK
    <2>. QED BY <1>1, <1>3, <2>1, Fields DEF Current
<1>12. Moves
    BY <1>3, <1>4, <1>5, <1>6, <1>9, <1>10, <1>11 DEF Moves
<1>13. LinksFit'
    <2>1. LinkOK(c, conn[c])'
        BY <1>1, <1>2, <1>3, <1>6, <1>7, <1>9, <1>10 DEF LinkOK
    <2>2. ASSUME NEW d \in Conns \ {c}
          PROVE  LinkOK(d, conn[d])'
        <3>1. LinkOK(d, conn[d]) /\ conn'[d] = conn[d]
            BY <1>2, <1>10
        <3>2. conn[d].socket = "connecting" => \A e \in Conns : conn'[e].socket = "connecting" => e = d
            BY <1>3, <1>9, <1>10, <3>1 DEF LinkOK
        <3>. QED BY <1>6, <3>1, <3>2 DEF LinkOK
    <2>. QED BY <1>1, <1>6, <2>1, <2>2 DEF LinksFit
<1>14. Reached'
    <2>1. \A d \in Conns : conn'[d].socket = conn[d].socket /\ conn'[d].deaf = conn[d].deaf
        BY <1>9, <1>10
    <2>. QED BY <1>1, <1>6, <2>1, Fields DEF Reached
<1>. QED BY <1>12, <1>13, <1>14, MovesKeep DEF MInv

-----------------------------------------------------------------------------
(* NMiner is closed, and the poll.                                         *)

\* close(): no connection, no timer and no poll is left.
LEMMA CloseKeeps ==
    ASSUME MInv, Close
    PROVE  MInv'
<1>1. /\ Shape /\ LinksFit /\ Reached /\ CallsHeard /\ Asked
      /\ Agree /\ Mining /\ Hashing /\ Polls /\ Known
    BY DEF MInv
<1>2. /\ ~ m.closed /\ CallsIdle /\ HistoryIdle
      /\ m' = PollStopped([m EXCEPT !.closed = TRUE, !.timer = FALSE, !.stratum = 0])
      /\ native' = [native EXCEPT !.active = FALSE]
    BY DEF Close, Stopped
<1>3. calls' = calls /\ alloc' = alloc /\ queued' = queued /\ reused' = reused /\ late' = late
    BY <1>2 DEF CallsIdle, HistoryIdle
<1>4. m \in Member /\ native \in Code /\ conn \in [Conns -> Client] /\ m.gen \in Nat
    BY <1>1, Fields DEF Shape
<1>5. m' = [m EXCEPT !.closed = TRUE, !.timer = FALSE, !.stratum = 0, !.gen = m.gen + 1, !.armed = FALSE]
    BY <1>2, <1>4 DEF PollStopped, Member
<1>6. m' \in Member
    <2>1. m.gen + 1 \in Nat /\ 0 \in Conns \union {0}
        BY <1>4
    <2>2. PICK g \in Nat : g = m.gen + 1
        BY <2>1
    <2>3. m' = [m EXCEPT !.closed = TRUE, !.timer = FALSE, !.stratum = 0, !.gen = g, !.armed = FALSE]
        BY <1>5, <2>2
    <2>. QED BY <1>4, <2>1, <2>3, Zenon DEF Member
<1>7. /\ m'.closed /\ ~ m'.timer /\ m'.stratum = 0 /\ m'.job = m.job /\ m'.seed = m.seed
      /\ m'.versions = m.versions /\ m'.sent = m.sent /\ m'.gen = m.gen + 1 /\ ~ m'.armed
    BY <1>4, <1>5 DEF Member
<1>8. /\ native' \in Code /\ ~ native'.active /\ native'.version = native.version
      /\ native'.job = native.job /\ native'.seed = native.seed
    BY <1>2, <1>4 DEF Code
<1>9. chunk' \in {chunk, NoChunk} /\ NoChunk \in Question
    BY DEF Close, Rejects, NoChunk, Question, JobsOrNone
<1>10. /\ conn' \in [Conns -> Client]
       /\ \A d \in Conns :
            /\ conn'[d].heard = conn[d].heard
            /\ \/ d # m.stratum /\ conn'[d] = conn[d]
               \/ /\ conn'[d].socket = "closed" /\ conn'[d].deaf = (conn[d].step = "threads")
                  /\ conn'[d].step \notin {"login", "wait"}
                  /\ conn[d].step = "threads" <=> conn'[d].step = "threads"
                  /\ conn[d].step = "new" <=> conn'[d].step = "new"
    <2>1. CASE m.stratum = 0
        <3>1. conn' = conn
            BY <2>1 DEF Close
        <3>. QED BY <1>4, <2>1, <3>1, Numbers
    <2>2. CASE m.stratum # 0
        <3>1. PICK c \in Conns : c = m.stratum
            BY <1>1, <2>2, Fields
        <3>2. conn' = Down(c)
            BY <2>2, <3>1 DEF Close
        <3>3. /\ Down(c) \in [Conns -> Client]
              /\ Down(c)[c].socket = "closed" /\ Down(c)[c].heard = conn[c].heard
              /\ Down(c)[c].deaf = (conn[c].step = "threads")
              /\ Down(c)[c].step = IF conn[c].step \in {"login", "wait"} THEN "done" ELSE conn[c].step
              /\ \A d \in Conns : d # c => Down(c)[d] = conn[d]
            BY <1>4, DownIs
        <3>4. /\ conn' \in [Conns -> Client]
              /\ conn'[c].socket = "closed" /\ conn'[c].heard = conn[c].heard
              /\ conn'[c].deaf = (conn[c].step = "threads")
              /\ conn'[c].step = IF conn[c].step \in {"login", "wait"} THEN "done" ELSE conn[c].step
              /\ \A d \in Conns : d # c => conn'[d] = conn[d]
            BY <3>2, <3>3
        <3>5. /\ conn'[c].step \notin {"login", "wait"}
              /\ conn[c].step = "threads" <=> conn'[c].step = "threads"
              /\ conn[c].step = "new" <=> conn'[c].step = "new"
            BY <3>4
        <3>. QED BY <3>1, <3>4, <3>5
    <2>. QED BY <2>1, <2>2
<1>11. \A d \in Conns : LinkOK(d, conn[d]) /\ d # 0 /\ conn[d].deaf \in BOOLEAN
    BY <1>1, Numbers, Fields DEF LinksFit
<1>12. ~ Current'
    BY <1>7 DEF Current
<1>13. Shape'
    BY <1>1, <1>3, <1>6, <1>8, <1>9, <1>10 DEF Shape
<1>14. LinksFit'
    <2>1. ASSUME NEW d \in Conns
          PROVE  LinkOK(d, conn[d])'
        <3>1. CASE d # m.stratum /\ conn'[d] = conn[d]
            <4>1. LinkOK(d, conn[d]) /\ conn[d].socket # "open" /\ conn[d].step \notin {"login", "wait"}
                BY <1>11, <3>1 DEF LinkOK
            <4>2. conn[d].step # "threads"
                BY <1>2, <3>1, <4>1 DEF LinkOK
            <4>3. conn[d].socket = "connecting" => \A e \in Conns : conn'[e].socket = "connecting" => e = d
                BY <1>10, <4>1 DEF LinkOK
            <4>. QED BY <1>7, <1>11, <3>1, <4>1, <4>2, <4>3 DEF LinkOK
        <3>2. CASE ~ (d # m.stratum /\ conn'[d] = conn[d])
            <4>1. /\ conn'[d].heard = conn[d].heard
                  /\ conn'[d].socket = "closed" /\ conn'[d].deaf = (conn[d].step = "threads")
                  /\ conn'[d].step \notin {"login", "wait"}
                  /\ conn[d].step = "threads" <=> conn'[d].step = "threads"
                  /\ conn[d].step = "new" <=> conn'[d].step = "new"
                BY <1>10, <3>2
            <4>2. /\ conn[d].step = "threads" => ~ conn[d].heard
                  /\ conn[d].step = "new" => ~ conn[d].heard
                BY <1>11 DEF LinkOK
            <4>. QED BY <1>7, <1>11, <4>1, <4>2 DEF LinkOK
        <3>. QED BY <3>1, <3>2
    <2>. QED BY <1>7, <2>1 DEF LinksFit
<1>15. Reached'
    BY <1>7 DEF Reached
<1>16. \A d \in Conns : conn[d].heard /\ ~ conn[d].deaf => conn'[d].heard /\ ~ conn'[d].deaf
    <2>1. \A d \in Conns : conn[d].heard => conn[d].step # "threads"
        BY <1>11 DEF LinkOK
    <2>. QED BY <1>10, <2>1
<1>17. CallsHeard'
    <2>1. ASSUME NEW i \in DOMAIN calls
          PROVE  /\ calls[i].by = "login" => conn'[calls[i].of].heard
                 /\ ~ late => conn'[calls[i].of].heard /\ ~ conn'[calls[i].of].deaf
        <3>1. PICK x \in Conns : x = calls[i].of
            BY <1>1, Fields
        <3>. QED BY <1>1, <1>10, <1>16, <3>1 DEF CallsHeard
    <2>. QED BY <1>3, <2>1 DEF CallsHeard
<1>18. chunk.gen \in Nat /\ chunk.gen <= m.gen /\ chunk.of \in Conns \union {0}
    BY <1>1, Fields DEF Polls
<1>19. Asked' /\ Polls'
    <2>1. CASE chunk' = NoChunk
        BY <1>1, <1>3, <1>4, <1>7, <1>12, <2>1 DEF Asked, Polls, NoChunk
    <2>2. CASE chunk' = chunk
        <3>1. chunk.gen # m'.gen /\ chunk.gen <= m'.gen
            BY <1>4, <1>7, <1>18
        <3>2. ~ late /\ chunk.of # 0 => conn'[chunk.of].heard /\ ~ conn'[chunk.of].deaf
            BY <1>1, <1>16, <1>18 DEF Asked
        <3>3. /\ chunk.of = 0 => chunk = NoChunk
              /\ queued.given = queued.granted
            BY <1>1 DEF Asked, Polls
        <3>. QED BY <1>3, <1>7, <1>12, <2>2, <3>1, <3>2, <3>3 DEF Asked, Polls
    <2>. QED BY <1>9, <2>1, <2>2
<1>20. Agree'
    BY <1>1, <1>3, <1>7, <1>8 DEF Agree
<1>21. Mining' /\ Hashing'
    BY <1>8, <1>12 DEF Mining, Hashing
<1>22. Known'
    BY <1>1, <1>7, <1>8, <1>12 DEF Known, LastVersion
<1>. QED BY <1>13, <1>14, <1>15, <1>17, <1>19, <1>20, <1>21, <1>22 DEF MInv

\* The poll fires, or its question is answered: only the poll and its question
\* change.
LEMMA PollSteps ==
    ASSUME MInv, NEW a \in BOOLEAN, m' = [m EXCEPT !.armed = a],
           CallsIdle, conn' = conn, native' = native, reused' = reused, late' = late,
           chunk' \in Question, chunk'.gen <= m.gen, chunk'.of = 0 => chunk' = NoChunk,
           chunk' # NoChunk => chunk'.gen = m.gen /\ chunk'.job = m.job,
           ~ late /\ chunk'.of # 0 =>
               conn[chunk'.of].heard /\ ~ conn[chunk'.of].deaf /\ m.stratum = chunk'.of,
           ~ late /\ a => Current,
           queued'.given = queued'.granted,
           Current /\ m.versions # <<>> /\ m.job \in Ranged => a \/ chunk' # NoChunk
    PROVE  MInv'
<1>1. /\ Shape /\ LinksFit /\ Reached /\ CallsHeard /\ Asked
      /\ Agree /\ Mining /\ Hashing /\ Polls /\ Known
    BY DEF MInv
<1>2. m \in Member /\ native \in Code /\ conn \in [Conns -> Client]
    BY <1>1 DEF Shape
<1>3. m' \in Member
    BY <1>2, Zenon DEF Member
<1>4. /\ m'.closed = m.closed /\ m'.timer = m.timer /\ m'.stratum = m.stratum /\ m'.job = m.job
      /\ m'.seed = m.seed /\ m'.versions = m.versions /\ m'.sent = m.sent /\ m'.gen = m.gen
      /\ (m'.armed <=> a)
    BY <1>2 DEF Member
<1>5. calls' = calls /\ alloc' = alloc
    BY DEF CallsIdle
<1>6. Current' <=> Current
    BY <1>4 DEF Current
<1>7. Shape'
    BY <1>1, <1>3, <1>5 DEF Shape
<1>8. LinksFit' /\ Reached'
    <2>1. ASSUME NEW c \in Conns
          PROVE  LinkOK(c, conn[c])'
        BY <1>1, <1>4 DEF LinksFit, LinkOK
    <2>. QED BY <1>1, <1>4, <2>1 DEF LinksFit, Reached
<1>9. CallsHeard'
    BY <1>1, <1>5 DEF CallsHeard
<1>10. Asked'
    BY <1>4, <1>6 DEF Asked
<1>11. Agree' /\ Mining' /\ Hashing'
    BY <1>1, <1>4, <1>5, <1>6 DEF Agree, Mining, Hashing
<1>12. Polls'
    BY <1>4, <1>6 DEF Polls
<1>13. Known'
    BY <1>1, <1>4, <1>6 DEF Known, LastVersion
<1>. QED BY <1>7, <1>8, <1>9, <1>10, <1>11, <1>12, <1>13 DEF MInv

\* Without a connection the poll just ends.
LEMMA PollIdle ==
    ASSUME MInv, m' = [m EXCEPT !.armed = FALSE], ~ Current, CallsIdle, HistoryIdle,
           conn' = conn, native' = native, chunk' = chunk
    PROVE  MInv'
<1>1. m \in Member /\ conn \in [Conns -> Client]
    BY DEF MInv, Shape
<1>2. m' \in Member
    BY <1>1, Zenon DEF Member
<1>3. /\ m'.closed = m.closed /\ m'.timer = m.timer /\ m'.stratum = m.stratum /\ m'.job = m.job
      /\ m'.seed = m.seed /\ m'.versions = m.versions /\ m'.sent = m.sent /\ m'.gen = m.gen /\ ~ m'.armed
    BY <1>1 DEF Member
<1>4. ~ Current'
    BY <1>3 DEF Current
<1>5. calls' = calls /\ alloc' = alloc /\ queued' = queued /\ reused' = reused /\ late' = late
    BY DEF CallsIdle, HistoryIdle
<1>6. Shape'
    BY <1>2, <1>5 DEF MInv, Shape
<1>7. LinksFit' /\ Reached'
    <2>1. ASSUME NEW c \in Conns
          PROVE  LinkOK(c, conn[c])'
        BY <1>3 DEF MInv, LinksFit, LinkOK
    <2>. QED BY <1>3, <2>1 DEF MInv, LinksFit, Reached
<1>8. CallsHeard' /\ Asked'
    BY <1>3, <1>5 DEF MInv, CallsHeard, Asked
<1>9. Agree' /\ Mining' /\ Hashing'
    BY <1>3, <1>4, <1>5 DEF MInv, Agree, Mining, Hashing
<1>10. Polls'
    BY <1>3, <1>4, <1>5 DEF MInv, Polls
<1>11. Known'
    BY <1>3, <1>4, <1>5 DEF MInv, Known, LastVersion
<1>. QED BY <1>6, <1>7, <1>8, <1>9, <1>10, <1>11 DEF MInv

\* The poll fires: it asks for a chunk, comes again later or ends.
LEMMA PollKeeps ==
    ASSUME MInv, Poll
    PROVE  MInv'
<1>1. Shape /\ LinksFit /\ Asked /\ Polls
    BY DEF MInv
<1>2. /\ m' = [m EXCEPT !.armed = FALSE] /\ m.armed /\ m.job # None /\ CallsIdle
      /\ conn' = conn /\ native' = native /\ reused' = reused /\ late' = late /\ queued' = queued
    BY DEF Poll, HistoryIdle
<1>3. queued'.given = queued'.granted
    BY <1>1, <1>2 DEF Polls
<1>4. CASE m.stratum = 0
    <2>1. chunk' = chunk
        BY <1>4 DEF Poll
    <2>2. ~ Current
        BY <1>4 DEF Current
    <2>3. HistoryIdle
        BY DEF Poll
    <2>. QED BY <1>2, <2>1, <2>2, <2>3, PollIdle
<1>5. CASE m.stratum # 0
    <2>1. PICK c \in Conns : c = m.stratum /\ c # 0 /\ conn[c].socket = "open" /\ ~ conn[c].deaf
        <3>1. m.stratum \in Conns /\ conn[m.stratum].socket = "open"
            BY <1>1, <1>5, Fields DEF Poll
        <3>. QED BY <1>1, <1>5, <3>1 DEF LinksFit, LinkOK
    <2>2. PICK q \in Question : q = [gen |-> m.gen, of |-> c, job |-> m.job]
        <3>1. m.gen \in Nat /\ m.job \in JobsOrNone
            BY <1>1, Fields
        <3>. QED BY <3>1 DEF Question
    <2>3. q.gen = m.gen /\ q.of = c /\ q.job = m.job /\ q # NoChunk
        BY <2>1, <2>2 DEF NoChunk
    <2>4. chunk' = q
        BY <1>5, <2>1, <2>2 DEF Poll
    <2>5. m.gen <= m.gen
        BY <1>1, Fields
    <2>6. ~ late => conn[c].heard
        BY <1>1, <1>2, <2>1 DEF Asked, Current
    <2>. QED BY <1>2, <1>3, <2>1, <2>3, <2>4, <2>5, <2>6, PollSteps
<1>. QED BY <1>4, <1>5

\* get_chunk is answered: its chunk is taken while the poll that asked is the
\* one there is, and the poll is set again.
LEMMA AnsweredKeeps ==
    ASSUME MInv, Answered
    PROVE  MInv'
<1>1. Shape /\ LinksFit /\ Asked /\ Polls /\ Agree
    BY DEF MInv
<1>2. /\ chunk # NoChunk /\ chunk' = NoChunk /\ CallsIdle
      /\ conn' = conn /\ native' = native /\ reused' = reused /\ late' = late
    BY DEF Answered
<1>3. NoChunk \in Question /\ NoChunk.gen = 0 /\ NoChunk.of = 0 /\ m.gen \in Nat /\ 0 <= m.gen
    BY <1>1, Fields DEF NoChunk, Question, JobsOrNone
<1>4. CASE PollCurrent
    <2>1. chunk.gen = m.gen /\ chunk.job = m.job /\ m.job = native.job
        BY <1>1, <1>2, <1>4 DEF PollCurrent, Polls, Agree
    <2>2. queued'.given = queued'.granted
        <3>1. queued' \in {queued, [granted |-> chunk.job, given |-> native.job]}
            BY <1>4 DEF Answered
        <3>2. queued.given = queued.granted
            BY <1>1 DEF Polls
        <3>. QED BY <2>1, <3>1, <3>2
    <2>3. PICK a \in BOOLEAN : (a <=> m.stratum # 0 /\ m.job # None) /\ m' = [m EXCEPT !.armed = a]
        BY <1>4 DEF Answered, Rearmed
    <2>4. ~ late => Current
        <3>1. ~ late => /\ chunk.of # 0 /\ conn[chunk.of].heard /\ ~ conn[chunk.of].deaf
                        /\ m.stratum = chunk.of
            BY <1>1, <1>2, <2>1 DEF Asked
        <3>2. chunk.of \in Conns \union {0}
            BY <1>1, Fields
        <3>. QED BY <1>1, <3>1, <3>2 DEF LinksFit, LinkOK, Current
    <2>5. Current /\ m.job \in Ranged => a
        BY <2>3, Numbers DEF Current
    <2>. QED BY <1>2, <1>3, <2>2, <2>3, <2>4, <2>5, PollSteps
<1>5. CASE ~ PollCurrent
    <2>1. queued' = queued /\ m' = m /\ chunk.gen # m.gen
        BY <1>5 DEF Answered, PollCurrent
    <2>2. PICK a \in BOOLEAN : (a <=> m.armed) /\ m' = [m EXCEPT !.armed = a]
        <3>1. m.armed \in BOOLEAN /\ m \in Member
            BY <1>1, Fields DEF Shape
        <3>2. m = [m EXCEPT !.armed = m.armed]
            BY <3>1 DEF Member
        <3>. QED BY <2>1, <3>1, <3>2
    <2>3. queued'.given = queued'.granted
        BY <1>1, <2>1 DEF Polls
    <2>4. ~ late /\ a => Current
        BY <1>1, <2>2 DEF Asked
    <2>5. Current /\ m.versions # <<>> /\ m.job \in Ranged => a
        BY <1>1, <2>1, <2>2 DEF Polls
    <2>. QED BY <1>2, <1>3, <2>2, <2>3, <2>4, <2>5, PollSteps
<1>. QED BY <1>4, <1>5

-----------------------------------------------------------------------------
(* The theorems.                                                           *)

\* NMiner begins with nothing but its timer.
LEMMA MinerInitInv == MinerInit => MInv
<1>. SUFFICES ASSUME MinerInit PROVE MInv
    OBVIOUS
<1>1. /\ m = [closed |-> FALSE, stratum |-> 0, timer |-> TRUE, job |-> None, seed |-> None,
              versions |-> <<>>, sent |-> 0, gen |-> 0, armed |-> FALSE]
      /\ conn = [c \in Conns |-> [socket |-> "new", pending |-> None, heard |-> FALSE, deaf |-> FALSE,
                             step |-> "new"]]
      /\ calls = <<>> /\ alloc = "no" /\ chunk = NoChunk
      /\ native = [active |-> FALSE, version |-> 0, job |-> None, seed |-> None]
      /\ queued = [granted |-> None, given |-> None]
      /\ reused = FALSE /\ late = FALSE
    BY DEF MinerInit
<1>2. None \in JobsOrNone /\ None \in SeedsOrNone /\ 0 \in 0 .. MaxVersion
    BY Numbers DEF JobsOrNone, SeedsOrNone
<1>3. Shape
    <2>1. m \in Member
        BY <1>1, <1>2 DEF Member
    <2>2. conn \in [Conns -> Client]
        BY <1>1, <1>2 DEF Client
    <2>3. chunk \in Question /\ native \in Code /\ calls \in Seq(Taken)
        BY <1>1, <1>2 DEF Question, Code, NoChunk
    <2>. QED BY <1>1, <2>1, <2>2, <2>3 DEF Shape
<1>4. m.timer /\ m.stratum = 0 /\ ~ m.closed /\ m.versions = <<>> /\ ~ m.armed /\ m.sent = 0 /\ m.gen = 0
      /\ m.job = None /\ m.seed = None
    BY <1>1
<1>5. \A c \in Conns : conn[c].socket = "new" /\ conn[c].step = "new" /\ ~ conn[c].heard /\ ~ conn[c].deaf
    BY <1>1
<1>6. LinksFit /\ Reached
    BY <1>4, <1>5, Numbers DEF LinksFit, LinkOK, Reached
<1>7. CallsHeard
    BY <1>1 DEF CallsHeard
<1>8. ~ Current
    BY <1>4 DEF Current
<1>9. Asked /\ Polls
    BY <1>1, <1>4, <1>8 DEF Asked, Polls, NoChunk
<1>10. Agree /\ Mining /\ Hashing
    BY <1>1, <1>4, <1>8 DEF Agree, Mining, Hashing
<1>11. Known
    BY <1>1, <1>4, Numbers DEF Known, Rows
<1>. QED BY <1>3, <1>6, <1>7, <1>9, <1>10, <1>11 DEF MInv

\* A step that changes nothing keeps the invariant.
LEMMA MinerStutters == MInv /\ UNCHANGED minerVars => MInv'
BY DEF minerVars, MInv, Shape, LinksFit, LinkOK, Reached, CallsHeard, Asked, Agree, Mining, Hashing,
       Polls, Known, LastVersion, Current

\* The invariant holds in every behaviour of NMiner.
LEMMA MinerInvariant == MinerSpec => []MInv
<1>1. MInv /\ [MinerNext]_minerVars => MInv'
    <2>. SUFFICES ASSUME MInv, [MinerNext]_minerVars PROVE MInv'
        OBVIOUS
    <2>1. ASSUME NEW c \in Conns, Reconnect(c) PROVE MInv'
        BY <2>1, ReconnectKeeps
    <2>2. ASSUME NEW c \in Conns, ConnectFails(c) PROVE MInv'
        BY <2>2, ConnectFailsKeeps
    <2>3. ASSUME NEW c \in Conns, Connected(c) PROVE MInv'
        BY <2>3, ConnectedKeeps
    <2>4. ASSUME NEW c \in Conns, ThreadsCounted(c) PROVE MInv'
        BY <2>4, ThreadsCountedKeeps
    <2>5. ASSUME NEW c \in Conns, LoginFails(c) PROVE MInv'
        BY <2>5, LoginFailsKeeps
    <2>6. ASSUME NEW c \in Conns, Lost(c) PROVE MInv'
        BY <2>6, LostKeeps
    <2>7. ASSUME NEW c \in Conns, NEW j \in Jobs, Push(c, j) PROVE MInv'
        BY <2>7, PushKeeps
    <2>8. ASSUME NEW c \in Conns, NEW j \in Jobs \union {None}, LoggedIn(c, j) PROVE MInv'
        BY <2>8, LoggedInKeeps
    <2>9. ASSUME NEW j \in Jobs, AnsweredJob(j) PROVE MInv'
        BY <2>9, AnsweredJobKeeps
    <2>10. CASE Close
        BY <2>10, CloseKeeps
    <2>11. CASE SameJob \/ SendJob \/ Reallocate \/ Restart \/ Reallocated \/ ReallocateFails
        BY <2>11, SameJobKeeps, SendJobKeeps, ReallocateKeeps, RestartKeeps, ReallocatedKeeps,
           ReallocateFailsKeeps
    <2>12. CASE Poll \/ Answered
        BY <2>12, PollKeeps, AnsweredKeeps
    <2>13. CASE UNCHANGED minerVars
        BY <2>13, MinerStutters
    <2>. QED BY <2>1, <2>2, <2>3, <2>4, <2>5, <2>6, <2>7, <2>8, <2>9, <2>10, <2>11, <2>12, <2>13
             DEF MinerNext
<1>. QED BY <1>1, MinerInitInv, PTL DEF MinerSpec

\* Whatever connections are made and lost and whichever allocations fail, the
\* threads mine for a pool that is there, over the dataset of their job; unless a
\* call of on_job has outlived its connection, or the job was taken for known
\* (NMiner.on_job, reconnect, close).
THEOREM AlwaysMinesForPool == MinerSpec => []MinesForPool
<1>1. MInv => MinesForPool
    <2>. SUFFICES ASSUME MInv PROVE MinesForPool
        OBVIOUS
    <2>1. /\ Shape /\ Agree /\ Mining /\ Hashing /\ Known
        BY DEF MInv
    <2>2. m.stratum \in Conns \union {0} /\ m.sent \in Nat /\ native.version \in 0 .. MaxVersion
          /\ m.versions \in Seq(Version)
        BY <2>1, Fields
    <2>3. /\ Len(m.versions) = IF m.sent < Kept THEN m.sent ELSE Kept
          /\ m.sent <= native.version
        BY <2>1 DEF Known, Rows
    <2>4. MinerTypeOK
        <3>1. m.sent \in 0 .. MaxVersion /\ Len(m.versions) <= Kept
            BY <2>2, <2>3, Numbers
        <3>2. m \in [closed : BOOLEAN, stratum : Conns \union {0}, timer : BOOLEAN, job : JobsOrNone,
                     seed : SeedsOrNone, versions : Seq([version : Nat, job : Jobs, of : Conns]),
                     sent : 0 .. MaxVersion, gen : Nat, armed : BOOLEAN]
            <4>1. m \in Member
                BY <2>1 DEF Shape
            <4>. QED BY <3>1, <4>1 DEF Member, Version
        <3>. QED BY <2>1, <3>1, <3>2 DEF MinerTypeOK, Shape, Client, Taken, Question, Code, Agree
    <2>5. MinesConnected
        BY <2>1 DEF MinesConnected, Mining, Current
    <2>6. SeedOfJob
        <3>. SUFFICES ASSUME native.active, alloc # "started", ~ reused, ~ late
                      PROVE  native.seed = Seed[native.job]
            BY DEF SeedOfJob
        <3>1. Current /\ m.versions # <<>>
            BY <2>1 DEF Mining
        <3>2. alloc = "no"
            BY <2>1 DEF Agree, Shape
        <3>. QED BY <2>1, <3>1, <3>2 DEF Hashing
    <2>. QED BY <2>4, <2>5, <2>6 DEF MinesForPool
<1>. QED BY <1>1, MinerInvariant, PTL

\* A NMiner that is not closed has a connection it listens to, is making one or
\* will try, after any order of losses and failures; but for a connection that is
\* lost while MaxThreads scans the processor (reconnect, schedule_reconnect).
THEOREM AlwaysReaches == MinerSpec => []NeverStranded
<1>1. MInv => NeverStranded
    BY DEF MInv, Reached, NeverStranded
<1>. QED BY <1>1, MinerInvariant, PTL

\* The versions that shares of the last jobs carry are known, in a row, the last
\* under the job that is mined, as many as are kept; with the same exceptions
\* (track_version, on_job).
THEOREM AlwaysVersionsKnown == MinerSpec => []LastVersionsKnown
<1>1. MInv => LastVersionsKnown
    <2>. SUFFICES ASSUME MInv, Settled, native.active, ~ reused, ~ late
                  PROVE  LastVersionsKnown
        BY DEF LastVersionsKnown
    <2>1. Shape /\ Agree /\ Mining /\ Known
        BY DEF MInv
    <2>2. Current /\ m.versions # <<>>
        <3>1. alloc # "started"
            BY <2>1 DEF Settled, Agree
        <3>. QED BY <2>1, <3>1 DEF Mining
    <2>3. m.versions \in Seq(Version) /\ m.sent \in Nat /\ native.version \in Nat
        BY <2>1, Fields, Numbers
    <2>4. PICK vs \in Seq(Version) : vs = m.versions
        BY <2>3
    <2>5. /\ Len(vs) = IF m.sent < Kept THEN m.sent ELSE Kept
          /\ \A i \in DOMAIN vs : vs[i].version = native.version - Len(vs) + i
          /\ LastVersion = vs[Len(vs)] /\ LastVersion.job = native.job /\ LastVersion.of = m.stratum
        BY <2>1, <2>2, <2>4 DEF Known, Rows, LastVersion
    <2>6. PICK n \in Nat : n = Len(vs) /\ n > 0 /\ DOMAIN vs = 1 .. n
        BY <2>2, <2>4
    <2>7. PICK v \in Nat : v = native.version
        BY <2>3
    <2>8. \A i \in 1 .. n : vs[i].version = v - n + i
        BY <2>5, <2>6, <2>7
    <2>9. vs[n] = [version |-> v, job |-> native.job, of |-> m.stratum]
        <3>1. vs[n] \in Version /\ vs[n].version = v
            BY <2>6, <2>8
        <3>. QED BY <2>5, <2>6, <3>1 DEF Version
    <2>10. \A i \in 1 .. n - 1 : vs[i + 1].version = vs[i].version + 1
        BY <2>6, <2>8
    <2>11. (m.sent <= Kept => n = m.sent) /\ (m.sent >= Kept => n = Kept)
        BY <2>3, <2>5, <2>6, Numbers
    <2>. QED BY <2>2, <2>4, <2>6, <2>7, <2>9, <2>10, <2>11 DEF LastVersionsKnown
<1>. QED BY <1>1, MinerInvariant, PTL

\* A chunk goes to the job it was granted for, whatever happens while get_chunk is
\* answered; and a job that came with a range goes on asking for chunks, with the
\* same exceptions (schedule_chunk_poll, stop_chunk_poll).
THEOREM AlwaysChunksArrive == MinerSpec => []ChunksArrive
<1>1. MInv => ChunksArrive
    <2>. SUFFICES ASSUME MInv PROVE ChunksArrive
        OBVIOUS
    <2>1. Agree /\ Mining /\ Polls
        BY DEF MInv
    <2>2. ChunkToItsJob
        BY <2>1 DEF ChunkToItsJob, Polls
    <2>3. PollAlive
        BY <2>1 DEF PollAlive, Agree, Mining, Polls
    <2>. QED BY <2>2, <2>3 DEF ChunksArrive
<1>. QED BY <1>1, MinerInvariant, PTL

-----------------------------------------------------------------------------
(* The life of the RandomX memory.                                         *)

(* The inductive invariant.                                                *)

Busy(w) == worker[w] \in {"drain", "build", "dataset", "write"}

\* Whoever is inside Execute or create_vm has the mutex.
Mutex ==
    /\ \A w \in Workers : Busy(w) => lifecycle = w
    /\ \A t \in Threads : thread[t] = "create" => lifecycle = t

\* A thread holds a VM exactly while it mines.
HeldWhileMining == \A t \in Threads : vm[t].held <=> thread[t] = "mine"

\* active_vms counts the VMs.
Counted == active_vms = Cardinality(Holding)

\* A thread only calls create_vm while it has tries left.
TriesLeft == \A t \in Threads : thread[t] \in {"lock", "create"} => tries[t] < Tries

\* How far the rebuilding worker has come; what is left when nobody rebuilds.
SeedAgrees ==
    /\ \A w \in Workers :
        /\ worker[w] = "build" => cache = Null
        /\ worker[w] \in {"dataset", "write"} => cache = seed[w]
    /\ Fast /\ (\A w \in Workers : ~ Rebuilding(w)) =>
        cache = Null \/ data = Null \/ data = cache

InFlight == {w \in Workers : worker[w] # "none"}

IInv ==
    /\ TypeOK /\ Mutex /\ HeldWhileMining /\ Counted /\ TriesLeft
    /\ RebuildAlone /\ SeedAgrees /\ VmCoherent /\ UpdatingWhilePending

-----------------------------------------------------------------------------
\* Sets of threads and of workers are finite, and the counters are what they
\* should be of.
LEMMA Finite ==
    /\ \A S \in SUBSET Threads : IsFiniteSet(S) /\ Cardinality(S) \in Nat
    /\ \A S \in SUBSET Workers : IsFiniteSet(S) /\ Cardinality(S) \in Nat
BY FS_Subset, FS_CardinalityType, LifecycleAssumption

\* A set gains or loses one element, and its cardinality one.
LEMMA OneMoreOneLess ==
    ASSUME NEW S, NEW T, IsFiniteSet(S), NEW x
    PROVE  /\ x \notin S /\ T = S \union {x} => Cardinality(T) = Cardinality(S) + 1
           /\ x \in S /\ T = S \ {x} => Cardinality(T) = Cardinality(S) - 1
BY FS_AddElement, FS_RemoveElement

\* The actions that leave a VM and its count alone, and those that do not.
LEMMA VmFrame ==
    ASSUME Next
    PROVE  \/ \E t \in Threads : Create(t)
           \/ \E t \in Threads : Yield(t) \/ Quit(t)
           \/ UNCHANGED <<vm, active_vms>>
BY DEF Next, Js, Worker, Execute, Thread, Settle, Allocate, Start, Stop, Joined, Enter,
       Leave, DrainTimeout, Drained, CacheFails, CacheBuilt, ReserveFails,
       WriteDataset, DatasetBuilt, TryCreate, GiveUp, Locked, CreateFails,
       Resume, Exit, rx

\* The actions that write the cache, the dataset or a worker's place and seed.
LEMMA BuildFrame ==
    ASSUME Next
    PROVE  \/ \E w \in Workers : Settle(w) \/ Enter(w) \/ DrainTimeout(w)
                \/ Drained(w) \/ CacheFails(w) \/ CacheBuilt(w)
                \/ ReserveFails(w) \/ WriteDataset(w) \/ DatasetBuilt(w)
           \/ \E w \in Workers, s \in Seeds : Allocate(w, s)
           \/ UNCHANGED <<cache, data, worker, seed>>
BY DEF Next, Js, Worker, Execute, Thread, Start, Stop, Joined, TryCreate, GiveUp,
       Locked, Create, CreateFails, Yield, Resume, Quit, Exit, rx

-----------------------------------------------------------------------------
\* The initial state has the invariant.
LEMMA InitInv == Init => IInv
<1> SUFFICES ASSUME Init PROVE IInv
    OBVIOUS
<1>1. Holding = {} /\ InFlight = {}
    BY DEF Init, Holding, InFlight, NoVm
<1>2. Cardinality({}) = 0
    BY FS_EmptySet
<1>3. TypeOK
  <2>1. NoVm \in [held : BOOLEAN, cache : Seeds \union {Null}, data : Seeds \union {Null, Torn}]
    BY DEF NoVm
  <2>2. tries \in [Threads -> 0 .. Tries]
    BY LifecycleAssumption DEF Init
  <2>3. /\ thread \in [Threads -> {"off", "acquire", "lock", "create", "mine", "wait", "leave", "exit"}]
        /\ worker \in [Workers -> {"none", "queued", "drain", "build", "dataset", "write", "ok", "failed"}]
    BY DEF Init
  <2> QED
    BY <2>1, <2>2, <2>3 DEF Init, TypeOK
<1>4. Mutex /\ HeldWhileMining /\ TriesLeft /\ RebuildAlone /\ SeedAgrees
    BY DEF Init, Mutex, Busy, HeldWhileMining, TriesLeft, RebuildAlone, Rebuilding, SeedAgrees, NoVm
<1>5. Counted /\ VmCoherent
    BY <1>1, <1>2 DEF Init, Counted, VmCoherent
<1>6. UpdatingWhilePending
    BY <1>1, <1>2 DEF Init, UpdatingWhilePending, InFlight
<1> QED
    BY <1>3, <1>4, <1>5, <1>6 DEF IInv

\* The mutex excludes: only its holder is inside.
LEMMA MutexStep ==
    ASSUME TypeOK, Mutex, Next
    PROVE  Mutex'
<1> USE LifecycleAssumption, NamesAssumption DEF Nobody, Mutex, Busy
<1>1. ASSUME NEW w \in Workers, Worker(w)
      PROVE  Mutex'
    BY <1>1 DEF TypeOK, Worker, Execute, Enter, Leave, DrainTimeout, Drained, CacheFails,
       CacheBuilt, ReserveFails, WriteDataset, DatasetBuilt
<1>2. ASSUME NEW t \in Threads, Thread(t)
      PROVE  Mutex'
  <2>1. CASE Locked(t)
    BY <2>1 DEF TypeOK, Locked, Goto
  <2>2. CASE Create(t) \/ CreateFails(t)
    BY <2>2 DEF TypeOK, Create, CreateFails, Goto
  <2>3. CASE TryCreate(t) \/ GiveUp(t) \/ Resume(t) \/ Exit(t)
    BY <2>3 DEF TypeOK, TryCreate, GiveUp, Resume, Exit, Goto, rx
  <2>4. CASE Yield(t) \/ Quit(t)
    BY <2>4 DEF TypeOK, Yield, Quit, Goto
  <2> QED
    BY <1>2, <2>1, <2>2, <2>3, <2>4 DEF Thread
<1>3. ASSUME Js
      PROVE  Mutex'
    BY <1>3 DEF TypeOK, Js, Settle, Allocate, Start, Stop, Joined, rx
<1> QED
    BY <1>1, <1>2, <1>3 DEF Next

\* A thread gets its VM when it starts to mine and gives it back when it ends.
LEMMA HeldStep ==
    ASSUME TypeOK, HeldWhileMining, Next
    PROVE  HeldWhileMining'
<1> USE DEF HeldWhileMining, TypeOK
<1>1. ASSUME NEW t \in Threads, Thread(t)
      PROVE  HeldWhileMining'
  <2>1. CASE Create(t)
    BY <2>1 DEF Create, Goto
  <2>2. CASE Yield(t) \/ Quit(t)
    <3>1. vm' = [vm EXCEPT ![t] = NoVm] /\ ~ NoVm.held
      BY <2>2 DEF Yield, Quit, DropVm, NoVm
    <3>2. thread' \in {[thread EXCEPT ![t] = "wait"], [thread EXCEPT ![t] = "leave"]}
      BY <2>2 DEF Yield, Quit, Goto
    <3> QED
      BY <3>1, <3>2
  <2>3. CASE ~ (Create(t) \/ Yield(t) \/ Quit(t))
    BY <1>1, <2>3 DEF Thread, TryCreate, GiveUp, Locked, CreateFails, Resume, Exit, Goto, rx
  <2> QED
    BY <2>1, <2>2, <2>3
<1>2. CASE Joined
    BY <1>2 DEF Joined, Live, rx
<1>3. ASSUME Next, ~ Joined, ~ \E t \in Threads : Thread(t)
      PROVE  UNCHANGED <<vm, thread>>
    BY <1>3 DEF Next, Js, Worker, Execute, Settle, Allocate, Start, Stop, Enter, Leave,
       DrainTimeout, Drained, CacheFails, CacheBuilt, ReserveFails, WriteDataset,
       DatasetBuilt, rx
<1> QED
    BY <1>1, <1>2, <1>3

\* The loop of AcquireVm checks the tries before each call.
LEMMA TriesStep ==
    ASSUME TypeOK, TriesLeft, Next
    PROVE  TriesLeft'
<1> USE LifecycleAssumption DEF TriesLeft, TypeOK
<1>1. ASSUME NEW t \in Threads, Thread(t)
      PROVE  TriesLeft'
    BY <1>1 DEF Thread, TryCreate, GiveUp, Locked, Create, CreateFails,
       Yield, Resume, Quit, Exit, Goto, DropVm, rx
<1>2. CASE Joined
    BY <1>2 DEF Joined, rx
<1>3. ASSUME Next, ~ Joined, ~ \E t \in Threads : Thread(t)
      PROVE  UNCHANGED <<tries, thread>>
    BY <1>3 DEF Next, Js, Worker, Execute, Settle, Allocate, Start, Stop, Enter, Leave,
       DrainTimeout, Drained, CacheFails, CacheBuilt, ReserveFails, WriteDataset,
       DatasetBuilt, rx
<1> QED
    BY <1>1, <1>2, <1>3

\* active_vms stays the number of VMs.
LEMMA CountedStep ==
    ASSUME TypeOK, HeldWhileMining, Counted, Next
    PROVE  Counted'
<1> USE DEF Counted, Holding
<1>1. IsFiniteSet(Holding)
    BY Finite
<1>2. ASSUME NEW t \in Threads, Create(t)
      PROVE  Counted'
  <2>1. t \notin Holding
    BY <1>2 DEF Create, HeldWhileMining
  <2>2. Holding' = Holding \union {t}
    BY <1>2 DEF Create, TypeOK
  <2>3. Cardinality(Holding') = Cardinality(Holding) + 1
    BY <1>1, <2>1, <2>2, OneMoreOneLess
  <2> QED
    BY <1>2, <2>3 DEF Create
<1>3. ASSUME NEW t \in Threads, Yield(t) \/ Quit(t)
      PROVE  Counted'
  <2>1. t \in Holding
    BY <1>3 DEF Yield, Quit, HeldWhileMining
  <2>2. Holding' = Holding \ {t}
    BY <1>3 DEF Yield, Quit, DropVm, NoVm, TypeOK
  <2>3. Cardinality(Holding') = Cardinality(Holding) - 1
    BY <1>1, <2>1, <2>2, OneMoreOneLess
  <2> QED
    BY <1>3, <2>3 DEF Yield, Quit, DropVm
<1>4. CASE UNCHANGED <<vm, active_vms>>
    BY <1>4
<1> QED
    BY <1>2, <1>3, <1>4, VmFrame

\* pending stays the number of allocations in flight, and updating its sign.
LEMMA PendingStep ==
    ASSUME TypeOK, UpdatingWhilePending, Next
    PROVE  UpdatingWhilePending'
<1> USE DEF UpdatingWhilePending, InFlight
<1>1. IsFiniteSet(InFlight) /\ Cardinality(InFlight) \in Nat
    BY Finite
<1>2. ASSUME NEW w \in Workers, NEW s \in Seeds, Allocate(w, s)
      PROVE  UpdatingWhilePending'
  <2>1. w \notin InFlight /\ InFlight' = InFlight \union {w}
    BY <1>2 DEF Allocate, TypeOK
  <2>2. Cardinality(InFlight') = Cardinality(InFlight) + 1
    BY <1>1, <2>1, OneMoreOneLess
  <2> QED
    BY <1>1, <1>2, <2>2 DEF Allocate, TypeOK
<1>3. ASSUME NEW w \in Workers, Settle(w)
      PROVE  UpdatingWhilePending'
  <2>1. w \in InFlight /\ InFlight' = InFlight \ {w}
    BY <1>3 DEF Settle, TypeOK
  <2>2. Cardinality(InFlight') = Cardinality(InFlight) - 1
    BY <1>1, <2>1, OneMoreOneLess
  <2>3. pending > 0 /\ pending' = pending - 1
    BY <1>1, <1>3, <2>1, <2>2, Finite DEF Settle
  <2> QED
    BY <1>1, <1>3, <2>2, <2>3 DEF Settle, TypeOK
<1>4. ASSUME Next, ~ \E w \in Workers : Settle(w), ~ \E w \in Workers, s \in Seeds : Allocate(w, s)
      PROVE  UNCHANGED <<pending, updating>> /\ InFlight' = InFlight
    BY <1>4 DEF TypeOK, Next, Js, Worker, Execute, Thread, Start, Stop, Joined, Enter, Leave,
       DrainTimeout, Drained, CacheFails, CacheBuilt, ReserveFails, WriteDataset,
       DatasetBuilt, TryCreate, GiveUp, Locked, Create, CreateFails, Yield,
       Resume, Quit, Exit, DropVm, rx
<1> QED
    BY <1>2, <1>3, <1>4

-----------------------------------------------------------------------------
\* While a worker rebuilds, no VM is alive, and none is made.
LEMMA AloneStep ==
    ASSUME TypeOK, Mutex, Counted, RebuildAlone, Next
    PROVE  RebuildAlone'
<1> USE DEF RebuildAlone, Rebuilding
<1>1. ASSUME NEW t \in Threads, Create(t)
      PROVE  RebuildAlone'
    BY <1>1, LifecycleAssumption DEF Create, Mutex, Busy
<1>2. ASSUME NEW t \in Threads, Yield(t) \/ Quit(t)
      PROVE  RebuildAlone'
  <2>1. Holding' \subseteq Holding
    BY <1>2 DEF Yield, Quit, DropVm, NoVm, Holding, TypeOK
  <2> QED
    BY <1>2, <2>1 DEF Yield, Quit
<1>3. ASSUME NEW w \in Workers, Drained(w)
      PROVE  RebuildAlone'
  <2>1. Holding = {}
    BY <1>3, Finite, FS_EmptySet DEF Drained, Counted, Holding
  <2> QED
    BY <1>3, <2>1 DEF Drained, Holding
<1>4. ASSUME Next, UNCHANGED <<vm, active_vms>>, ~ \E w \in Workers : Drained(w)
      PROVE  RebuildAlone'
  <2>1. Holding' = Holding
    BY <1>4 DEF Holding
  <2>2. \A w \in Workers : Rebuilding(w)' => Rebuilding(w)
    <3>1. CASE UNCHANGED worker
      BY <3>1
    <3>2. ASSUME NEW v \in Workers, Settle(v) \/ \E s \in Seeds : Allocate(v, s)
          PROVE  worker' = [worker EXCEPT ![v] = "none"] \/ worker' = [worker EXCEPT ![v] = "queued"]
      BY <3>2 DEF Settle, Allocate
    <3>3. ASSUME NEW v \in Workers, Enter(v) \/ DrainTimeout(v)
          PROVE  worker' = [worker EXCEPT ![v] = "drain"] \/ worker' = [worker EXCEPT ![v] = "failed"]
      BY <3>3 DEF Enter, DrainTimeout, Leave
    <3>4. ASSUME NEW v \in Workers,
                 CacheFails(v) \/ CacheBuilt(v) \/ ReserveFails(v) \/ WriteDataset(v) \/ DatasetBuilt(v)
          PROVE  /\ worker[v] \in {"build", "dataset", "write"}
                 /\ \E a : worker' = [worker EXCEPT ![v] = a]
      BY <3>4 DEF CacheFails, CacheBuilt, ReserveFails, WriteDataset, DatasetBuilt, Leave
    <3>5. ASSUME NEW v \in Workers, NEW a, worker' = [worker EXCEPT ![v] = a],
                 a \notin {"build", "dataset", "write"} \/ worker[v] \in {"build", "dataset", "write"}
          PROVE  \A w \in Workers : Rebuilding(w)' => Rebuilding(w)
      BY <3>5 DEF TypeOK
    <3> QED
      BY <1>4, <3>1, <3>2, <3>3, <3>4, <3>5, BuildFrame
  <2> QED
    BY <2>1, <2>2
<1> QED
    BY <1>1, <1>2, <1>3, <1>4, VmFrame

\* What a worker leaves behind is of one seed, or will not be used.
LEMMA AgreeStep ==
    ASSUME TypeOK, Mutex, SeedAgrees, Next
    PROVE  SeedAgrees'
<1> USE DEF SeedAgrees, Rebuilding, Mutex, Busy
<1>1. ASSUME NEW w \in Workers, Drained(w) \/ CacheBuilt(w) \/ WriteDataset(w) \/ DatasetBuilt(w)
      PROVE  SeedAgrees'
    BY <1>1 DEF TypeOK, Drained, CacheBuilt, WriteDataset, DatasetBuilt, Leave
<1>2. ASSUME NEW w \in Workers, CacheFails(w) \/ ReserveFails(w) \/ DrainTimeout(w)
      PROVE  SeedAgrees'
    BY <1>2 DEF TypeOK, CacheFails, ReserveFails, DrainTimeout, Leave
<1>3. ASSUME NEW w \in Workers, NEW s \in Seeds, Allocate(w, s) \/ Settle(w) \/ Enter(w)
      PROVE  SeedAgrees'
    BY <1>3 DEF TypeOK, Allocate, Settle, Enter
<1>4. CASE UNCHANGED <<cache, data, worker, seed>>
    BY <1>4
<1>5. Seeds # {} \/ Workers = {}
    BY DEF TypeOK
<1> QED
    BY <1>1, <1>2, <1>3, <1>4, <1>5, BuildFrame

\* A VM in use is over what Rx has now.
LEMMA CoherentStep ==
    ASSUME IInv, Next
    PROVE  VmCoherent'
<1> USE DEF IInv, VmCoherent
<1>1. ASSUME NEW t \in Threads, Create(t)
      PROVE  VmCoherent'
  <2>1. \A w \in Workers : ~ Rebuilding(w)
    BY <1>1, LifecycleAssumption DEF Create, Mutex, Busy, Rebuilding
  <2>2. cache \in Seeds /\ (Fast => data = cache)
    BY <1>1, <2>1 DEF Create, CanCreate, SeedAgrees, TypeOK
  <2>3. Holding' = Holding \union {t}
    BY <1>1 DEF Create, TypeOK, Holding
  <2>4. vm'[t].cache = cache /\ vm'[t].data = data
    BY <1>1 DEF Create, TypeOK
  <2>5. \A u \in Holding : u # t => vm'[u] = vm[u]
    BY <1>1 DEF Create, TypeOK, Holding
  <2>6. UNCHANGED <<cache, data>>
    BY <1>1 DEF Create
  <2> QED
    BY <2>2, <2>3, <2>4, <2>5, <2>6
<1>2. ASSUME NEW t \in Threads, Yield(t) \/ Quit(t)
      PROVE  VmCoherent'
  <2>1. Holding' \subseteq Holding \ {t}
    BY <1>2 DEF Yield, Quit, DropVm, NoVm, Holding, TypeOK
  <2>2. \A u \in Threads : u # t => vm'[u] = vm[u]
    BY <1>2 DEF Yield, Quit, DropVm, TypeOK
  <2>3. UNCHANGED <<cache, data>>
    BY <1>2 DEF Yield, Quit
  <2> QED
    BY <2>1, <2>2, <2>3 DEF Holding
<1>3. ASSUME UNCHANGED <<vm, active_vms>>, UNCHANGED <<cache, data>>
      PROVE  VmCoherent'
    BY <1>3 DEF Holding
<1>4. ASSUME UNCHANGED <<vm, active_vms>>, Holding = {}
      PROVE  VmCoherent'
    BY <1>4 DEF Holding
<1>5. ASSUME ~ UNCHANGED <<cache, data>>, UNCHANGED <<vm, active_vms>>
      PROVE  Holding = {}
  <2>1. PICK w \in Workers : Rebuilding(w) \/ Drained(w)
    BY <1>5, BuildFrame DEF Rebuilding, Allocate, Settle, Enter, DrainTimeout, CacheFails,
       CacheBuilt, ReserveFails, WriteDataset, DatasetBuilt
  <2> QED
    BY <2>1, Finite, FS_EmptySet DEF RebuildAlone, Drained, Counted, Holding
<1> QED
    BY <1>1, <1>2, <1>3, <1>4, <1>5, VmFrame

\* Every action keeps the types; active_vms never falls below zero since it
\* counts, nor does pending.
LEMMA TypeStep ==
    ASSUME IInv, Next
    PROVE  TypeOK'
<1> USE LifecycleAssumption DEF TypeOK
<1>1. Counted' /\ UpdatingWhilePending'
    BY CountedStep, PendingStep DEF IInv
<1>2. active_vms' \in Nat /\ pending' \in Nat
    BY <1>1, Finite DEF Counted, UpdatingWhilePending, Holding
<1>3. ASSUME NEW w \in Workers, Worker(w)
      PROVE  TypeOK'
    BY <1>2, <1>3 DEF IInv, Worker, Execute, Enter, Leave, DrainTimeout, Drained, CacheFails,
       CacheBuilt, ReserveFails, WriteDataset, DatasetBuilt
<1>4. ASSUME NEW t \in Threads, Thread(t)
      PROVE  TypeOK'
  <2>1. CASE Create(t)
    BY <1>2, <2>1 DEF IInv, Create, Goto
  <2>2. CASE Yield(t) \/ Quit(t)
    <3>1. NoVm \in [held : BOOLEAN, cache : Seeds \union {Null}, data : Seeds \union {Null, Torn}]
      BY DEF NoVm
    <3> QED
      BY <1>2, <2>2, <3>1 DEF IInv, Yield, Quit, DropVm, Goto
  <2>3. CASE TryCreate(t) \/ GiveUp(t) \/ Locked(t) \/ Exit(t)
    BY <2>3 DEF IInv, TryCreate, GiveUp, Locked, Exit, Goto, rx
  <2>4. CASE Resume(t)
    BY <2>4 DEF IInv, Resume, Goto, rx
  <2>5. CASE CreateFails(t)
    <3>1. tries[t] + 1 \in 0 .. Tries
      BY <2>5 DEF IInv, CreateFails, TriesLeft
    <3> QED
      BY <2>5, <3>1 DEF IInv, CreateFails, Goto
  <2> QED
    BY <1>4, <2>1, <2>2, <2>3, <2>4, <2>5 DEF Thread
<1>5. ASSUME Js
      PROVE  TypeOK'
  <2>1. CASE Joined
    <3>1. tries' \in [Threads -> 0 .. Tries]
      BY <2>1 DEF Joined
    <3>2. thread' \in [Threads -> {"off", "acquire", "lock", "create", "mine", "wait", "leave", "exit"}]
      BY <2>1 DEF Joined
    <3> QED
      BY <2>1, <3>1, <3>2 DEF IInv, Joined, rx
  <2>2. CASE Start \/ Stop
    BY <2>2 DEF IInv, Start, Stop, rx
  <2>3. ASSUME NEW w \in Workers, Settle(w) \/ \E s \in Seeds : Allocate(w, s)
        PROVE  TypeOK'
    <3>1. worker' \in [Workers -> {"none", "queued", "drain", "build", "dataset", "write", "ok", "failed"}]
      BY <2>3 DEF IInv, Settle, Allocate
    <3>2. seed' \in [Workers -> Seeds]
      BY <2>3 DEF IInv, Settle, Allocate
    <3>3. updating' \in BOOLEAN
      BY <2>3 DEF IInv, Settle, Allocate
    <3> QED
      BY <1>2, <2>3, <3>1, <3>2, <3>3 DEF IInv, Settle, Allocate
  <2> QED
    BY <1>5, <2>1, <2>2, <2>3 DEF Js
<1> QED
    BY <1>3, <1>4, <1>5 DEF Next

-----------------------------------------------------------------------------
\* The invariant holds in every behaviour.
LEMMA Invariant == Spec => []IInv
<1>1. Init => IInv
    BY InitInv
<1>2. IInv /\ [Next]_vars => IInv'
  <2> SUFFICES ASSUME IInv, [Next]_vars PROVE IInv'
    OBVIOUS
  <2>1. CASE Next
    BY <2>1, TypeStep, MutexStep, HeldStep, TriesStep, CountedStep, PendingStep, AloneStep,
       AgreeStep, CoherentStep DEF IInv
  <2>2. CASE UNCHANGED vars
    BY <2>2 DEF IInv, TypeOK, Mutex, Busy, HeldWhileMining, Counted, Holding, TriesLeft,
       RebuildAlone, Rebuilding, SeedAgrees, VmCoherent, UpdatingWhilePending,
       InFlight, vars
  <2> QED
    BY <2>1, <2>2
<1> QED
    BY <1>1, <1>2, PTL DEF Spec

\* Types: in particular active_vms and pending never underflow.
THEOREM TypeCorrect == Spec => []TypeOK
BY Invariant, PTL DEF IInv

\* The cache and the dataset are never released or written under a VM
\* (AllocateWorker::Execute, Rx::create_vm), for any number of threads.
THEOREM NoVmWhileRebuilding == Spec => []RebuildAlone
BY Invariant, PTL DEF IInv

\* A mining thread never hashes over half-written data or over a dataset of
\* another seed than its cache, whatever allocations fail.
THEOREM VmsCoherent == Spec => []VmCoherent
BY Invariant, PTL DEF IInv

\* updating is up exactly while an allocation is in flight.
THEOREM UpdatingCorrect == Spec => []UpdatingWhilePending
BY Invariant, PTL DEF IInv
-----------------------------------------------------------------------------
(* Argon2: the memory of the cache.                                        *)

\* A lane is four segments of two blocks at least.
LEMMA Sizes ==
    /\ SegmentLength \in Nat /\ SegmentLength >= 2 /\ Lanes \in Nat /\ Lanes > 0
    /\ LaneLength \in Nat /\ LaneLength = 4 * SegmentLength
    /\ MemoryBlocks = Lanes * LaneLength
    /\ 2^RandBits \in Nat /\ 2^RandBits > 0
<1>1. SegmentLength >= 2 /\ SegmentLength \in Nat /\ Lanes \in Nat /\ Lanes > 0
    BY ArgonInputsValid DEF MemoryBlocks, LaneLength, SyncPoints
<1>2. LaneLength = 4 * SegmentLength /\ MemoryBlocks = Lanes * LaneLength
    BY <1>1 DEF LaneLength, SyncPoints, MemoryBlocks
<1>3. 2^RandBits \in Int /\ 2 * LaneLength <= 2^RandBits
    BY ArgonInputsValid
<1>. QED BY <1>1, <1>2, <1>3

\* Counting by lanes: what the quotient and the remainder are of.
LEMMA Divided ==
    ASSUME NEW d \in Nat, d > 0, NEW k \in Nat, NEW j \in 0 .. d - 1
    PROVE  (k * d + j) \div d = k /\ (k * d + j) % d = j
OBVIOUS

\* The quotient of what is less than k times d.
LEMMA DividedLess ==
    ASSUME NEW d \in Nat, d > 0, NEW k \in Nat, NEW x \in Nat, x < k * d
    PROVE  x \div d \in 0 .. k - 1
<1>1. PICK q : q = x \div d
    OBVIOUS
<1>2. PICK r \in 0 .. d - 1 : r = x % d
    OBVIOUS
<1>3. q \in Nat /\ x = d * q + r
    BY <1>1, <1>2
<1>4. CASE q >= k
    <2>1. q * d >= k * d
        BY <1>3, <1>4
    <2>2. q * d = d * q
        BY <1>3
    <2>. QED BY <1>2, <1>3, <2>1, <2>2
<1>. QED BY <1>1, <1>3, <1>4

\* The offset of block j of lane k.
At(k, j) == k * LaneLength + j

\* It is in the memory, in lane k, at j.
LEMMA Offsets ==
    ASSUME NEW k \in 0 .. Lanes - 1, NEW j \in 0 .. LaneLength - 1
    PROVE  /\ At(k, j) \in 0 .. MemoryBlocks - 1
           /\ LaneOf(At(k, j)) = k /\ At(k, j) % LaneLength = j
<1>1. PICK d \in Nat : d = LaneLength /\ d > 0 /\ MemoryBlocks = Lanes * d /\ Lanes \in Nat
    BY Sizes
<1>2. k \in Nat /\ j \in 0 .. d - 1 /\ k + 1 <= Lanes
    BY <1>1
<1>3. (k * d + j) \div d = k /\ (k * d + j) % d = j
    BY <1>1, <1>2, Divided
<1>4. (k + 1) * d <= Lanes * d
    BY <1>1, <1>2
<1>5. (k + 1) * d = k * d + d /\ k * d \in Nat /\ Lanes * d \in Nat
    BY <1>1, <1>2
<1>6. k * d + j \in 0 .. Lanes * d - 1
    BY <1>2, <1>4, <1>5
<1>. QED BY <1>1, <1>3, <1>6 DEF At, LaneOf

\* The remainder of what is less than two lanes.
LEMMA Wrapped ==
    ASSUME NEW x \in 0 .. 2 * LaneLength - 1
    PROVE  x % LaneLength = IF x < LaneLength THEN x ELSE x - LaneLength
<1>1. PICK d \in Nat : d = LaneLength /\ d > 0
    BY Sizes
<1>2. CASE x < d
    <2>1. (0 * d + x) % d = x
        BY <1>1, <1>2, Divided
    <2>. QED BY <1>1, <1>2, <2>1
<1>3. CASE x >= d
    <2>1. PICK y \in 0 .. d - 1 : y = x - d
        BY <1>1, <1>3
    <2>2. (1 * d + y) % d = y
        BY <1>1, <2>1, Divided
    <2>. QED BY <1>1, <1>3, <2>1, <2>2
<1>. QED BY <1>1, <1>2, <1>3

\* The slice of a block, from its place in the lane.
LEMMA Slices ==
    ASSUME NEW s \in 0 .. 3, NEW j \in 0 .. LaneLength - 1
    PROVE  j \div SegmentLength = s <=> s * SegmentLength <= j /\ j < s * SegmentLength + SegmentLength
<1>1. PICK d \in Nat : d = SegmentLength /\ d > 0 /\ LaneLength = 4 * d
    BY Sizes
<1>2. ASSUME NEW q \in 0 .. 3, q * d <= j, j < q * d + d
      PROVE  j \div d = q
    <2>1. PICK i \in 0 .. d - 1 : j = q * d + i
        <3>1. j - q * d \in 0 .. d - 1 /\ j = q * d + (j - q * d)
            BY <1>1, <1>2
        <3>. QED BY <3>1
    <2>. QED BY <1>1, <2>1, Divided
<1>3. \E q \in 0 .. 3 : q * d <= j /\ j < q * d + d
    <2>1. j < d \/ (d <= j /\ j < 2 * d) \/ (2 * d <= j /\ j < 3 * d) \/ (3 * d <= j /\ j < 4 * d)
        BY <1>1
    <2>. QED BY <1>1, <2>1
<1>. QED BY <1>1, <1>2, <1>3

\* The draw picks one of area blocks.
LEMMA Drawn ==
    ASSUME NEW rand \in 0 .. 2^RandBits - 1, NEW area \in Nat, area > 0
    PROVE  area - 1 - ((area * ((rand * rand) \div 2^RandBits)) \div 2^RandBits) \in 0 .. area - 1
<1>1. PICK n \in Nat : n = 2^RandBits /\ n > 0
    BY Sizes
<1>2. rand \in Nat /\ rand + 1 <= n
    BY <1>1
<1>3. rand * rand \in Nat /\ rand * rand < n * n
    BY <1>1, <1>2
<1>4. PICK square \in 0 .. n - 1 : square = (rand * rand) \div n
    BY <1>1, <1>3, DividedLess
<1>5. area * square \in Nat /\ area * square < area * n
    BY <1>1, <1>4
<1>6. (area * square) \div n \in 0 .. area - 1
    BY <1>1, <1>5, DividedLess
<1>. QED BY <1>1, <1>4, <1>6

-----------------------------------------------------------------------------
\* Where the filling is, and what it has filled so far.
Position == [pass : Nat, slice : 0 .. 3, lane : 0 .. Lanes - 1, index : 0 .. SegmentLength]

Places ==
    /\ impl \in {"ref", "ssse3", "avx2"} /\ stage \in {"start", "segment", "block", "filled"}
    /\ position \in Position /\ memory \in [0 .. MemoryBlocks - 1 -> Nat]
    /\ stage # "block" => used = Unused /\ mixed = <<>> /\ position.index = 0
    /\ stage = "start" =>
         /\ position = [pass |-> 0, slice |-> 0, lane |-> 0, index |-> 0]
         /\ memory = [b \in 0 .. MemoryBlocks - 1 |-> 0]

\* The first block of lane k that the pass has yet to write.
Frontier(k) ==
    position.slice * SegmentLength
        + (IF k < position.lane THEN SegmentLength ELSE IF k = position.lane THEN position.index ELSE 0)

\* The pass has written the blocks below the frontier, the pass before all others.
Filled ==
    stage \in {"segment", "block"} =>
        \A k \in 0 .. Lanes - 1, j \in 0 .. LaneLength - 1 :
            memory[At(k, j)] =
                IF j < Frontier(k) THEN position.pass + 1
                ELSE IF position.pass = 0 /\ j < 2 THEN 1 ELSE position.pass

\* The block of its lane that is filled next, and the one before.
NextBlock == position.slice * SegmentLength + position.index
Previous(j) == IF j = 0 THEN LaneLength - 1 ELSE j - 1

\* What fill_segment keeps between two blocks: prev_offset is right, but after the
\* first block of a lane, when the rotation is to come.
Offset ==
    stage = "block" =>
        /\ position.pass = 0 /\ position.slice = 0 => position.index >= 2
        /\ currOffset = At(position.lane, NextBlock)
        /\ NextBlock # 1 => prevOffset = At(position.lane, Previous(NextBlock))
        /\ impl # "ref" => carried = Block(At(position.lane, Previous(NextBlock)))

ArgonInv == Places /\ Filled /\ Offset /\ BlocksSound

-----------------------------------------------------------------------------
\* What position is made of.
LEMMA Positions ==
    ASSUME Places
    PROVE  /\ position.pass \in Nat /\ position.slice \in 0 .. 3
           /\ position.lane \in 0 .. Lanes - 1 /\ position.index \in 0 .. SegmentLength
BY DEF Places, Position

\* The blocks of a slice, counted in the lane.
LEMMA Slots ==
    ASSUME NEW s \in 0 .. 3, NEW i \in 0 .. SegmentLength
    PROVE  /\ s * SegmentLength + i \in 0 .. LaneLength
           /\ i < SegmentLength => s * SegmentLength + i < LaneLength
           /\ s * SegmentLength \in Nat
           /\ s > 0 => s * SegmentLength >= SegmentLength
           /\ s = 0 => s * SegmentLength = 0
<1>1. PICK d \in Nat : d = SegmentLength /\ d >= 2 /\ LaneLength = 4 * d
    BY Sizes
<1>2. s = 0 \/ s = 1 \/ s = 2 \/ s = 3
    OBVIOUS
<1>. QED BY <1>1, <1>2

\* The first two blocks of each lane are all that is written.
LEMMA InitializeKeeps ==
    ASSUME ArgonInv, Initialize
    PROVE  ArgonInv'
<1>1. Places /\ stage = "start" /\ stage' = "segment" /\ used' = used /\ mixed' = mixed /\ impl' = impl
      /\ position' = position
    BY DEF ArgonInv, Initialize
<1>2. /\ position = [pass |-> 0, slice |-> 0, lane |-> 0, index |-> 0]
      /\ memory = [b \in 0 .. MemoryBlocks - 1 |-> 0]
    BY <1>1 DEF Places
<1>3. memory' = [b \in 0 .. MemoryBlocks - 1 |-> IF b % LaneLength < 2 THEN 1 ELSE 0]
    BY <1>2 DEF Initialize
<1>4. Places'
    <2>1. memory' \in [0 .. MemoryBlocks - 1 -> Nat]
        BY <1>3
    <2>. QED BY <1>1, <2>1 DEF Places
<1>5. Filled'
    <2>1. ASSUME NEW k \in 0 .. Lanes - 1, NEW j \in 0 .. LaneLength - 1
          PROVE  memory'[At(k, j)] = IF j < 2 THEN 1 ELSE 0
        BY <1>3, Offsets
    <2>2. ASSUME NEW k \in 0 .. Lanes - 1
          PROVE  Frontier(k)' = 0
        <3>1. 0 * SegmentLength + 0 = 0 /\ k \in Nat
            BY Sizes
        <3>. QED BY <1>1, <1>2, <3>1 DEF Frontier
    <2>3. ASSUME NEW k \in 0 .. Lanes - 1, NEW j \in 0 .. LaneLength - 1
          PROVE  ~ j < Frontier(k)'
        BY <2>2, Sizes
    <2>4. position'.pass = 0
        BY <1>1, <1>2
    <2>. QED BY <2>1, <2>3, <2>4 DEF Filled, At
<1>6. Offset'
    BY <1>1 DEF Offset
<1>7. BlocksSound'
    <2>1. used = Unused
        BY <1>1 DEF Places
    <2>2. used' = Unused
        BY <1>1, <2>1
    <2>3. Unused' = Unused
        BY DEF Unused, NoBlock
    <2>. QED BY <2>2, <2>3 DEF BlocksSound, MadeOfWritten, CarriedIsPrevious, Unused
<1>. QED BY <1>4, <1>5, <1>6, <1>7 DEF ArgonInv

\* While nothing was filled yet there is nothing to be said of it.
LEMMA UnusedSound ==
    ASSUME used' = Unused
    PROVE  BlocksSound'
<1>1. Unused' = Unused
    BY DEF Unused, NoBlock
<1>. QED BY <1>1 DEF BlocksSound, MadeOfWritten, CarriedIsPrevious, Unused

\* fill_segment begins: of the first segment two blocks are there already.
LEMMA EnterSegmentKeeps ==
    ASSUME ArgonInv, EnterSegment
    PROVE  ArgonInv'
<1>1. Places /\ stage = "segment" /\ stage' = "block" /\ memory' = memory /\ used' = used /\ mixed' = mixed
      /\ impl' = impl
    BY DEF ArgonInv, EnterSegment
<1>2. PICK p \in Nat, s \in 0 .. 3, l \in 0 .. Lanes - 1 :
         p = position.pass /\ s = position.slice /\ l = position.lane /\ position.index = 0
    BY <1>1, Positions DEF Places
<1>3. PICK n \in {0, 2} : n = IF p = 0 /\ s = 0 THEN 2 ELSE 0
    OBVIOUS
<1>4. position' = [position EXCEPT !.index = n]
    BY <1>2, <1>3 DEF EnterSegment
<1>5. position' \in Position /\ position'.pass = p /\ position'.slice = s /\ position'.lane = l
      /\ position'.index = n
    <2>1. n \in 0 .. SegmentLength
        BY Sizes
    <2>. QED BY <1>1, <1>2, <1>4, <2>1 DEF Places, Position
<1>6. Places'
    BY <1>1, <1>5 DEF Places
<1>7. PICK o \in 0 .. LaneLength - 1 : o = s * SegmentLength + n
    <2>1. n \in 0 .. SegmentLength /\ SegmentLength \in Nat /\ SegmentLength >= 2
          /\ LaneLength = 4 * SegmentLength
        BY Sizes
    <2>2. s * SegmentLength + n \in 0 .. LaneLength - 1
        BY <1>3, <2>1, Slots
    <2>. QED BY <2>2
<1>8. Filled'
    <2>1. ASSUME NEW k \in 0 .. Lanes - 1, NEW j \in 0 .. LaneLength - 1
          PROVE  memory'[At(k, j)] =
                    IF j < Frontier(k)' THEN p + 1 ELSE IF p = 0 /\ j < 2 THEN 1 ELSE p
        <3>1. memory[At(k, j)] = IF j < Frontier(k) THEN p + 1 ELSE IF p = 0 /\ j < 2 THEN 1 ELSE p
            BY <1>1, <1>2 DEF ArgonInv, Filled
        <3>2. Frontier(k) = s * SegmentLength + (IF k < l THEN SegmentLength ELSE IF k = l THEN 0 ELSE 0)
            BY <1>2 DEF Frontier
        <3>3. Frontier(k)' = s * SegmentLength + (IF k < l THEN SegmentLength ELSE IF k = l THEN n ELSE 0)
            BY <1>5 DEF Frontier
        <3>4. s = 0 => s * SegmentLength = 0
            BY Slots, Sizes
        <3>5. CASE n = 0
            BY <1>1, <3>1, <3>2, <3>3, <3>5
        <3>6. CASE n = 2 /\ k = l
            <4>1. p = 0 /\ s = 0 /\ k \in Nat /\ l \in Nat
                BY <1>3, <3>6
            <4>2. Frontier(k) = 0 /\ Frontier(k)' = 2
                BY <3>2, <3>3, <3>4, <3>6, <4>1
            <4>. QED BY <1>1, <3>1, <4>1, <4>2
        <3>7. CASE k # l
            BY <1>1, <3>1, <3>2, <3>3, <3>7
        <3>. QED BY <3>5, <3>6, <3>7
    <2>. QED BY <1>5, <2>1 DEF Filled, At
<1>9. /\ currOffset' = At(l, o)
      /\ prevOffset' = At(l, Previous(o))
    <2>1. currOffset' = l * LaneLength + s * SegmentLength + n
        BY <1>2, <1>3 DEF EnterSegment
    <2>2. l * LaneLength \in Nat /\ s * SegmentLength \in Nat /\ LaneLength \in Nat
        BY Sizes
    <2>3. currOffset' = At(l, o)
        BY <1>7, <2>1, <2>2 DEF At
    <2>4. prevOffset' = IF currOffset' % LaneLength = 0 THEN currOffset' + LaneLength - 1 ELSE currOffset' - 1
        BY DEF EnterSegment
    <2>5. currOffset' % LaneLength = o
        BY <2>3, Offsets
    <2>. QED BY <2>2, <2>3, <2>4, <2>5 DEF At, Previous
<1>10. Offset'
    <2>1. NextBlock' = o
        BY <1>5, <1>7 DEF NextBlock
    <2>2. p = 0 /\ s = 0 => n >= 2
        BY <1>3
    <2>3. impl' # "ref" => carried' = Block(prevOffset')
        BY <1>1 DEF EnterSegment, Block
    <2>4. Block(prevOffset') = Block(prevOffset)'
        BY <1>1 DEF Block
    <2>5. At(l, Previous(o)) = At(position'.lane, Previous(NextBlock'))
        BY <1>5, <2>1
    <2>6. At(position.lane, Previous(NextBlock))' = At(position'.lane, Previous(NextBlock'))
        BY DEF At, Previous
    <2>7. At(position.lane, NextBlock)' = At(l, o)
        BY <1>5, <2>1 DEF At
    <2>8. /\ (position.pass = 0 /\ position.slice = 0 => position.index >= 2)'
          /\ (currOffset = At(position.lane, NextBlock))'
          /\ (prevOffset = At(position.lane, Previous(NextBlock)))'
        BY <1>5, <1>9, <2>2, <2>5, <2>6, <2>7
    <2>9. (impl # "ref" => carried = Block(At(position.lane, Previous(NextBlock))))'
        BY <1>1, <1>9, <2>3, <2>5, <2>6 DEF Block
    <2>. QED BY <2>8, <2>9 DEF Offset
<1>11. used' = Unused
    BY <1>1 DEF Places
<1>. QED BY <1>6, <1>8, <1>10, <1>11, UnusedSound DEF ArgonInv

\* A segment ends: the frontier of its lane is the one of the next slice.
LEMMA LeaveSegmentKeeps ==
    ASSUME ArgonInv, LeaveSegment
    PROVE  ArgonInv'
<1>1. Places /\ stage = "block" /\ stage' \in {"segment", "filled"} /\ memory' = memory /\ used' = Unused
      /\ mixed' = <<>> /\ impl' = impl
    BY DEF ArgonInv, LeaveSegment
<1>2. PICK p \in Nat, s \in 0 .. 3, l \in 0 .. Lanes - 1 :
         p = position.pass /\ s = position.slice /\ l = position.lane /\ position.index = SegmentLength
    BY <1>1, Positions DEF LeaveSegment
<1>3. PICK q \in Nat, t \in 0 .. 3, k \in 0 .. Lanes - 1 :
         /\ position' = [pass |-> q, slice |-> t, lane |-> k, index |-> 0]
         /\ \/ l < Lanes - 1 /\ k = l + 1 /\ t = s /\ q = p
            \/ l = Lanes - 1 /\ k = 0 /\ s < 3 /\ t = s + 1 /\ q = p
            \/ l = Lanes - 1 /\ k = 0 /\ s = 3 /\ t = 0 /\ q = p + 1
    <2>1. position' = [pass |-> p + (IF l = Lanes - 1 /\ s = 3 THEN 1 ELSE 0),
                       slice |-> IF l = Lanes - 1 THEN (s + 1) % 4 ELSE s,
                       lane |-> (l + 1) % Lanes, index |-> 0]
        BY <1>2 DEF LeaveSegment, SyncPoints
    <2>2. /\ l < Lanes - 1 => (l + 1) % Lanes = l + 1
          /\ l = Lanes - 1 => (l + 1) % Lanes = 0
          /\ Lanes \in Nat /\ Lanes > 0
        <3>1. PICK d \in Nat : d = Lanes /\ d > 0
            BY Sizes
        <3>2. ASSUME l < Lanes - 1 PROVE (0 * d + (l + 1)) % d = l + 1
            BY <3>1, <3>2, Divided
        <3>3. (1 * d + 0) % d = 0
            BY <3>1, Divided
        <3>. QED BY <3>1, <3>2, <3>3
    <2>3. (s + 1) % 4 = IF s = 3 THEN 0 ELSE s + 1
        OBVIOUS
    <2>4. CASE l < Lanes - 1
        <3>1. position' = [pass |-> p, slice |-> s, lane |-> l + 1, index |-> 0] /\ l + 1 \in 0 .. Lanes - 1
            BY <2>1, <2>2, <2>4
        <3>. QED BY <2>4, <3>1
    <2>5. CASE l = Lanes - 1 /\ s < 3
        <3>1. position' = [pass |-> p, slice |-> s + 1, lane |-> 0, index |-> 0]
              /\ s + 1 \in 0 .. 3 /\ 0 \in 0 .. Lanes - 1
            BY <2>1, <2>2, <2>3, <2>5
        <3>. QED BY <2>5, <3>1
    <2>6. CASE l = Lanes - 1 /\ s = 3
        <3>1. position' = [pass |-> p + 1, slice |-> 0, lane |-> 0, index |-> 0] /\ 0 \in 0 .. Lanes - 1
            BY <2>1, <2>2, <2>3, <2>6
        <3>. QED BY <2>6, <3>1
    <2>. QED BY <2>2, <2>4, <2>5, <2>6
<1>4. Places'
    <2>1. position' \in Position /\ position'.index = 0
        BY <1>3, Sizes DEF Position
    <2>. QED BY <1>1, <2>1 DEF Places, Unused, NoBlock
<1>5. Filled'
    <2>1. ASSUME NEW h \in 0 .. Lanes - 1, NEW j \in 0 .. LaneLength - 1
          PROVE  memory'[At(h, j)] =
                    IF j < Frontier(h)' THEN q + 1 ELSE IF q = 0 /\ j < 2 THEN 1 ELSE q
        <3>1. memory'[At(h, j)] = IF j < Frontier(h) THEN p + 1 ELSE IF p = 0 /\ j < 2 THEN 1 ELSE p
            BY <1>1, <1>2 DEF ArgonInv, Filled
        <3>2. PICK d \in Nat : d = SegmentLength /\ d >= 2 /\ LaneLength = 4 * d
            BY Sizes
        <3>3. Frontier(h) = s * d + (IF h <= l THEN d ELSE 0)
            <4>1. Frontier(h) = s * d + (IF h < l THEN d ELSE IF h = l THEN d ELSE 0)
                BY <1>2, <3>2 DEF Frontier
            <4>2. h <= l <=> h < l \/ h = l
                BY Sizes
            <4>. QED BY <4>1, <4>2
        <3>4. Frontier(h)' = t * d + (IF h < k THEN d ELSE 0)
            BY <1>3, <3>2 DEF Frontier
        <3>5. CASE q = p
            <4>1. Frontier(h)' = Frontier(h)
                BY <1>3, <3>2, <3>3, <3>4, <3>5
            <4>. QED BY <3>1, <3>5, <4>1
        <3>6. CASE q = p + 1
            <4>1. t = 0 /\ k = 0 /\ s = 3 /\ h <= l /\ h \in Nat
                BY <1>3, <3>6, Sizes
            <4>2. Frontier(h) = LaneLength /\ Frontier(h)' = 0
                BY <3>2, <3>3, <3>4, <4>1
            <4>. QED BY <3>1, <3>2, <3>6, <4>2
        <3>. QED BY <1>3, <3>5, <3>6
    <2>. QED BY <1>3, <2>1 DEF Filled, At
<1>6. Offset'
    BY <1>1 DEF Offset
<1>. QED BY <1>1, <1>4, <1>5, <1>6, UnusedSound DEF ArgonInv

-----------------------------------------------------------------------------
\* The block that is filled, and the one before, are where fill_segment has them.
LEMMA BlockPlaced ==
    ASSUME ArgonInv, stage = "block", position.index < SegmentLength, NEW o, o = NextBlock
    PROVE  /\ o \in 0 .. LaneLength - 1 /\ Previous(o) \in 0 .. LaneLength - 1
           /\ position.pass = 0 => o >= 2
           /\ currOffset = At(position.lane, o)
           /\ (IF currOffset % LaneLength = 1 THEN currOffset - 1 ELSE prevOffset)
                = At(position.lane, Previous(o))
           /\ impl # "ref" => carried = Block(At(position.lane, Previous(o)))
<1>1. /\ position.pass \in Nat /\ position.slice \in 0 .. 3
      /\ position.lane \in 0 .. Lanes - 1 /\ position.index \in 0 .. SegmentLength
    BY Positions DEF ArgonInv
<1>2. /\ position.pass = 0 /\ position.slice = 0 => position.index >= 2
      /\ currOffset = At(position.lane, o)
      /\ o # 1 => prevOffset = At(position.lane, Previous(o))
      /\ impl # "ref" => carried = Block(At(position.lane, Previous(o)))
    BY DEF ArgonInv, Offset
<1>3. PICK l \in 0 .. Lanes - 1, s \in 0 .. 3, i \in 0 .. SegmentLength - 1 :
         l = position.lane /\ s = position.slice /\ i = position.index
    BY <1>1, Sizes
<1>4. PICK d \in Nat : d = SegmentLength /\ d >= 2 /\ LaneLength = 4 * d
    BY Sizes
<1>5. o = s * d + i
    BY <1>3, <1>4 DEF NextBlock
<1>6. o \in 0 .. LaneLength - 1
    BY <1>3, <1>4, <1>5
<1>7. position.pass = 0 => o >= 2
    BY <1>2, <1>3, <1>4, <1>5
<1>8. Previous(o) \in 0 .. LaneLength - 1
    BY <1>4, <1>6 DEF Previous
<1>9. currOffset % LaneLength = o
    BY <1>2, <1>3, <1>6, Offsets
<1>10. o = 1 => currOffset - 1 = At(position.lane, Previous(o))
    <2>1. l * LaneLength \in Nat
        BY <1>3, Sizes
    <2>. QED BY <1>2, <1>3, <2>1 DEF At, Previous
<1>. QED BY <1>2, <1>6, <1>7, <1>8, <1>9, <1>10

\* Which block of lane k is referred to.
Refers(k, j, o) ==
    /\ j \in 0 .. LaneLength - 1
    /\ k = position.lane => j # o /\ j # Previous(o) /\ (position.pass = 0 => j < o)
    /\ k # position.lane =>
         /\ j \div SegmentLength # position.slice
         /\ position.pass = 0 => j < position.slice * SegmentLength

\* index_alpha: of the blocks that are written, all but the previous one of this
\* lane, and those of the finished segments of the others.
LEMMA Reference ==
    ASSUME ArgonInv, stage = "block", position.index < SegmentLength, NEW o, o = NextBlock,
           NEW k \in 0 .. Lanes - 1, position.pass = 0 /\ position.slice = 0 => k = position.lane,
           NEW rand \in 0 .. 2^RandBits - 1, NEW j, j = randomx_argon2_index_alpha(rand, k = position.lane)
    PROVE  Refers(k, j, o)
<1>1. /\ position.pass \in Nat /\ position.slice \in 0 .. 3
      /\ position.lane \in 0 .. Lanes - 1 /\ position.index \in 0 .. SegmentLength
    BY Positions DEF ArgonInv
<1>2. position.pass = 0 /\ position.slice = 0 => position.index >= 2
    BY DEF ArgonInv, Offset
<1>3. PICK d \in Nat : d = SegmentLength /\ d >= 2 /\ LaneLength = 4 * d
    BY Sizes
<1>4. PICK l \in Nat, s \in 0 .. 3, i \in 0 .. d - 1, p \in Nat :
         l = position.lane /\ s = position.slice /\ i = position.index /\ p = position.pass
    BY <1>1, <1>3, Sizes
<1>5. PICK w \in {0, 1} : w = 1 <=> k = l
    <2>1. (IF k = l THEN 1 ELSE 0) \in {0, 1} /\ ((IF k = l THEN 1 ELSE 0) = 1 <=> k = l)
        OBVIOUS
    <2>. QED BY <2>1
<1>6. PICK f \in Nat : /\ f = s * d /\ o = f + i
                       /\ \/ s = 0 /\ f = 0
                          \/ s = 1 /\ f = d
                          \/ s = 2 /\ f = 2 * d
                          \/ s = 3 /\ f = 3 * d
    <2>1. s * d \in Nat /\ (s = 0 \/ s = 1 \/ s = 2 \/ s = 3)
        BY <1>3
    <2>2. /\ s = 0 => s * d = 0
          /\ s = 1 => s * d = d
          /\ s = 2 => s * d = 2 * d
          /\ s = 3 => s * d = 3 * d
        BY <1>3
    <2>3. o = s * d + i
        BY <1>3, <1>4 DEF NextBlock
    <2>. QED BY <2>1, <2>2, <2>3
<1>7. PICK e \in {0, 1} : e = IF i = 0 THEN 1 ELSE 0
    OBVIOUS
<1>8. PICK area \in Nat : /\ area = referenceArea(w = 1) /\ area > 0
                          /\ p = 0 => o >= 2
                          /\ p = 0 /\ w = 1 => area = o - 1
                          /\ p = 0 /\ w = 0 => area = f - e
                          /\ p # 0 /\ w = 1 => area = 3 * d + i - 1
                          /\ p # 0 /\ w = 0 => area = 3 * d - e
    <2>1. PICK before \in Nat : before = IF p = 0 THEN f ELSE 3 * d
        BY <1>3
    <2>2. referenceArea(w = 1) = IF w = 1 THEN before + i - 1 ELSE before - e
        <3>1. (IF position.pass = 0 THEN position.slice * SegmentLength ELSE LaneLength - SegmentLength)
                = before
            <4>1. position.slice * SegmentLength = f /\ LaneLength - SegmentLength = 3 * d
                BY <1>3, <1>4, <1>6
            <4>. QED BY <1>4, <2>1, <4>1
        <3>. QED BY <1>4, <1>7, <3>1 DEF referenceArea
    <2>3. p = 0 => o >= 2
        BY <1>2, <1>3, <1>4, <1>6
    <2>4. CASE w = 1
        <3>1. referenceArea(w = 1) = before + i - 1
            BY <2>2, <2>4
        <3>2. before + i - 1 \in Nat /\ before + i - 1 > 0
            BY <1>3, <1>6, <2>1, <2>3
        <3>3. p = 0 => before + i - 1 = o - 1
            BY <1>6, <2>1
        <3>4. p # 0 => before + i - 1 = 3 * d + i - 1
            BY <2>1
        <3>. QED BY <2>3, <2>4, <3>1, <3>2, <3>3, <3>4
    <2>5. CASE w = 0
        <3>1. referenceArea(w = 1) = before - e
            BY <2>2, <2>5
        <3>2. p = 0 => s # 0
            BY <1>4, <1>5, <2>5
        <3>3. before - e \in Nat /\ before - e > 0
            BY <1>3, <1>6, <2>1, <3>2
        <3>4. (p = 0 => before - e = f - e) /\ (p # 0 => before - e = 3 * d - e)
            BY <2>1
        <3>. QED BY <2>3, <2>5, <3>1, <3>3, <3>4
    <2>. QED BY <2>4, <2>5
<1>9. PICK rel \in 0 .. area - 1 : rel = area - 1 - ((area * ((rand * rand) \div 2^RandBits)) \div 2^RandBits)
    BY <1>8, Drawn
<1>10. PICK start \in Nat : start = IF p = 0 \/ s = 3 THEN 0 ELSE (s + 1) * d
    BY <1>3
<1>11. j = (start + rel) % LaneLength
    <2>1. (k = position.lane) <=> w = 1
        BY <1>4, <1>5
    <2>2. referenceArea(k = position.lane) = area
        BY <1>8, <2>1 DEF referenceArea
    <2>3. (IF position.pass = 0 \/ position.slice = SyncPoints - 1 THEN 0
           ELSE (position.slice + 1) * SegmentLength) = start
        BY <1>3, <1>4, <1>10 DEF SyncPoints
    <2>. QED BY <1>9, <2>2, <2>3 DEF randomx_argon2_index_alpha
<1>12. start = IF p = 0 \/ s = 3 THEN 0 ELSE f + d
    BY <1>3, <1>6, <1>10
<1>13. start + rel \in 0 .. 2 * LaneLength - 1
    <2>1. area <= 4 * d
        <3>1. CASE p = 0 /\ w = 1
            BY <1>3, <1>6, <1>8, <3>1
        <3>2. CASE p = 0 /\ w = 0
            BY <1>3, <1>6, <1>8, <3>2
        <3>3. CASE p # 0 /\ w = 1
            BY <1>3, <1>6, <1>8, <3>3
        <3>4. CASE p # 0 /\ w = 0
            BY <1>3, <1>6, <1>8, <3>4
        <3>. QED BY <3>1, <3>2, <3>3, <3>4
    <2>2. start <= 3 * d
        BY <1>3, <1>6, <1>12
    <2>. QED BY <1>3, <1>8, <1>9, <1>10, <2>1, <2>2
<1>14. j = IF start + rel < LaneLength THEN start + rel ELSE start + rel - LaneLength
    <2>1. PICK x \in 0 .. 2 * LaneLength - 1 : x = start + rel
        BY <1>13
    <2>2. x % LaneLength = IF x < LaneLength THEN x ELSE x - LaneLength
        BY Wrapped
    <2>3. j = x % LaneLength
        BY <1>11, <2>1, Zenon
    <2>4. j = IF x < LaneLength THEN x ELSE x - LaneLength
        BY <2>2, <2>3, Zenon
    <2>. QED BY <1>3, <2>1, <2>4
<1>15. j \in 0 .. LaneLength - 1
    BY <1>3, <1>13, <1>14
<1>16. CASE p = 0
    <2>1. start = 0 /\ rel < LaneLength /\ j = rel
        <3>1. area <= LaneLength
            <4>1. CASE w = 1
                BY <1>3, <1>6, <1>8, <1>16, <4>1
            <4>2. CASE w = 0
                BY <1>3, <1>6, <1>8, <1>16, <4>2
            <4>. QED BY <4>1, <4>2
        <3>. QED BY <1>3, <1>9, <1>14, <1>16, <1>12, <3>1
    <2>2. CASE w = 1
        <3>1. j < o - 1
            BY <1>6, <1>8, <1>9, <1>16, <2>1, <2>2
        <3>2. j # o /\ j # Previous(o) /\ j < o
            BY <1>6, <1>8, <1>15, <1>16, <3>1 DEF Previous
        <3>. QED BY <1>4, <1>5, <1>15, <2>2, <3>2 DEF Refers
    <2>3. CASE w = 0
        <3>1. j < f /\ f = s * d
            BY <1>6, <1>8, <1>9, <1>16, <2>1, <2>3
        <3>2. ~ (s * SegmentLength <= j)
            BY <1>3, <1>6, <1>15, <3>1
        <3>3. j \div SegmentLength # s
            BY <1>15, <3>2, Slices
        <3>. QED BY <1>3, <1>4, <1>5, <1>15, <2>3, <3>1, <3>3 DEF Refers
    <2>. QED BY <2>2, <2>3
<1>17. CASE p # 0
    <2>1. start = IF s = 3 THEN 0 ELSE f + d
        BY <1>17, <1>12
    <2>2. CASE w = 1
        <3>1. rel \in 0 .. 3 * d + i - 2
            BY <1>3, <1>4, <1>8, <1>9, <1>17, <2>2
        <3>2. j # o /\ j # Previous(o)
            <4>1. CASE s = 0
                BY <1>3, <1>4, <1>6, <1>14, <2>1, <3>1, <4>1 DEF Previous
            <4>2. CASE s = 1
                BY <1>3, <1>4, <1>6, <1>14, <2>1, <3>1, <4>2 DEF Previous
            <4>3. CASE s = 2
                BY <1>3, <1>4, <1>6, <1>14, <2>1, <3>1, <4>3 DEF Previous
            <4>4. CASE s = 3
                BY <1>3, <1>4, <1>6, <1>14, <2>1, <3>1, <4>4 DEF Previous
            <4>. QED BY <4>1, <4>2, <4>3, <4>4
        <3>. QED BY <1>4, <1>5, <1>15, <1>17, <2>2, <3>2 DEF Refers
    <2>3. CASE w = 0
        <3>1. rel \in 0 .. 3 * d - 1
            BY <1>3, <1>4, <1>8, <1>9, <1>17, <2>3
        <3>2. ~ (s * SegmentLength <= j /\ j < s * SegmentLength + SegmentLength)
            <4>1. CASE s = 0
                BY <1>3, <1>6, <1>14, <2>1, <3>1, <4>1
            <4>2. CASE s = 1
                BY <1>3, <1>6, <1>14, <2>1, <3>1, <4>2
            <4>3. CASE s = 2
                BY <1>3, <1>6, <1>14, <2>1, <3>1, <4>3
            <4>4. CASE s = 3
                BY <1>3, <1>6, <1>14, <2>1, <3>1, <4>4
            <4>. QED BY <4>1, <4>2, <4>3, <4>4
        <3>3. j \div SegmentLength # s
            BY <1>15, <3>2, Slices
        <3>. QED BY <1>4, <1>5, <1>15, <1>17, <2>3, <3>3 DEF Refers
    <2>. QED BY <2>2, <2>3
<1>. QED BY <1>16, <1>17

\* Block o of lane l has been written in pass v, and no other.
OneFilled(l, o, v) ==
    /\ memory' \in [0 .. MemoryBlocks - 1 -> Nat]
    /\ memory'[At(l, o)] = v
    /\ \A h \in 0 .. Lanes - 1, j \in 0 .. LaneLength - 1 :
         ~ (h = l /\ j = o) => memory'[At(h, j)] = memory[At(h, j)]

\* Filling a block leaves the others alone.
LEMMA FillsOne ==
    ASSUME Places, NEW l \in 0 .. Lanes - 1, NEW o \in 0 .. LaneLength - 1, NEW v \in Nat,
           memory' = [memory EXCEPT ![At(l, o)] = v]
    PROVE  OneFilled(l, o, v)
<1>1. PICK f \in [0 .. MemoryBlocks - 1 -> Nat] : f = memory
    BY DEF Places
<1>2. PICK a \in 0 .. MemoryBlocks - 1 : a = At(l, o)
    BY Offsets
<1>3. memory' = [f EXCEPT ![a] = v]
    BY <1>1, <1>2
<1>4. ASSUME NEW h \in 0 .. Lanes - 1, NEW j \in 0 .. LaneLength - 1, ~ (h = l /\ j = o)
      PROVE  memory'[At(h, j)] = memory[At(h, j)]
    <2>1. PICK b \in 0 .. MemoryBlocks - 1 : b = At(h, j)
        BY Offsets
    <2>2. LaneOf(b) = h /\ b % LaneLength = j
        BY <2>1, Offsets
    <2>3. LaneOf(a) = l /\ a % LaneLength = o
        BY <1>2, Offsets
    <2>4. a # b
        BY <1>4, <2>2, <2>3
    <2>. QED BY <1>1, <1>3, <2>1, <2>4
<1>. QED BY <1>1, <1>2, <1>3, <1>4 DEF OneFilled

\* What there is to read: everything below the frontier, and from the second pass
\* on everything.
LEMMA IsWritten ==
    ASSUME ArgonInv, stage = "block", NEW k \in 0 .. Lanes - 1, NEW j \in 0 .. LaneLength - 1,
           position.pass # 0 \/ j < Frontier(k)
    PROVE  memory[At(k, j)] \in Nat /\ memory[At(k, j)] >= 1
<1>1. PICK p \in Nat : p = position.pass
    BY Positions DEF ArgonInv
<1>2. memory[At(k, j)] = IF j < Frontier(k) THEN p + 1 ELSE IF p = 0 /\ j < 2 THEN 1 ELSE p
    BY <1>1 DEF ArgonInv, Filled
<1>3. CASE j < Frontier(k)
    BY <1>1, <1>2, <1>3
<1>4. CASE p # 0 /\ ~ j < Frontier(k)
    BY <1>1, <1>2, <1>4
<1>. QED BY <1>1, <1>3, <1>4

\* A block is filled: the frontier of its lane moves on by one.
LEMMA FillBlockKeeps ==
    ASSUME ArgonInv, NEW rand \in 0 .. 2^RandBits - 1, NEW drawnLane \in 0 .. Lanes - 1,
           FillBlock(rand, drawnLane)
    PROVE  ArgonInv'
<1>1. stage = "block" /\ stage' = "block" /\ impl' = impl /\ position.index < SegmentLength
    BY DEF FillBlock
<1>2. PICK p \in Nat, s \in 0 .. 3, l \in 0 .. Lanes - 1, i \in Nat :
         p = position.pass /\ s = position.slice /\ l = position.lane /\ i = position.index
    BY Positions, Sizes DEF ArgonInv
<1>3. PICK o \in 0 .. LaneLength - 1 : o = NextBlock
    BY <1>1, BlockPlaced
<1>4. PICK h \in 0 .. LaneLength - 1 : h = Previous(o) /\ (p = 0 => o >= 2)
    BY <1>1, <1>2, <1>3, BlockPlaced
<1>5. /\ currOffset = At(l, o)
      /\ (IF currOffset % LaneLength = 1 THEN currOffset - 1 ELSE prevOffset) = At(l, h)
      /\ impl # "ref" => carried = Block(At(l, h))
    BY <1>1, <1>2, <1>3, <1>4, BlockPlaced
<1>6. PICK k \in 0 .. Lanes - 1 : k = IF p = 0 /\ s = 0 THEN l ELSE drawnLane
    OBVIOUS
<1>7. PICK j : j = randomx_argon2_index_alpha(rand, k = l)
    OBVIOUS
<1>8. Refers(k, j, o)
    <2>1. position.pass = 0 /\ position.slice = 0 => k = position.lane
        BY <1>2, <1>6
    <2>2. j = randomx_argon2_index_alpha(rand, k = position.lane)
        BY <1>2, <1>7
    <2>. QED BY <1>1, <1>3, <2>1, <2>2, Reference
<1>9. /\ memory' = [memory EXCEPT ![At(l, o)] = p + 1]
      /\ carried' = Carry([offset |-> At(l, o), pass |-> p + 1])
      /\ used' = [prev |-> IF impl = "ref" THEN Block(At(l, h)) ELSE carried,
                  pseudo |-> Block(At(l, h)), ref |-> Block(LaneLength * k + j), into |-> Block(At(l, o))]
      /\ position' = [position EXCEPT !.index = i + 1]
      /\ currOffset' = At(l, o) + 1 /\ prevOffset' = At(l, h) + 1
    BY <1>2, <1>5, <1>6, <1>7 DEF FillBlock
<1>10. /\ memory' \in [0 .. MemoryBlocks - 1 -> Nat] /\ memory'[At(l, o)] = p + 1
       /\ \A a \in 0 .. Lanes - 1, b \in 0 .. LaneLength - 1 :
            ~ (a = l /\ b = o) => memory'[At(a, b)] = memory[At(a, b)]
    <2>1. PICK v \in Nat : v = p + 1
        OBVIOUS
    <2>2. memory' = [memory EXCEPT ![At(l, o)] = v]
        BY <1>9, <2>1
    <2>3. Places
        BY DEF ArgonInv
    <2>4. OneFilled(l, o, v)
        BY <2>2, <2>3, FillsOne
    <2>. QED BY <2>1, <2>4 DEF OneFilled
<1>11. /\ position' \in Position /\ position'.pass = p /\ position'.slice = s /\ position'.lane = l
       /\ position'.index = i + 1
    <2>1. i + 1 \in 0 .. SegmentLength
        <3>1. PICK d \in Nat : d = SegmentLength
            BY Sizes
        <3>2. i < d
            BY <1>1, <1>2, <3>1
        <3>. QED BY <3>1, <3>2
    <2>2. position \in Position
        BY DEF ArgonInv, Places
    <2>. QED BY <1>2, <1>9, <2>1, <2>2 DEF Position
<1>12. Places'
    BY <1>1, <1>10, <1>11 DEF ArgonInv, Places
<1>13. Filled'
    <2>1. ASSUME NEW a \in 0 .. Lanes - 1, NEW b \in 0 .. LaneLength - 1
          PROVE  memory'[At(a, b)] =
                    IF b < Frontier(a)' THEN p + 1 ELSE IF p = 0 /\ b < 2 THEN 1 ELSE p
        <3>1. memory[At(a, b)] = IF b < Frontier(a) THEN p + 1 ELSE IF p = 0 /\ b < 2 THEN 1 ELSE p
            BY <1>1, <1>2 DEF ArgonInv, Filled
        <3>2. a # l => Frontier(a)' = Frontier(a)
            BY <1>2, <1>11 DEF Frontier
        <3>3. Frontier(l) = o /\ Frontier(l)' = o + 1
            <4>1. ~ l < l /\ l \in Nat
                BY Sizes
            <4>2. s * SegmentLength \in Nat
                BY Sizes
            <4>3. o = s * SegmentLength + i
                BY <1>2, <1>3 DEF NextBlock
            <4>4. Frontier(l) = s * SegmentLength + i
                BY <1>2, <4>1 DEF Frontier
            <4>5. Frontier(l)' = s * SegmentLength + (i + 1)
                BY <1>11, <4>1 DEF Frontier
            <4>. QED BY <4>2, <4>3, <4>4, <4>5
        <3>4. CASE a # l
            BY <1>10, <3>1, <3>2, <3>4
        <3>5. CASE a = l /\ b = o
            BY <1>10, <3>3, <3>5, Sizes
        <3>6. CASE a = l /\ b # o
            <4>1. b < o <=> b < o + 1
                BY <3>6, Sizes
            <4>2. memory'[At(a, b)] = memory[At(a, b)]
                BY <1>10, <3>6
            <4>. QED BY <3>1, <3>3, <3>6, <4>1, <4>2
        <3>. QED BY <3>4, <3>5, <3>6
    <2>. QED BY <1>11, <2>1 DEF Filled, At
<1>14. Offset'
    <2>1. NextBlock' = o + 1 /\ Previous(o + 1) = o
        <3>1. s * SegmentLength \in Nat /\ o \in Nat
            BY Sizes
        <3>2. o = s * SegmentLength + i /\ NextBlock' = s * SegmentLength + (i + 1)
            BY <1>2, <1>3, <1>11 DEF NextBlock
        <3>. QED BY <3>1, <3>2 DEF Previous
    <2>2. l * LaneLength \in Nat /\ o \in Nat /\ h \in Nat
        BY Sizes
    <2>3. currOffset' = At(l, o + 1)
        BY <1>9, <2>2 DEF At
    <2>4. o + 1 # 1 => prevOffset' = At(l, o)
        <3>1. o # 0 => h + 1 = o
            BY <1>4, <2>2 DEF Previous
        <3>. QED BY <1>9, <2>2, <3>1 DEF At
    <2>5. impl' # "ref" => carried' = [offset |-> At(l, o), pass |-> memory'[At(l, o)]]
        BY <1>1, <1>9, <1>10 DEF Carry
    <2>6. p = 0 /\ s = 0 => i + 1 >= 2
        BY <1>1, <1>2 DEF ArgonInv, Offset
    <2>7. At(position.lane, NextBlock)' = At(l, o + 1)
        BY <1>11, <2>1 DEF At
    <2>8. At(position.lane, Previous(NextBlock))' = At(l, o)
        BY <1>11, <2>1 DEF At, Previous
    <2>. QED BY <1>11, <2>1, <2>3, <2>4, <2>5, <2>6, <2>7, <2>8 DEF Offset, Block
<1>15. j \in 0 .. LaneLength - 1 /\ LaneLength * k + j = At(k, j)
    <2>1. j \in 0 .. LaneLength - 1
        BY <1>8 DEF Refers
    <2>2. LaneLength * k = k * LaneLength
        BY Sizes
    <2>. QED BY <2>1, <2>2 DEF At
<1>16. /\ used'.pseudo = Block(At(l, h)) /\ used'.ref = Block(At(k, j)) /\ used'.into = Block(At(l, o))
       /\ used'.prev = Block(At(l, h))
    BY <1>5, <1>9, <1>15
<1>17. memory[At(l, h)] >= 1 /\ memory[At(k, j)] >= 1
    <2>1. Frontier(l) = o
        <3>1. ~ l < l
            BY Sizes
        <3>. QED BY <1>2, <1>3, <3>1 DEF Frontier, NextBlock
    <2>2. position.pass # 0 \/ h < Frontier(l)
        BY <1>2, <1>4, <2>1, Sizes DEF Previous
    <2>3. position.pass # 0 \/ j < Frontier(k)
        <3>1. CASE k = l
            BY <1>2, <1>8, <2>1, <3>1 DEF Refers
        <3>2. CASE k # l /\ p = 0
            <4>1. j < s * SegmentLength
                BY <1>2, <1>8, <3>2 DEF Refers
            <4>2. Frontier(k) = s * SegmentLength + (IF k < l THEN SegmentLength ELSE 0)
                BY <1>2, <3>2 DEF Frontier
            <4>3. s * SegmentLength \in Nat /\ SegmentLength \in Nat /\ LaneLength \in Nat
                BY Sizes
            <4>. QED BY <1>15, <4>1, <4>2, <4>3
        <3>. QED BY <1>2, <3>1, <3>2
    <2>. QED BY <1>1, <1>15, <2>2, <2>3, IsWritten
<1>18. memory[At(l, o)] = p
    <2>1. Frontier(l) = o
        <3>1. ~ l < l
            BY Sizes
        <3>. QED BY <1>2, <1>3, <3>1 DEF Frontier, NextBlock
    <2>2. memory[At(l, o)] = IF o < Frontier(l) THEN p + 1 ELSE IF p = 0 /\ o < 2 THEN 1 ELSE p
        BY <1>1, <1>2 DEF ArgonInv, Filled
    <2>. QED BY <1>4, <2>1, <2>2, Sizes
<1>19. BlocksSound'
    <2>1. /\ At(l, o) % LaneLength = o /\ LaneOf(At(l, o)) = l
          /\ At(l, h) % LaneLength = h /\ LaneOf(At(l, h)) = l
          /\ At(k, j) % LaneLength = j /\ LaneOf(At(k, j)) = k
        BY <1>15, Offsets
    <2>2. At(l, h) = (l * LaneLength) + ((At(l, o) + LaneLength - 1) % LaneLength)
        <3>1. (At(l, o) + LaneLength - 1) % LaneLength = h
            <4>1. PICK d \in Nat : d = LaneLength /\ d > 1
                BY Sizes
            <4>2. l \in Nat /\ l * d \in Nat /\ (l + 1) * d = l * d + d
                BY <4>1, Sizes
            <4>3. CASE o = 0
                <5>1. h = d - 1 /\ At(l, o) + LaneLength - 1 = l * d + h
                    BY <1>4, <4>1, <4>2, <4>3 DEF Previous, At
                <5>2. (l * d + h) % d = h
                    BY <4>1, <4>2, Divided
                <5>. QED BY <4>1, <5>1, <5>2
            <4>4. CASE o # 0
                <5>1. h = o - 1 /\ At(l, o) + LaneLength - 1 = (l + 1) * d + h
                    BY <1>4, <4>1, <4>2, <4>4 DEF Previous, At
                <5>2. ((l + 1) * d + h) % d = h
                    BY <4>1, <4>2, Divided
                <5>. QED BY <4>1, <5>1, <5>2
            <4>. QED BY <4>3, <4>4
        <3>. QED BY <3>1 DEF At
    <2>3. At(k, j) \notin {At(l, o), At(l, h)}
        <3>1. ~ (k = l /\ j = o) /\ ~ (k = l /\ j = h)
            BY <1>2, <1>4, <1>8 DEF Refers
        <3>. QED BY <2>1, <3>1
    <2>4. k # l => SliceOf(At(k, j)) # SliceOf(At(l, o))
        <3>1. SliceOf(At(k, j)) = j \div SegmentLength /\ SliceOf(At(l, o)) = o \div SegmentLength
            BY <2>1 DEF SliceOf
        <3>2. o \div SegmentLength = s
            <4>1. s * SegmentLength \in Nat /\ SegmentLength \in Nat
                BY Sizes
            <4>2. o = s * SegmentLength + i
                BY <1>2, <1>3 DEF NextBlock
            <4>3. s * SegmentLength <= o /\ o < s * SegmentLength + SegmentLength
                BY <1>1, <1>2, <4>1, <4>2
            <4>. QED BY <4>3, Slices
        <3>3. k # l => j \div SegmentLength # s
            BY <1>2, <1>8 DEF Refers
        <3>. QED BY <3>1, <3>2, <3>3
    <2>5. /\ used'.pseudo.offset = At(l, h) /\ used'.pseudo.pass = memory[At(l, h)]
          /\ used'.ref.offset = At(k, j) /\ used'.ref.pass = memory[At(k, j)]
          /\ used'.into.offset = At(l, o) /\ used'.into.pass = memory[At(l, o)]
        BY <1>16 DEF Block
    <2>6. MadeOfWritten'
        BY <1>11, <1>17, <1>18, <2>1, <2>2, <2>3, <2>4, <2>5 DEF MadeOfWritten, LaneOf, SliceOf
    <2>7. CarriedIsPrevious'
        BY <1>16 DEF CarriedIsPrevious
    <2>. QED BY <2>6, <2>7 DEF BlocksSound
<1>. QED BY <1>12, <1>13, <1>14, <1>19 DEF ArgonInv

\* The invariant of Argon2 holds at first.
LEMMA ArgonInitInv == ArgonInit => ArgonInv
<1>. SUFFICES ASSUME ArgonInit PROVE ArgonInv
    OBVIOUS
<1>1. position \in Position
    BY Sizes DEF ArgonInit, Position
<1>2. Places
    BY <1>1 DEF ArgonInit, Places, Unused, NoBlock
<1>3. Filled /\ Offset
    BY DEF ArgonInit, Filled, Offset
<1>4. BlocksSound
    BY DEF ArgonInit, BlocksSound, MadeOfWritten, CarriedIsPrevious, Unused
<1>. QED BY <1>2, <1>3, <1>4 DEF ArgonInv

\* While it stutters.
LEMMA ArgonStutters == ArgonInv /\ UNCHANGED argonVars => ArgonInv'
BY DEF argonVars, ArgonInv, Places, Filled, Frontier, Offset, NextBlock, At, Previous, Block,
       BlocksSound, MadeOfWritten, CarriedIsPrevious, Unused, NoBlock

\* Through every step.
LEMMA ArgonSteps == ArgonInv /\ ArgonNext => ArgonInv'
BY InitializeKeeps, EnterSegmentKeeps, FillBlockKeeps, LeaveSegmentKeeps DEF ArgonNext

-----------------------------------------------------------------------------
\* Argon2 makes a block of the one before it in its lane and of one that is
\* written, neither of these two and in another lane never of the slice being
\* filled; what the vector implementations carry over in registers is the block
\* before (argon2_core.c, argon2_*.c).  For every number of lanes, blocks and
\* passes, and whatever is drawn.
THEOREM BlocksAreSound == CacheSpec => []BlocksSound
<1>1. CacheInit => ArgonInv
    BY ArgonInitInv DEF CacheInit
<1>2. ArgonInv /\ [CacheNext]_cacheVars => ArgonInv'
    <2>. SUFFICES ASSUME ArgonInv, [CacheNext]_cacheVars PROVE ArgonInv'
        OBVIOUS
    <2>1. CASE ArgonNext
        BY <2>1, ArgonSteps
    <2>2. CASE UNCHANGED argonVars
        BY <2>2, ArgonStutters
    <2>. QED BY <2>1, <2>2 DEF CacheNext, cacheVars
<1>3. ArgonInv => BlocksSound
    BY DEF ArgonInv
<1>. QED BY <1>1, <1>2, <1>3, PTL DEF CacheSpec
-----------------------------------------------------------------------------
(* The generator of superscalar programs.                                  *)

\* The library's well-foundedness of < on Nat, as a least element.
LEMMA NatLeast ==
    ASSUME NEW T, T \subseteq Nat, T # {}
    PROVE  \E x \in T : \A y \in T : x <= y
<1> DEFINE R == OpToRel(<, Nat)
<1>1. IsWellFoundedOn(R, Nat)
    BY NatLessThanWellFounded
<1> HIDE DEF R
<1>2. PICK x \in T : \A y \in T : ~ (<<y, x>> \in R)
    BY <1>1, WFMin, Zenon
<1>3. \A y \in T : ~ (y < x)
    BY <1>2 DEF R, OpToRel
<1>. QED BY <1>3

-----------------------------------------------------------------------------
(* What the generator has of an instruction.                               *)
Kinds == {"ISUB_R", "IXOR_R", "IADD_RS", "IMUL_R", "IROR_C", "IADD_C", "IXOR_C",
          "IMULH_R", "ISMULH_R", "IMUL_RCP", "INVALID"}
Operands == Registers \cup Draws \cup {NoRegister}

\* One without a source has no parameter either.
Instruction == {i \in [type : Kinds, src : Operands, dst : Operands, par : Operands] :
                  i.type \notin WithSource \cup High => i.src = NoRegister /\ i.par = NoRegister}

\* Macro-ops of a kind, how many uops they decode to and how long their result takes.
Count(t) == Len(InfoOf[t].ops)
Mop(t, k) == InfoOf[t].ops[k + 1]
Uops(op) == IF op.uops = <<>> THEN 1 ELSE Len(op.uops)

\* The macro-ops of each kind.
LEMMA OpsAre ==
    /\ \A t \in {"ISUB_R", "IXOR_R"} : InfoOf[t].ops = <<MacroOp(3, 1, <<P015>>)>>
    /\ InfoOf["IADD_RS"].ops = <<MacroOp(4, 1, <<P01>>)>>
    /\ InfoOf["IMUL_R"].ops = <<Imul_rr>>
    /\ InfoOf["IROR_C"].ops = <<MacroOp(4, 1, <<P05>>)>>
    /\ \A t \in {"IADD_C", "IXOR_C"} : InfoOf[t].ops = <<MacroOp(7, 1, <<P015>>)>>
    /\ \A t \in High : InfoOf[t].ops = <<Mov_rr, Mul_r, Mov_rr>>
    /\ InfoOf["IMUL_RCP"].ops = <<Mov_ri64, Dependent(Imul_rr)>>
    /\ InfoOf["INVALID"].ops = <<>>
BY DEF InfoOf, Info, High

\* How many they are.
LEMMA Counts ==
    ASSUME NEW t \in Kinds
    PROVE  Count(t) = IF t = "INVALID" THEN 0 ELSE IF t \in High THEN 3 ELSE IF t = "IMUL_RCP" THEN 2 ELSE 1
<1>1. CASE t = "INVALID"
    BY <1>1, OpsAre DEF Count
<1>2. CASE t \in High
    <2>1. t # "INVALID"
        BY <1>2 DEF High
    <2>2. Count(t) = Len(<<Mov_rr, Mul_r, Mov_rr>>)
        BY <1>2, OpsAre, Zenon DEF Count
    <2>3. Len(<<Mov_rr, Mul_r, Mov_rr>>) = 3
        OBVIOUS
    <2>. QED BY <1>2, <2>1, <2>2, <2>3
<1>3. CASE t = "IMUL_RCP"
    BY <1>3, OpsAre DEF Count, High
<1>4. CASE t \in Kinds \ ({"INVALID", "IMUL_RCP"} \cup High)
    <2>1. \E op : InfoOf[t].ops = <<op>>
        BY <1>4, OpsAre DEF Kinds, High
    <2>. QED BY <1>4, <2>1 DEF Count
<1>. QED BY <1>1, <1>2, <1>3, <1>4

\* Which of them writes, and which selects registers.
LEMMA Roles ==
    ASSUME NEW t \in Kinds
    PROVE  /\ InfoOf[t].resultOp = IF t \in High \cup {"IMUL_RCP"} THEN 1 ELSE 0
           /\ InfoOf[t].dstOp = IF t = "IMUL_RCP" THEN 1 ELSE 0
           /\ InfoOf[t].srcOp = IF t \in High THEN 1 ELSE IF t \in WithSource THEN 0
                                ELSE IF t = "INVALID" THEN InfoOf[t].srcOp ELSE -1
BY DEF InfoOf, Info, Kinds, High, WithSource

\* The kinds are the entries of the table.
LEMMA KindsAre == DOMAIN InfoOf = Kinds
BY DEF InfoOf, Kinds

MopOK(op) ==
    /\ op.size \in Nat /\ op.latency \in Nat /\ op.dependent \in BOOLEAN
    /\ op.uops \in Seq(SUBSET P015)

\* An arithmetic macro-op is one uop.
LEMMA OneUop ==
    ASSUME NEW size \in Nat, NEW latency \in Nat, NEW ports, ports \in SUBSET P015,
           NEW op, op = MacroOp(size, latency, <<ports>>)
    PROVE  /\ MopOK(op) /\ op.size = size /\ Uops(op) = 1
           /\ MopOK(Dependent(op)) /\ Dependent(op).size = size /\ Uops(Dependent(op)) = 1
<1>1. PICK u : u = <<ports>>
    OBVIOUS
<1>2. u \in Seq(SUBSET P015) /\ Len(u) = 1 /\ u # <<>>
    BY <1>1
<1>3. op = [size |-> size, latency |-> latency, uops |-> u, dependent |-> FALSE]
    BY <1>1, Zenon DEF MacroOp
<1>4. Dependent(op) = [op EXCEPT !["dependent"] = TRUE]
      /\ DOMAIN op = {"size", "latency", "uops", "dependent"}
    BY <1>3 DEF Dependent
<1>5. op.size = size /\ op.latency = latency /\ op.uops = u /\ op.dependent = FALSE
    BY <1>3
<1>6. /\ Dependent(op).size = size /\ Dependent(op).latency = latency
      /\ Dependent(op).uops = u /\ Dependent(op).dependent = TRUE
    BY <1>4, <1>5
<1>. QED BY <1>2, <1>5, <1>6 DEF MopOK, Uops

\* The multiplication of a high one, and the moves around it.
LEMMA OthersUops ==
    /\ MopOK(Mov_rr) /\ Mov_rr.size = 3 /\ Uops(Mov_rr) = 1
    /\ MopOK(Mul_r) /\ Mul_r.size = 3 /\ Uops(Mul_r) = 2
<1>1. Mov_rr = [size |-> 3, latency |-> 0, uops |-> <<>>, dependent |-> FALSE]
    BY DEF Mov_rr, MacroOp
<1>2. Mul_r = [size |-> 3, latency |-> 4, uops |-> <<{"P1"}, {"P5"}>>, dependent |-> FALSE]
    BY DEF Mul_r, MacroOp
<1>3. <<{"P1"}, {"P5"}>> \in Seq(SUBSET P015) /\ Len(<<{"P1"}, {"P5"}>>) = 2
      /\ <<{"P1"}, {"P5"}>> # <<>> /\ <<>> \in Seq(SUBSET P015)
    BY DEF P015
<1>. QED BY <1>1, <1>2, <1>3 DEF MopOK, Uops

\* What each macro-op takes of a slot, and of the four uops of a cycle.
LEMMA Mops ==
    ASSUME NEW t \in Kinds, NEW k \in 0 .. 2, k < Count(t)
    PROVE  /\ MopOK(Mop(t, k))
           /\ Mop(t, k).size = IF t \in {"IADD_C", "IXOR_C"} THEN 7
                               ELSE IF t = "IMUL_RCP" /\ k = 0 THEN 10
                               ELSE IF t \in {"ISUB_R", "IXOR_R"} \cup High THEN 3 ELSE 4
           /\ Uops(Mop(t, k)) = IF t \in High /\ k = 1 THEN 2 ELSE 1
<1>1. {P01, P05, P015, {"P1"}} \subseteq SUBSET P015 /\ Imul_rr = MacroOp(4, 3, <<{"P1"}>>)
      /\ Mov_ri64 = MacroOp(10, 1, <<P015>>)
    BY DEF P01, P05, P015, Imul_rr, Mov_ri64
<1>2. CASE t \in {"ISUB_R", "IXOR_R"}
    <2>1. k = 0 /\ Mop(t, k) = MacroOp(3, 1, <<P015>>)
        BY <1>2, Counts, OpsAre DEF Mop, High
    <2>2. t \notin {"IADD_C", "IXOR_C", "IMUL_RCP"} /\ t \notin High
        BY <1>2 DEF High
    <2>3. MopOK(Mop(t, k)) /\ Mop(t, k).size = 3 /\ Uops(Mop(t, k)) = 1
        BY <1>1, <2>1, OneUop
    <2>. QED BY <1>2, <2>2, <2>3
<1>3. CASE t \in {"IADD_C", "IXOR_C"}
    <2>1. k = 0 /\ Mop(t, k) = MacroOp(7, 1, <<P015>>)
        BY <1>3, Counts, OpsAre DEF Mop, High
    <2>. QED BY <1>1, <1>3, <2>1, OneUop DEF High
<1>4. CASE t \in {"IADD_RS", "IMUL_R", "IROR_C"}
    <2>1. k = 0 /\ Mop(t, k) \in {MacroOp(4, 1, <<P01>>), MacroOp(4, 3, <<{"P1"}>>), MacroOp(4, 1, <<P05>>)}
        BY <1>1, <1>4, Counts, OpsAre DEF Mop, High
    <2>2. MopOK(Mop(t, k)) /\ Mop(t, k).size = 4 /\ Uops(Mop(t, k)) = 1
        <3>1. CASE Mop(t, k) = MacroOp(4, 1, <<P01>>)
            BY <1>1, <3>1, OneUop
        <3>2. CASE Mop(t, k) = MacroOp(4, 3, <<{"P1"}>>)
            BY <1>1, <3>2, OneUop
        <3>3. CASE Mop(t, k) = MacroOp(4, 1, <<P05>>)
            BY <1>1, <3>3, OneUop
        <3>. QED BY <2>1, <3>1, <3>2, <3>3
    <2>. QED BY <1>4, <2>2 DEF High
<1>5. CASE t \in High
    <2>1. k = 0 \/ k = 1 \/ k = 2
        OBVIOUS
    <2>2. Mop(t, k) = IF k = 1 THEN Mul_r ELSE Mov_rr
        BY <1>5, <2>1, OpsAre DEF Mop
    <2>. QED BY <1>5, <2>2, OthersUops DEF High
<1>6. CASE t = "IMUL_RCP"
    <2>1. k = 0 \/ k = 1
        BY <1>6, Counts DEF High
    <2>2. Mop(t, k) = IF k = 0 THEN MacroOp(10, 1, <<P015>>) ELSE Dependent(MacroOp(4, 3, <<{"P1"}>>))
        BY <1>1, <1>6, <2>1, OpsAre DEF Mop
    <2>3. k = 0 => MopOK(Mop(t, k)) /\ Mop(t, k).size = 10 /\ Uops(Mop(t, k)) = 1
        BY <1>1, <2>2, OneUop
    <2>4. k = 1 => MopOK(Mop(t, k)) /\ Mop(t, k).size = 4 /\ Uops(Mop(t, k)) = 1
        BY <1>1, <2>2, OneUop
    <2>. QED BY <1>6, <2>1, <2>3, <2>4 DEF High
<1>7. CASE t = "INVALID"
    BY <1>7, Counts
<1>. QED BY <1>2, <1>3, <1>4, <1>5, <1>6, <1>7 DEF Kinds, High

-----------------------------------------------------------------------------
\* LeastCycle finds a cycle, if there is one.
LEMMA Least ==
    ASSUME NEW S, S \subseteq Nat
    PROVE  LeastCycle(S) \in S \cup {-1} /\ (S # {} => LeastCycle(S) \in S)
<1>1. CASE S # {}
    <2>1. PICK x \in S : \A y \in S : x <= y
        BY <1>1, NatLeast
    <2>. QED BY <1>1, <2>1 DEF LeastCycle
<1>. QED BY <1>1 DEF LeastCycle

\* The cycles waited for an operand.
LEMMA Stalls ==
    ASSUME NEW i, NEW at \in Nat
    PROVE  /\ SourceStall(i, at) \in 0 .. LookForward /\ DestinationStall(i, at) \in 0 .. LookForward
<1>1. LookForward \in Nat
    BY GeneratorAssumption
<1> DEFINE S == {f \in 0 .. LookForward - 1 : Sources(i, at + f) # {}} \cup {LookForward}
           D == {f \in 0 .. LookForward - 1 : selectDestination(i, at + f) # {}} \cup {LookForward}
<1>2. S \subseteq 0 .. LookForward /\ S # {} /\ D \subseteq 0 .. LookForward /\ D # {}
    BY <1>1
<1> HIDE DEF S, D
<1>3. LeastCycle(S) \in S /\ LeastCycle(D) \in D
    <2>1. S \subseteq Nat /\ D \subseteq Nat
        BY <1>2
    <2>. QED BY <1>2, <2>1, Least
<1>4. SourceStall(i, at) = LeastCycle(S) /\ DestinationStall(i, at) = LeastCycle(D)
    BY DEF SourceStall, DestinationStall, S, D
<1>. QED BY <1>2, <1>3, <1>4

\* A macro-op is scheduled no earlier than it was asked for, or not at all; one that
\* has uops, within the map.
LEMMA ScheduledLater ==
    ASSUME NEW op, MopOK(op), NEW from \in Nat, NEW dep \in Nat
    PROVE  /\ Scheduled(op, from, dep) \in Int
           /\ Scheduled(op, from, dep) >= 0 =>
                /\ Scheduled(op, from, dep) \in Nat /\ Scheduled(op, from, dep) >= from
                /\ op.uops # <<>> => Scheduled(op, from, dep) \in 0 .. CycleMapSize - 1
<1>1. PICK start \in Nat : start = (IF op.dependent /\ dep > from THEN dep ELSE from) /\ start >= from
    BY DEF MopOK
<1>2. CASE op.uops = <<>>
    BY <1>1, <1>2 DEF Scheduled
<1>3. CASE op.uops # <<>>
    <2> DEFINE S == {c \in start .. CycleMapSize - 1 :
                       \A u \in DOMAIN op.uops : FreePorts(op.uops[u], c) # {}}
    <2>1. S \subseteq start .. CycleMapSize - 1 /\ CycleMapSize \in Nat
        BY GeneratorAssumption DEF CycleMapSize
    <2>2. Scheduled(op, from, dep) = LeastCycle(S)
        BY <1>1, <1>3 DEF Scheduled
    <2> HIDE DEF S
    <2>3. S \subseteq Nat
        BY <1>1, <2>1
    <2>4. LeastCycle(S) \in S \cup {-1}
        BY <2>3, Least
    <2>5. PICK c : c = Scheduled(op, from, dep) /\ c \in S \cup {-1}
        BY <2>2, <2>4
    <2>6. c >= 0 => c \in start .. CycleMapSize - 1 /\ CycleMapSize \in Nat
        BY <2>1, <2>5
    <2>7. c \in Int
        BY <2>3, <2>5
    <2>. QED BY <1>1, <2>5, <2>6, <2>7
<1>. QED BY <1>2, <1>3

\* The ports of a cycle stay ports.
LEMMA Committed ==
    ASSUME portBusy \in [0 .. CycleMapSize - 1 -> SUBSET P015], NEW op, MopOK(op), NEW c,
           op.uops # <<>> => c \in 0 .. CycleMapSize - 1
    PROVE  Commit(op, c) \in [0 .. CycleMapSize - 1 -> SUBSET P015]
<1>1. \A u, d : PortOf(u, d) \in P015
    BY DEF PortOf, P015
<1>2. CASE op.uops # <<>>
    BY <1>1, <1>2 DEF Commit
<1>. QED BY <1>2 DEF Commit

-----------------------------------------------------------------------------
(* The decode buffers.                                                     *)
Buffers == {Buffer484, Buffer7333, Buffer3733, Buffer493, Buffer4444, Buffer3310}

\* How long they are, and what their slots are of.
LEMMA BuffersAre ==
    ASSUME NEW b \in Buffers
    PROVE  /\ Len(b) \in {3, 4} /\ (b = Buffer3310 => Len(b) = 3)
           /\ \A n \in 1 .. Len(b) : b[n] \in {3, 4, 7, 8, 9, 10} /\ (b[n] = 10 <=> b = Buffer3310 /\ n = 3)
<1>1. CASE b = Buffer484
    <2>1. Len(b) = 3 /\ b[1] = 4 /\ b[2] = 8 /\ b[3] = 4
        BY <1>1 DEF Buffer484
    <2>2. Buffer3310[3] = 10
        BY DEF Buffer3310
    <2>. QED BY <2>1, <2>2
<1>2. CASE b = Buffer7333
    <2>1. Len(b) = 4 /\ b[1] = 7 /\ b[2] = 3 /\ b[3] = 3 /\ b[4] = 3
        BY <1>2 DEF Buffer7333
    <2>2. Buffer3310[3] = 10
        BY DEF Buffer3310
    <2>. QED BY <2>1, <2>2
<1>3. CASE b = Buffer3733
    <2>1. Len(b) = 4 /\ b[1] = 3 /\ b[2] = 7 /\ b[3] = 3 /\ b[4] = 3
        BY <1>3 DEF Buffer3733
    <2>2. Buffer3310[3] = 10
        BY DEF Buffer3310
    <2>. QED BY <2>1, <2>2
<1>4. CASE b = Buffer493
    <2>1. Len(b) = 3 /\ b[1] = 4 /\ b[2] = 9 /\ b[3] = 3
        BY <1>4 DEF Buffer493
    <2>2. Buffer3310[3] = 10
        BY DEF Buffer3310
    <2>. QED BY <2>1, <2>2
<1>5. CASE b = Buffer4444
    <2>1. Len(b) = 4 /\ b[1] = 4 /\ b[2] = 4 /\ b[3] = 4 /\ b[4] = 4
        BY <1>5 DEF Buffer4444
    <2>2. Buffer3310[3] = 10
        BY DEF Buffer3310
    <2>. QED BY <2>1, <2>2
<1>6. CASE b = Buffer3310
    <2>1. Len(b) = 3 /\ b[1] = 3 /\ b[2] = 3 /\ b[3] = 10
        BY <1>6 DEF Buffer3310
    <2>. QED BY <1>6, <2>1
<1>. QED BY <1>1, <1>2, <1>3, <1>4, <1>5, <1>6 DEF Buffers

\* The slots of what goes on from one buffer to the next.
LEMMA FirstSlots ==
    /\ Buffer484[1] = 4 /\ Buffer493[1] = 4 /\ Buffer4444[1] = 4
    /\ Buffer3310[1] = 3 /\ Buffer3310[2] = 3
BY DEF Buffer484, Buffer493, Buffer4444, Buffer3310

-----------------------------------------------------------------------------
\* Macro-op k of an instruction that is being issued is due at slot n of buffer b: it
\* goes on in the next buffer, or is at one that was fetched for it.
Due(t, k, b, n) ==
    \/ k = 1 /\ n = Len(b) + 1
    \/ t \in High /\ b = Buffer3310 /\ n = k /\ k \in {1, 2}
    \/ t = "IMUL_RCP" /\ k = 1 /\ n = 1 /\ b \in {Buffer484, Buffer493, Buffer4444}

\* Only the buffer for a high multiplication has a slot of two uops, its first.
Extra(b, n) == IF b = Buffer3310 /\ n > 1 THEN 1 ELSE 0

GeneratorTypes ==
    /\ GeneratorTypeOK
    /\ decoded \in Nat /\ portsSaturated \in BOOLEAN
    /\ current \in Instruction
    /\ registers \in [Registers -> [latency : Nat, group : Kinds, par : Operands]]

Slotted ==
    phase = "slot" =>
        /\ decodeCycle < Latency /\ buffer \in Buffers /\ bufferIndex \in 1 .. Len(buffer) + 1
        /\ Issuing => Due(current.type, macroOpIndex, buffer, bufferIndex)
        /\ decoded <= bufferIndex - 1 + Extra(buffer, bufferIndex)

\* Between two buffers, an instruction has issued its first macro-op, or the
\* program ends.
Unfinished ==
    /\ phase = "fetch" /\ Issuing /\ ~ portsSaturated => macroOpIndex = 1
    /\ Issuing => programSize < SuperscalarMaxSize

\* OperandsReady, but for the destination of a high multiplication.
OperandsInTime == issued.src <= issued.at /\ (current.type \notin High => issued.dst <= issued.at)

GeneratorInv == GeneratorTypes /\ Slotted /\ Unfinished /\ DecoderHolds /\ OperandsInTime /\ NeverRepeated

\* Macro-op k of an instruction of kind t may go to the slot there is.
Fitting(t, k) ==
    /\ t \in Kinds \ {"INVALID"} /\ k \in 0 .. 2 /\ k < Count(t)
    /\ phase = "slot" /\ buffer \in Buffers /\ bufferIndex \in 1 .. Len(buffer)
    /\ programSize < SuperscalarMaxSize
    /\ Mop(t, k).size <= buffer[bufferIndex]
    /\ k + 1 < Count(t) => Due(t, k + 1, buffer, bufferIndex + 1)
    /\ Extra(buffer, bufferIndex) + Uops(Mop(t, k)) <= 1 + Extra(buffer, bufferIndex + 1)

\* What a new instruction for a slot may be.
LEMMA Fresh ==
    ASSUME NEW b \in Buffers, b = buffer, NEW n \in 1 .. Len(b), NEW i,
           i \in createForSlot(b[n], n = Len(b))
    PROVE  /\ i \in Instruction /\ i.type # "INVALID"
           /\ Mop(i.type, 0).size <= b[n]
           /\ i.type \in High => n = Len(b) /\ b # Buffer3310
           /\ i.type = "IMUL_RCP" => n = Len(b) /\ b = Buffer3310
<1>1. PICK t \in SlotTypes(b[n], n = Len(b)) :
        i \in IF t \in High THEN {Instr(t, d) : d \in Draws} ELSE {Instr(t, NoRegister)}
    BY DEF createForSlot
<1>2. PICK z \in {3, 4, 7, 8, 9, 10} : z = b[n] /\ (z = 10 <=> b = Buffer3310 /\ n = 3)
    BY BuffersAre
<1>3. /\ z = 3 => t \in {"ISUB_R", "IXOR_R"} \/ (n = Len(b) /\ t \in High)
      /\ z = 4 => t \in {"IMUL_R", "IROR_C", "IADD_RS"}
      /\ z \in {7, 8, 9} => t \in {"IXOR_C", "IADD_C"}
      /\ z = 10 => t = "IMUL_RCP"
    <2>1. CASE z = 3
        BY <1>1, <1>2, <2>1 DEF SlotTypes
    <2>2. CASE z = 4
        BY <1>1, <1>2, <2>2 DEF SlotTypes
    <2>3. CASE z \in {7, 8, 9}
        BY <1>1, <1>2, <2>3 DEF SlotTypes
    <2>4. CASE z = 10
        BY <1>1, <1>2, <2>4 DEF SlotTypes
    <2>. QED BY <2>1, <2>2, <2>3, <2>4
<1>4. t \in Kinds /\ t # "INVALID"
    BY <1>2, <1>3 DEF Kinds, High
<1>5. PICK par \in Operands : i = Instr(t, par) /\ (t \notin High => par = NoRegister)
    BY <1>1 DEF Operands
<1>6. i.type = t /\ i \in Instruction
    BY <1>4, <1>5 DEF Instr, Instruction, Operands
<1>7. Mop(t, 0).size <= z
    <2>1. Mop(t, 0).size = IF t \in {"IADD_C", "IXOR_C"} THEN 7
                           ELSE IF t = "IMUL_RCP" THEN 10
                           ELSE IF t \in {"ISUB_R", "IXOR_R"} \cup High THEN 3 ELSE 4
        <3>1. 0 < Count(t)
            BY <1>4, Counts
        <3>. QED BY <1>4, <3>1, Mops
    <2>. QED BY <1>2, <1>3, <2>1 DEF High
<1>8. /\ t \in High => n = Len(b) /\ b # Buffer3310
      /\ t = "IMUL_RCP" => n = Len(b) /\ b = Buffer3310
    <2>1. t \in High => z = 3
        BY <1>2, <1>3 DEF High
    <2>2. t = "IMUL_RCP" => z = 10
        BY <1>2, <1>3 DEF High
    <2>3. b = Buffer3310 => Len(b) = 3
        BY BuffersAre
    <2>. QED BY <1>2, <1>3, <2>1, <2>2, <2>3 DEF High
<1>. QED BY <1>2, <1>4, <1>6, <1>7, <1>8

\* What goes to a slot fits it.
LEMMA CandidateFits ==
    ASSUME GeneratorInv, Filling, NEW i \in Candidates
    PROVE  i \in Instruction /\ Fitting(i.type, OpIndex) /\ OpsOf(i)[OpIndex + 1] = Mop(i.type, OpIndex)
<1>1. /\ phase = "slot" /\ buffer \in Buffers /\ bufferIndex \in 1 .. Len(buffer)
      /\ programSize < SuperscalarMaxSize
    BY DEF GeneratorInv, Filling, Slotted, Unfinished
<1>2. PICK b \in Buffers, n \in Nat : b = buffer /\ n = bufferIndex /\ n \in 1 .. Len(b)
    BY <1>1
<1>3. Len(b) \in {3, 4} /\ n \in Nat
    BY BuffersAre
<1>4. OpsOf(i)[OpIndex + 1] = Mop(i.type, OpIndex)
    BY DEF OpsOf, Mop
<1>5. CASE Issuing
    <2>1. i = current /\ OpIndex = macroOpIndex /\ i \in Instruction
        BY <1>5 DEF Candidates, OpIndex, GeneratorInv, GeneratorTypes
    <2>2. PICK t \in Kinds : t = i.type
        BY <2>1 DEF Instruction
    <2>3. PICK k \in 1 .. 2 : /\ k = macroOpIndex /\ k < Count(t)
                               /\ \/ t \in High /\ b = Buffer3310 /\ n = k
                                  \/ t = "IMUL_RCP" /\ k = 1 /\ n = 1 /\ b \in {Buffer484, Buffer493, Buffer4444}
        <3>1. Due(t, macroOpIndex, b, n)
            BY <1>1, <1>2, <1>5, <2>1, <2>2 DEF GeneratorInv, Slotted
        <3>2. macroOpIndex < Count(t)
            BY <1>5, <2>1, <2>2 DEF Issuing, OpsOf, Count
        <3>. QED BY <1>2, <1>3, <3>1, <3>2 DEF Due
    <2>4. Mop(t, k).size <= b[n]
        <3>1. Mop(t, k).size = IF t \in High THEN 3 ELSE 4
            BY <2>3, Mops DEF High
        <3>2. t \in High => b[n] = 3
            BY <2>3, FirstSlots DEF High
        <3>3. t \notin High => b[n] = 4
            BY <2>3, FirstSlots
        <3>. QED BY <3>1, <3>2, <3>3
    <2>5. k + 1 < Count(t) => Due(t, k + 1, b, n + 1)
        BY <2>3, Counts DEF Due, High
    <2>6. Extra(b, n) + Uops(Mop(t, k)) <= 1 + Extra(b, n + 1)
        <3>1. Uops(Mop(t, k)) = IF t \in High /\ k = 1 THEN 2 ELSE 1
            BY <2>3, Mops
        <3>2. CASE t \in High
            <4>1. k = 1 \/ k = 2
                OBVIOUS
            <4>2. b = Buffer3310 /\ n = k
                BY <2>3, <3>2 DEF High
            <4>. QED BY <3>1, <3>2, <4>1, <4>2 DEF Extra
        <3>3. CASE t \notin High
            BY <1>3, <3>1, <3>3 DEF Extra
        <3>. QED BY <3>2, <3>3
    <2>7. t # "INVALID"
        BY <2>3 DEF High
    <2>. QED BY <1>1, <1>2, <1>4, <2>1, <2>2, <2>3, <2>4, <2>5, <2>6, <2>7 DEF Fitting
<1>6. CASE ~ Issuing
    <2>1. OpIndex = 0 /\ i \in createForSlot(b[n], n = Len(b))
        BY <1>2, <1>6 DEF Candidates, OpIndex
    <2>2. /\ i \in Instruction /\ i.type # "INVALID" /\ Mop(i.type, 0).size <= b[n]
          /\ i.type \in High => n = Len(b) /\ b # Buffer3310
          /\ i.type = "IMUL_RCP" => n = Len(b) /\ b = Buffer3310
        BY <1>2, <2>1, Fresh
    <2>3. PICK t \in Kinds : t = i.type
        BY <2>2 DEF Instruction
    <2>4. 0 < Count(t) /\ (1 < Count(t) => t \in High \cup {"IMUL_RCP"})
        BY <2>2, <2>3, Counts
    <2>5. 1 < Count(t) => Due(t, 1, b, n + 1)
        BY <2>2, <2>3, <2>4 DEF Due
    <2>6. Extra(b, n) + Uops(Mop(t, 0)) <= 1 + Extra(b, n + 1)
        <3>1. Uops(Mop(t, 0)) = 1
            BY <2>4, Mops
        <3>. QED BY <1>3, <3>1 DEF Extra
    <2>. QED BY <1>1, <1>2, <1>4, <2>1, <2>2, <2>3, <2>4, <2>5, <2>6 DEF Fitting
<1>. QED BY <1>5, <1>6

-----------------------------------------------------------------------------
\* The registers of the macro-op that is issued are ready at cycle from, and the
\* destination was not written by the same operation.
SourceIn(i, from) ==
    OpIndex = InfoOf[i.type].srcOp => ReadyAt(i.src) \in Nat /\ ReadyAt(i.src) <= from
DestinationIn(i, from) ==
    OpIndex \in {InfoOf[i.type].dstOp, InfoOf[i.type].resultOp} /\ i.type \notin High =>
        /\ ReadyAt(i.dst) \in Nat /\ ReadyAt(i.dst) <= from
        /\ registers[i.dst].group # OpGroup(i.type) \/ registers[i.dst].par # i.src

\* The macro-op goes to its ports, or the program ends.
LEMMA PlaceKeeps ==
    ASSUME GeneratorInv, Filling, NEW i \in Instruction, Fitting(i.type, OpIndex), NEW from \in Nat,
           SourceIn(i, from), DestinationIn(i, from), Place(i, from)
    PROVE  GeneratorInv'
<1>1. PICK t \in Kinds, k \in 0 .. 2 :
        t = i.type /\ k = OpIndex /\ k < Count(t) /\ t # "INVALID"
    BY DEF Fitting
<1>2. PICK op : op = Mop(t, k) /\ MopOK(op)
    BY <1>1, Mops
<1>3. PICK at \in Int : /\ at = Scheduled(op, from, from)
                        /\ at >= 0 => at >= from /\ (op.uops # <<>> => at \in 0 .. CycleMapSize - 1)
    BY <1>2, ScheduledLater
<1>4. op = InfoOf[i.type].ops[OpIndex + 1]
    BY <1>1, <1>2 DEF Mop
<1>5. /\ phase = "slot" /\ buffer \in Buffers /\ bufferIndex \in 1 .. Len(buffer)
      /\ programSize \in Nat /\ programSize < SuperscalarMaxSize /\ SuperscalarMaxSize \in Nat
      /\ decodeCycle \in Nat /\ decodeCycle < Latency /\ Latency \in Nat /\ cycle \in Nat
      /\ decoded \in Nat /\ MaxThrowaway \in Nat
    <2>1. /\ phase = "slot" /\ buffer \in Buffers /\ bufferIndex \in 1 .. Len(buffer)
          /\ programSize < SuperscalarMaxSize
        BY DEF Fitting
    <2>2. programSize \in Nat /\ decodeCycle \in Nat /\ cycle \in Nat /\ decoded \in Nat
        BY DEF GeneratorInv, GeneratorTypes, GeneratorTypeOK
    <2>3. SuperscalarMaxSize \in Nat /\ Latency \in Nat /\ MaxThrowaway \in Nat
        BY GeneratorAssumption DEF SuperscalarMaxSize
    <2>4. decodeCycle < Latency
        BY <2>1 DEF GeneratorInv, Slotted
    <2>. QED BY <2>1, <2>2, <2>3, <2>4
<1>6. throwAwayCount' = 0 /\ current' = i /\ buffer' = buffer
    BY DEF Place
<1>7. CASE at < 0
    <2>1. /\ portsSaturated' = TRUE /\ phase' = "fetch" /\ macroOpIndex' = OpIndex
          /\ cycle' = cycle + 1 /\ decodeCycle' = decodeCycle + 1 /\ issued' = NoIssue
          /\ UNCHANGED <<depCycle, bufferIndex, portBusy, registers, programSize, mulCount, decoded>>
        BY <1>3, <1>4, <1>7 DEF Place
    <2>2. GeneratorTypes'
        <3>1. /\ depCycle' \in Nat /\ portBusy' \in [0 .. CycleMapSize - 1 -> SUBSET P015]
              /\ \A r \in Registers : registers'[r].latency \in Nat
              /\ programSize' \in 0 .. SuperscalarMaxSize /\ decoded' \in Nat
              /\ registers' \in [Registers -> [latency : Nat, group : Kinds, par : Operands]]
            BY <2>1 DEF GeneratorInv, GeneratorTypes, GeneratorTypeOK
        <3>2. current' \in Instruction /\ current'.type \in DOMAIN InfoOf
            BY <1>1, <1>6, KindsAre
        <3>3. /\ phase' \in {"fetch", "slot", "done"} /\ decodeCycle' \in 0 .. Latency /\ cycle' \in Nat
              /\ throwAwayCount' \in 0 .. MaxThrowaway /\ macroOpIndex' \in 0 .. 3
              /\ portsSaturated' \in BOOLEAN
            BY <1>1, <1>5, <1>6, <2>1
        <3>. QED BY <3>1, <3>2, <3>3 DEF GeneratorTypes, GeneratorTypeOK
    <2>3. Slotted' /\ Unfinished'
        BY <1>5, <2>1 DEF Slotted, Unfinished
    <2>4. DecoderHolds'
        BY <2>1 DEF GeneratorInv, DecoderHolds, NoIssue
    <2>5. OperandsInTime' /\ NeverRepeated'
        BY <2>1 DEF OperandsInTime, NeverRepeated, NoIssue
    <2>. QED BY <2>2, <2>3, <2>4, <2>5 DEF GeneratorInv
<1>8. CASE at >= 0
    <2>1. /\ portBusy' = Commit(op, at)
          /\ depCycle' = at + op.latency
          /\ registers' = IF OpIndex = InfoOf[i.type].resultOp
                          THEN [registers EXCEPT ![i.dst] = Written(i, at + op.latency)] ELSE registers
          /\ bufferIndex' = bufferIndex + 1 /\ macroOpIndex' = OpIndex + 1
          /\ portsSaturated' = (portsSaturated \/ at >= Latency)
          /\ programSize' = programSize + (IF OpIndex + 1 >= Len(InfoOf[i.type].ops) THEN 1 ELSE 0)
          /\ decoded' = decoded + (IF op.uops = <<>> THEN 1 ELSE Len(op.uops))
          /\ UNCHANGED <<phase, decodeCycle, cycle>>
        <3>1. Scheduled(InfoOf[i.type].ops[OpIndex + 1], from, from) = at /\ ~ (at < 0)
            BY <1>3, <1>4, <1>8
        <3>2. /\ portBusy' = Commit(op, at)
              /\ depCycle' = at + op.latency
              /\ registers' = IF OpIndex = InfoOf[i.type].resultOp
                              THEN [registers EXCEPT ![i.dst] = Written(i, at + op.latency)] ELSE registers
              /\ portsSaturated' = (portsSaturated \/ at >= Latency)
            BY <1>4, <3>1 DEF Place
        <3>3. /\ bufferIndex' = bufferIndex + 1 /\ macroOpIndex' = OpIndex + 1
              /\ programSize' = programSize + (IF OpIndex + 1 >= Len(InfoOf[i.type].ops) THEN 1 ELSE 0)
              /\ decoded' = decoded + (IF op.uops = <<>> THEN 1 ELSE Len(op.uops))
              /\ UNCHANGED <<phase, decodeCycle, cycle>>
            BY <1>4, <3>1 DEF Place
        <3>. QED BY <3>2, <3>3
    <2>2. issued' = [size |-> op.size, slot |-> buffer[bufferIndex], at |-> at,
                     src |-> IF OpIndex = InfoOf[i.type].srcOp THEN ReadyAt(i.src) ELSE 0,
                     dst |-> IF OpIndex \in {InfoOf[i.type].dstOp, InfoOf[i.type].resultOp} THEN ReadyAt(i.dst) ELSE 0,
                     repeats |-> OpIndex = InfoOf[i.type].resultOp /\ i.type \notin High
                                 /\ registers[i.dst].group = OpGroup(i.type)
                                 /\ registers[i.dst].par = i.src]
        BY <1>3, <1>4, <1>8 DEF Place
    <2>3. portBusy' \in [0 .. CycleMapSize - 1 -> SUBSET P015]
        BY <1>2, <1>3, <1>8, <2>1, Committed DEF GeneratorInv, GeneratorTypes, GeneratorTypeOK
    <2>4. registers' \in [Registers -> [latency : Nat, group : Kinds, par : Operands]]
        <3>1. PICK w \in [latency : Nat, group : Kinds, par : Operands] : w = Written(i, at + op.latency)
            <4>1. at + op.latency \in Nat
                BY <1>2, <1>8 DEF MopOK
            <4>2. OpGroup(i.type) \in Kinds
                BY <1>1 DEF OpGroup, Kinds
            <4>3. i.par \in Operands
                BY DEF Instruction
            <4>. QED BY <4>1, <4>2, <4>3 DEF Written
        <3>2. registers' = registers \/ registers' = [registers EXCEPT ![i.dst] = w]
            BY <2>1, <3>1
        <3>. QED BY <3>2 DEF GeneratorInv, GeneratorTypes
    <2>5. decoded' = decoded + Uops(op) /\ Uops(op) \in {1, 2}
        <3>1. Uops(op) \in {1, 2}
            BY <1>1, <1>2, Mops
        <3>. QED BY <2>1, <3>1 DEF Uops
    <2>6. programSize' = programSize + (IF OpIndex + 1 >= Count(t) THEN 1 ELSE 0)
        BY <1>1, <2>1 DEF Count
    <2>7. GeneratorTypes'
        <3>1. programSize' \in 0 .. SuperscalarMaxSize
            BY <1>5, <2>6
        <3>2. depCycle' \in Nat
            BY <1>2, <1>8, <2>1 DEF MopOK
        <3>3. \A r \in Registers : registers'[r].latency \in Nat
            BY <2>4
        <3>4. current' \in Instruction /\ current'.type \in DOMAIN InfoOf
            BY <1>1, <1>6, KindsAre
        <3>5. macroOpIndex' \in 0 .. 3 /\ decoded' \in Nat /\ portsSaturated' \in BOOLEAN
            <4>1. macroOpIndex' = k + 1
                BY <1>1, <2>1
            <4>2. PICK u \in {1, 2}, d \in Nat : u = Uops(op) /\ d = decoded
                BY <1>5, <2>5
            <4>3. decoded' = d + u
                BY <2>5, <4>2
            <4>4. portsSaturated' \in BOOLEAN
                <5>1. portsSaturated' = (portsSaturated \/ at >= Latency)
                    BY <2>1
                <5>. QED BY <5>1
            <4>. QED BY <4>1, <4>3, <4>4
        <3>6. /\ phase' \in {"fetch", "slot", "done"} /\ decodeCycle' \in 0 .. Latency /\ cycle' \in Nat
              /\ throwAwayCount' \in 0 .. MaxThrowaway
            BY <1>5, <1>6, <2>1
        <3>. QED BY <2>3, <2>4, <3>1, <3>2, <3>3, <3>4, <3>5, <3>6 DEF GeneratorTypes, GeneratorTypeOK
    <2>8. Issuing' => k + 1 < Count(t)
        BY <1>1, <1>6, <2>1 DEF Issuing, OpsOf, Count
    <2>9. decoded' <= bufferIndex' - 1 + Extra(buffer', bufferIndex')
        <3>1. PICK e \in {0, 1}, f \in {0, 1} :
                e = Extra(buffer, bufferIndex) /\ f = Extra(buffer, bufferIndex + 1)
            BY DEF Extra
        <3>2. e + Uops(op) <= 1 + f
            BY <1>1, <1>2, <3>1 DEF Fitting
        <3>3. decoded <= bufferIndex - 1 + e
            BY <1>5, <3>1 DEF GeneratorInv, Slotted
        <3>4. Extra(buffer', bufferIndex') = f
            BY <1>6, <2>1, <3>1
        <3>5. PICK u \in {1, 2} : u = Uops(op) /\ decoded' = decoded + u
            BY <2>5
        <3>6. PICK n \in Nat, d \in Nat : n = bufferIndex /\ d = decoded
            BY <1>5
        <3>7. d + u <= n + f
            BY <3>2, <3>3, <3>5, <3>6
        <3>8. bufferIndex' = n + 1 /\ decoded' = d + u
            BY <2>1, <3>5, <3>6
        <3>9. d + u <= (n + 1) - 1 + f
            BY <3>7
        <3>. QED BY <3>4, <3>8, <3>9
    <2>10. Slotted'
        <3>1. bufferIndex' \in 1 .. Len(buffer') + 1
            BY <1>5, <1>6, <2>1, BuffersAre
        <3>2. Issuing' => Due(current.type, macroOpIndex, buffer, bufferIndex)'
            <4>1. Issuing' => Due(t, k + 1, buffer, bufferIndex + 1)
                BY <1>1, <2>8 DEF Fitting
            <4>2. Due(current.type, macroOpIndex, buffer, bufferIndex)' <=> Due(t, k + 1, buffer, bufferIndex + 1)
                BY <1>1, <1>6, <2>1 DEF Due
            <4>. QED BY <4>1, <4>2
        <3>. QED BY <1>5, <1>6, <2>1, <2>9, <3>1, <3>2 DEF Slotted, Extra
    <2>11. Unfinished'
        <3>1. phase' # "fetch"
            BY <1>5, <2>1
        <3>2. Issuing' => programSize' = programSize
            <4>1. Count(t) \in Nat
                BY Counts
            <4>. QED BY <1>1, <1>5, <2>6, <2>8, <4>1
        <3>. QED BY <1>5, <3>1, <3>2 DEF Unfinished
    <2>12. DecoderHolds'
        <3>1. decoded' <= 4
            <4>1. Len(buffer) \in {3, 4} /\ (buffer = Buffer3310 => Len(buffer) = 3)
                BY <1>5, BuffersAre
            <4>2. PICK n \in Nat, f \in {0, 1} :
                    /\ n = bufferIndex /\ n <= Len(buffer)
                    /\ f = Extra(buffer, n + 1) /\ (f = 1 => buffer = Buffer3310)
                BY <1>5, <4>1 DEF Extra
            <4>3. PICK d \in Nat : d = decoded'
                BY <2>7 DEF GeneratorTypes
            <4>4. d <= n + f
                <5>1. bufferIndex' = n + 1 /\ buffer' = buffer
                    BY <1>6, <2>1, <4>2
                <5>2. d <= n + 1 - 1 + f
                    BY <2>9, <4>2, <4>3, <5>1
                <5>. QED BY <5>2
            <4>5. PICK len \in {3, 4} : len = Len(buffer) /\ (f = 1 => len = 3)
                BY <4>1, <4>2
            <4>6. n <= len
                BY <4>2, <4>5
            <4>7. d <= 4
                BY <4>4, <4>5, <4>6
            <4>. QED BY <4>3, <4>7
        <3>2. op.size <= buffer[bufferIndex]
            BY <1>1, <1>2 DEF Fitting
        <3>. QED BY <2>2, <3>1, <3>2 DEF DecoderHolds
    <2>13. OperandsInTime'
        <3>1. issued'.src <= at
            <4>1. CASE OpIndex = InfoOf[i.type].srcOp
                <5>1. PICK ready \in Nat : ready = ReadyAt(i.src) /\ ready <= from
                    BY <4>1 DEF SourceIn
                <5>. QED BY <1>3, <1>8, <2>2, <4>1, <5>1
            <4>2. CASE OpIndex # InfoOf[i.type].srcOp
                BY <1>8, <2>2, <4>2
            <4>. QED BY <4>1, <4>2
        <3>2. i.type \notin High => issued'.dst <= at
            <4>1. CASE OpIndex \in {InfoOf[i.type].dstOp, InfoOf[i.type].resultOp} /\ i.type \notin High
                <5>1. PICK ready \in Nat : ready = ReadyAt(i.dst) /\ ready <= from
                    BY <4>1 DEF DestinationIn
                <5>. QED BY <1>3, <1>8, <2>2, <4>1, <5>1
            <4>2. CASE OpIndex \notin {InfoOf[i.type].dstOp, InfoOf[i.type].resultOp}
                BY <1>8, <2>2, <4>2
            <4>. QED BY <4>1, <4>2
        <3>3. issued'.at = at
            BY <2>2
        <3>. QED BY <1>6, <3>1, <3>2, <3>3 DEF OperandsInTime
    <2>14. NeverRepeated'
        BY <2>2 DEF NeverRepeated, DestinationIn
    <2>. QED BY <2>7, <2>10, <2>11, <2>12, <2>13, <2>14 DEF GeneratorInv
<1>. QED BY <1>3, <1>7, <1>8

-----------------------------------------------------------------------------
\* An instruction that found no register is thrown away, or the buffer is given up.
LEMMA DiscardKeeps ==
    ASSUME GeneratorInv, Filling, NEW i \in Instruction, Fitting(i.type, OpIndex), NEW stalled \in Nat,
           Discard(i, stalled)
    PROVE  GeneratorInv'
<1>1. PICK t \in Kinds, k \in 0 .. 2 : t = i.type /\ k = OpIndex /\ k < Count(t)
    BY DEF Fitting
<1>2. /\ phase = "slot" /\ buffer \in Buffers /\ bufferIndex \in 1 .. Len(buffer)
      /\ decodeCycle \in Nat /\ decodeCycle < Latency /\ Latency \in Nat /\ cycle \in Nat
      /\ throwAwayCount \in 0 .. MaxThrowaway /\ MaxThrowaway \in Nat
    BY GeneratorAssumption DEF Fitting, GeneratorInv, GeneratorTypes, GeneratorTypeOK, Slotted
<1>3. issued' = NoIssue
      /\ UNCHANGED <<depCycle, buffer, bufferIndex, portBusy, registers, programSize, mulCount,
                     portsSaturated, decoded>>
    BY DEF Discard
<1>4. Count(t) \in 0 .. 3 /\ Len(OpsOf(i)) = Count(t)
    <2>1. Count(t) \in 0 .. 3
        BY Counts
    <2>. QED BY <1>1, <2>1 DEF OpsOf, Count
<1>5. NullInstruction \in Instruction /\ Count("INVALID") = 0
    BY Counts DEF NullInstruction, Instr, Instruction, Operands, Kinds, WithSource, High
<1>6. /\ current' \in Instruction /\ ~ Issuing' /\ macroOpIndex' \in 0 .. 3
      /\ phase' \in {"slot", "fetch"} /\ (phase' = "slot" => decodeCycle' = decodeCycle)
      /\ decodeCycle' \in 0 .. Latency /\ cycle' \in Nat /\ throwAwayCount' \in 0 .. MaxThrowaway
    <2>1. CASE throwAwayCount < MaxThrowaway
        <3>1. /\ throwAwayCount' = throwAwayCount + 1
              /\ current' = i /\ macroOpIndex' = Count(t) /\ cycle' = cycle + stalled
              /\ UNCHANGED <<phase, decodeCycle>>
            BY <1>4, <2>1 DEF Discard
        <3>2. ~ Issuing'
            BY <1>1, <1>4, <3>1 DEF Issuing, OpsOf, Count
        <3>. QED BY <1>2, <1>4, <2>1, <3>1, <3>2
    <2>2. CASE ~ throwAwayCount < MaxThrowaway
        <3>1. /\ current' = NullInstruction /\ phase' = "fetch" /\ decodeCycle' = decodeCycle + 1
              /\ macroOpIndex' = k /\ cycle' = cycle + stalled + 1 /\ UNCHANGED throwAwayCount
            BY <1>1, <2>2 DEF Discard
        <3>2. ~ Issuing'
            BY <1>5, <3>1 DEF Issuing, OpsOf, Count, NullInstruction, Instr
        <3>. QED BY <1>2, <1>5, <3>1, <3>2
    <2>. QED BY <2>1, <2>2
<1>7. GeneratorTypes'
    <2>1. current'.type \in DOMAIN InfoOf
        BY <1>6, KindsAre DEF Instruction
    <2>. QED BY <1>3, <1>6, <2>1 DEF GeneratorInv, GeneratorTypes, GeneratorTypeOK
<1>8. Slotted' /\ Unfinished'
    BY <1>2, <1>3, <1>6 DEF GeneratorInv, Slotted, Unfinished, Extra
<1>9. DecoderHolds' /\ OperandsInTime' /\ NeverRepeated'
    BY <1>3 DEF GeneratorInv, DecoderHolds, OperandsInTime, NeverRepeated, NoIssue
<1>. QED BY <1>7, <1>8, <1>9 DEF GeneratorInv

\* What a register that is selected is like.
LEMMA Selected ==
    ASSUME GeneratorInv, NEW i, NEW at \in Nat
    PROVE  /\ \A r \in Sources(i, at) : r \in Registers /\ ReadyAt(r) \in Nat /\ ReadyAt(r) <= at
           /\ \A r \in selectDestination(i, at) :
                /\ r \in Registers /\ ReadyAt(r) \in Nat /\ ReadyAt(r) <= at
                /\ (registers[r].group # OpGroup(i.type) \/ registers[r].par # i.par)
<1>1. \A r \in Registers : registers[r].latency \in Nat
    BY DEF GeneratorInv, GeneratorTypes, GeneratorTypeOK
<1>2. Sources(i, at) \subseteq Ready(at) /\ selectDestination(i, at) \subseteq Ready(at)
    BY DEF Sources, selectDestination
<1>3. \A r \in Ready(at) : r \in Registers /\ registers[r].latency <= at
    BY DEF Ready
<1>4. \A r \in Ready(at) : ReadyAt(r) \in Nat /\ ReadyAt(r) <= at
    BY <1>1, <1>3 DEF ReadyAt
<1>5. \A r \in selectDestination(i, at) : registers[r].group # OpGroup(i.type) \/ registers[r].par # i.par
    BY DEF selectDestination
<1>. QED BY <1>2, <1>3, <1>4, <1>5

\* The destination is selected: the source of the instruction, if it was selected
\* before, is still ready.
LEMMA DestinationKeeps ==
    ASSUME GeneratorInv, Filling, NEW i \in Instruction, Fitting(i.type, OpIndex),
           NEW at \in Nat, NEW waits \in Nat, SourceIn(i, at),
           i.type \notin High => i.par = i.src,
           SelectDestination(i, at, waits)
    PROVE  GeneratorInv'
<1>1. PICK stall \in 0 .. LookForward : stall = DestinationStall(i, at)
    BY Stalls
<1>2. LookForward \in Nat /\ stall \in Nat
    BY GeneratorAssumption
<1>3. CASE stall = LookForward
    <2>1. Discard(i, waits + stall) /\ waits + stall \in Nat
        BY <1>1, <1>2, <1>3 DEF SelectDestination
    <2>. QED BY <2>1, DiscardKeeps
<1>4. CASE stall # LookForward
    <2>1. PICK dst \in selectDestination(i, at + stall) : Place([i EXCEPT !.dst = dst], at + stall)
        BY <1>1, <1>4 DEF SelectDestination
    <2>2. at + stall \in Nat /\ at <= at + stall
        BY <1>2
    <2>3. /\ dst \in Registers /\ ReadyAt(dst) \in Nat /\ ReadyAt(dst) <= at + stall
          /\ (registers[dst].group # OpGroup(i.type) \/ registers[dst].par # i.par)
        BY <2>2, Selected
    <2>4. PICK j \in Instruction : j = [i EXCEPT !.dst = dst]
        BY <2>3 DEF Instruction, Operands
    <2>5. j.type = i.type /\ j.src = i.src /\ j.par = i.par /\ j.dst = dst
        BY <2>4 DEF Instruction
    <2>6. SourceIn(j, at + stall)
        <3>1. ASSUME OpIndex = InfoOf[j.type].srcOp
              PROVE  ReadyAt(j.src) \in Nat /\ ReadyAt(j.src) <= at + stall
            <4>1. PICK ready \in Nat : ready = ReadyAt(j.src) /\ ready <= at
                BY <2>5, <3>1 DEF SourceIn
            <4>. QED BY <1>2, <4>1
        <3>. QED BY <3>1 DEF SourceIn
    <2>7. DestinationIn(j, at + stall)
        BY <2>3, <2>5 DEF DestinationIn
    <2>. QED BY <2>1, <2>2, <2>4, <2>5, <2>6, <2>7, PlaceKeeps
<1>. QED BY <1>3, <1>4

\* No port is free: the program ends.
LEMMA SaturateKeeps ==
    ASSUME GeneratorInv, NEW i \in Candidates, Saturate(i)
    PROVE  GeneratorInv'
<1>1. Filling /\ i \in Instruction /\ Fitting(i.type, OpIndex)
    BY CandidateFits DEF Saturate
<1>2. /\ phase = "slot" /\ programSize < SuperscalarMaxSize /\ OpIndex \in 0 .. 2 /\ i.type \in Kinds
      /\ decodeCycle \in Nat /\ decodeCycle < Latency /\ Latency \in Nat /\ cycle \in Nat
    BY <1>1, GeneratorAssumption DEF Fitting, GeneratorInv, GeneratorTypes, GeneratorTypeOK, Slotted
<1>3. /\ portsSaturated' = TRUE /\ phase' = "fetch"
      /\ current' = i /\ macroOpIndex' = OpIndex /\ issued' = NoIssue
      /\ cycle' = cycle + 1 /\ decodeCycle' = decodeCycle + 1
      /\ UNCHANGED <<depCycle, buffer, bufferIndex, portBusy, registers, programSize, mulCount,
                     throwAwayCount, decoded>>
    BY DEF Saturate
<1>4. GeneratorTypes'
    BY <1>1, <1>2, <1>3, KindsAre DEF GeneratorInv, GeneratorTypes, GeneratorTypeOK
<1>5. Slotted' /\ Unfinished'
    BY <1>2, <1>3 DEF Slotted, Unfinished
<1>6. DecoderHolds' /\ OperandsInTime' /\ NeverRepeated'
    BY <1>3 DEF GeneratorInv, DecoderHolds, OperandsInTime, NeverRepeated, NoIssue
<1>. QED BY <1>4, <1>5, <1>6 DEF GeneratorInv

\* A macro-op without registers to select.
LEMMA IssueOpKeeps ==
    ASSUME GeneratorInv, NEW i \in Candidates, IssueOp(i)
    PROVE  GeneratorInv'
<1>1. /\ Filling /\ i \in Instruction /\ Fitting(i.type, OpIndex)
      /\ OpsOf(i)[OpIndex + 1] = Mop(i.type, OpIndex)
    BY CandidateFits DEF IssueOp
<1>2. PICK t \in Kinds, k \in 0 .. 2 :
        t = i.type /\ k = OpIndex /\ k < Count(t) /\ t # "INVALID"
    BY <1>1 DEF Fitting
<1>3. PICK from \in Nat : from = Scheduled(OpsOf(i)[OpIndex + 1], cycle, depCycle)
    <2>1. MopOK(Mop(t, k)) /\ cycle \in Nat /\ depCycle \in Nat
        BY <1>2, Mops DEF GeneratorInv, GeneratorTypes, GeneratorTypeOK
    <2>2. Scheduled(Mop(t, k), cycle, depCycle) >= 0
        BY <1>1, <1>2 DEF IssueOp
    <2>. QED BY <1>1, <1>2, <2>1, <2>2, ScheduledLater
<1>4. Place(i, from) /\ OpIndex \notin {InfoOf[i.type].srcOp, InfoOf[i.type].dstOp}
    BY <1>3 DEF IssueOp
<1>5. i.type \notin High => InfoOf[i.type].resultOp = InfoOf[i.type].dstOp
    BY <1>2, Roles
<1>6. SourceIn(i, from) /\ DestinationIn(i, from)
    BY <1>4, <1>5 DEF SourceIn, DestinationIn
<1>. QED BY <1>1, <1>4, <1>6, PlaceKeeps

\* A macro-op that selects its source, its destination or both.
LEMMA IssueSelectingKeeps ==
    ASSUME GeneratorInv, NEW i \in Candidates, IssueSelecting(i)
    PROVE  GeneratorInv'
<1>1. /\ Filling /\ i \in Instruction /\ Fitting(i.type, OpIndex)
      /\ OpsOf(i)[OpIndex + 1] = Mop(i.type, OpIndex)
    BY CandidateFits DEF IssueSelecting
<1>2. PICK t \in Kinds, k \in 0 .. 2 :
        t = i.type /\ k = OpIndex /\ k < Count(t) /\ t # "INVALID"
    BY <1>1 DEF Fitting
<1>3. PICK at \in Nat : at = Scheduled(OpsOf(i)[OpIndex + 1], cycle, depCycle)
    <2>1. MopOK(Mop(t, k)) /\ cycle \in Nat /\ depCycle \in Nat
        BY <1>2, Mops DEF GeneratorInv, GeneratorTypes, GeneratorTypeOK
    <2>2. Scheduled(Mop(t, k), cycle, depCycle) >= 0
        BY <1>1, <1>2 DEF IssueSelecting
    <2>. QED BY <1>1, <1>2, <2>1, <2>2, ScheduledLater
<1>4. PICK stall \in 0 .. LookForward : stall = SourceStall(i, at)
    BY Stalls
<1>5. /\ InfoOf[t].dstOp = IF t = "IMUL_RCP" THEN 1 ELSE 0
      /\ InfoOf[t].srcOp = IF t \in High THEN 1 ELSE IF t \in WithSource THEN 0 ELSE -1
    BY <1>2, Roles
<1>6. CASE OpIndex # InfoOf[i.type].srcOp
    <2>1. SelectDestination(i, at, 0)
        BY <1>3, <1>6 DEF IssueSelecting
    <2>2. i.type \notin High => i.par = i.src
        <3>1. CASE t \in WithSource
            <4>1. k = 0
                BY <1>2, <3>1, Counts DEF WithSource, High
            <4>. QED BY <1>2, <1>5, <1>6, <3>1, <4>1
        <3>2. CASE t \notin WithSource
            BY <1>1, <1>2, <3>2 DEF Instruction
        <3>. QED BY <3>1, <3>2
    <2>3. SourceIn(i, at)
        BY <1>6 DEF SourceIn
    <2>. QED BY <1>1, <2>1, <2>2, <2>3, DestinationKeeps
<1>7. CASE OpIndex = InfoOf[i.type].srcOp /\ stall = LookForward
    <2>1. Discard(i, stall) /\ stall \in Nat
        BY <1>3, <1>4, <1>7, GeneratorAssumption DEF IssueSelecting
    <2>. QED BY <1>1, <2>1, DiscardKeeps
<1>8. CASE OpIndex = InfoOf[i.type].srcOp /\ stall # LookForward
    <2>1. PICK src \in Sources(i, at + stall) :
            IF OpIndex = InfoOf[i.type].dstOp THEN SelectDestination(WithSrc(i, src), at + stall, stall)
            ELSE Place(WithSrc(i, src), at + stall)
        BY <1>3, <1>4, <1>8 DEF IssueSelecting
    <2>2. at + stall \in Nat /\ stall \in Nat
        BY GeneratorAssumption
    <2>3. src \in Registers /\ ReadyAt(src) \in Nat /\ ReadyAt(src) <= at + stall
        BY <2>2, Selected
    <2>4. t \in High \cup WithSource
        BY <1>2, <1>5, <1>8
    <2>5. PICK j \in Instruction :
            j = WithSrc(i, src) /\ j.type = t /\ j.src = src /\ (t \in WithSource => j.par = src)
        <3>1. i \in [type : Kinds, src : Operands, dst : Operands, par : Operands] /\ src \in Operands
            BY <1>1, <2>3 DEF Instruction, Operands
        <3>2. PICK par \in Operands : par = IF t \in WithSource THEN src ELSE i.par
            BY <3>1
        <3>3. PICK j : j = [i EXCEPT !.src = src, !.par = par]
            OBVIOUS
        <3>4. /\ j \in [type : Kinds, src : Operands, dst : Operands, par : Operands]
              /\ j.type = i.type /\ j.src = src /\ j.par = par
            BY <3>1, <3>3
        <3>5. j = WithSrc(i, src)
            <4>1. CASE t \in WithSource
                BY <1>2, <3>2, <3>3, <4>1 DEF WithSrc
            <4>2. CASE t \notin WithSource
                BY <1>2, <3>1, <3>2, <3>3, <4>2 DEF WithSrc
            <4>. QED BY <4>1, <4>2
        <3>. QED BY <1>2, <2>4, <3>2, <3>4, <3>5 DEF Instruction
    <2>6. Fitting(j.type, OpIndex)
        BY <1>1, <1>2, <2>5
    <2>7. SourceIn(j, at + stall)
        BY <2>3, <2>5 DEF SourceIn
    <2>8. CASE OpIndex = InfoOf[i.type].dstOp
        <3>1. SelectDestination(j, at + stall, stall)
            BY <2>1, <2>5, <2>8
        <3>2. j.type \notin High => j.par = j.src
            BY <2>4, <2>5
        <3>. QED BY <1>1, <2>2, <2>6, <2>7, <3>1, <3>2, DestinationKeeps
    <2>9. CASE OpIndex # InfoOf[i.type].dstOp
        <3>1. Place(j, at + stall)
            BY <2>1, <2>5, <2>9
        <3>2. j.type \in High
            BY <1>2, <1>5, <1>8, <2>4, <2>5, <2>9 DEF WithSource
        <3>3. DestinationIn(j, at + stall)
            BY <3>2 DEF DestinationIn
        <3>. QED BY <1>1, <2>2, <2>6, <2>7, <3>1, <3>3, PlaceKeeps
    <2>. QED BY <2>8, <2>9
<1>. QED BY <1>6, <1>7, <1>8

\* A buffer ends, with at most the first macro-op of an instruction issued.
LEMMA EndBufferKeeps ==
    ASSUME GeneratorInv, EndBuffer
    PROVE  GeneratorInv'
<1>1. /\ phase = "slot" /\ ~ Filling /\ phase' = "fetch" /\ cycle' = cycle + 1
      /\ decodeCycle' = decodeCycle + 1 /\ issued' = NoIssue
      /\ UNCHANGED <<depCycle, buffer, bufferIndex, current, macroOpIndex, portBusy, registers,
                     programSize, mulCount, throwAwayCount, portsSaturated, decoded>>
    BY DEF EndBuffer
<1>2. /\ decodeCycle \in Nat /\ decodeCycle < Latency /\ Latency \in Nat /\ buffer \in Buffers
      /\ bufferIndex \in 1 .. Len(buffer) + 1
      /\ Issuing => Due(current.type, macroOpIndex, buffer, bufferIndex)
    BY <1>1, GeneratorAssumption DEF GeneratorInv, GeneratorTypes, GeneratorTypeOK, Slotted
<1>3. PICK len \in {3, 4} : len = Len(buffer) /\ (buffer = Buffer3310 => len = 3)
    BY <1>2, BuffersAre
<1>4. Issuing => macroOpIndex = 1
    <2>1. Issuing => bufferIndex = len + 1
        BY <1>1, <1>2, <1>3 DEF Filling
    <2>. QED BY <1>2, <1>3, <2>1 DEF Due
<1>5. Issuing' <=> Issuing
    BY <1>1 DEF Issuing, OpsOf
<1>6. GeneratorTypes'
    BY <1>1, <1>2 DEF GeneratorInv, GeneratorTypes, GeneratorTypeOK
<1>7. Slotted' /\ Unfinished'
    BY <1>1, <1>4, <1>5 DEF GeneratorInv, Slotted, Unfinished
<1>8. DecoderHolds' /\ OperandsInTime' /\ NeverRepeated'
    BY <1>1 DEF GeneratorInv, DecoderHolds, OperandsInTime, NeverRepeated, NoIssue
<1>. QED BY <1>6, <1>7, <1>8 DEF GeneratorInv

\* The buffer that is fetched has a place for what goes on.
LEMMA FetchKeeps ==
    ASSUME GeneratorInv, Fetch
    PROVE  GeneratorInv'
<1>1. /\ phase = "fetch" /\ decodeCycle < Latency /\ ~ portsSaturated
      /\ buffer' \in fetchNext(current.type) /\ bufferIndex' = 1 /\ phase' = "slot" /\ decoded' = 0
      /\ UNCHANGED <<decodeCycle, cycle, depCycle, current, macroOpIndex, portBusy, registers,
                     programSize, mulCount, throwAwayCount, portsSaturated, issued>>
    BY DEF Fetch
<1>2. PICK t \in Kinds : t = current.type
    BY DEF GeneratorInv, GeneratorTypes, Instruction
<1>3. PICK b \in Buffers : /\ b = buffer' /\ (t \in High => b = Buffer3310)
                           /\ t = "IMUL_RCP" => b \in {Buffer484, Buffer493, Buffer4444}
    <2>1. fetchNext(t) \subseteq Buffers
        BY DEF fetchNext, Buffers
    <2>2. t \in High => fetchNext(t) = {Buffer3310}
        BY DEF fetchNext
    <2>3. t = "IMUL_RCP" => fetchNext(t) \subseteq {Buffer484, Buffer493, Buffer4444}
        BY DEF fetchNext, High
    <2>. QED BY <1>1, <1>2, <2>1, <2>2, <2>3
<1>4. Len(b) \in {3, 4}
    BY BuffersAre
<1>5. Issuing' <=> Issuing
    BY <1>1 DEF Issuing, OpsOf
<1>6. Issuing => Due(t, macroOpIndex, b, 1)
    <2>1. Issuing => macroOpIndex = 1
        BY <1>1 DEF GeneratorInv, Unfinished
    <2>2. Issuing => macroOpIndex < Count(t)
        BY <1>2 DEF Issuing, OpsOf, Count
    <2>3. 1 < Count(t) => t \in High \/ t = "IMUL_RCP"
        BY Counts
    <2>. QED BY <1>3, <2>1, <2>2, <2>3 DEF Due
<1>7. GeneratorTypes'
    BY <1>1 DEF GeneratorInv, GeneratorTypes, GeneratorTypeOK
<1>8. Slotted'
    <2>1. Due(current.type, macroOpIndex, buffer, bufferIndex)' <=> Due(t, macroOpIndex, b, 1)
        BY <1>1, <1>2, <1>3 DEF Due
    <2>2. Extra(buffer, bufferIndex)' = 0
        BY <1>1 DEF Extra
    <2>. QED BY <1>1, <1>3, <1>4, <1>5, <1>6, <2>1, <2>2 DEF Slotted
<1>9. Unfinished'
    BY <1>1, <1>5 DEF GeneratorInv, Unfinished
<1>10. DecoderHolds' /\ OperandsInTime' /\ NeverRepeated'
    BY <1>1 DEF GeneratorInv, DecoderHolds, OperandsInTime, NeverRepeated
<1>. QED BY <1>7, <1>8, <1>9, <1>10 DEF GeneratorInv

\* The last buffer has been used.
LEMMA FinishKeeps ==
    ASSUME GeneratorInv, Finish
    PROVE  GeneratorInv'
<1>1. /\ phase' = "done" /\ issued' = NoIssue
      /\ UNCHANGED <<decodeCycle, cycle, depCycle, buffer, bufferIndex, current, macroOpIndex,
                     portBusy, registers, programSize, mulCount, throwAwayCount, portsSaturated, decoded>>
    BY DEF Finish
<1>2. Issuing' <=> Issuing
    BY <1>1 DEF Issuing, OpsOf
<1>3. GeneratorTypes' /\ Slotted' /\ Unfinished'
    BY <1>1, <1>2 DEF GeneratorInv, GeneratorTypes, GeneratorTypeOK, Slotted, Unfinished
<1>4. DecoderHolds' /\ OperandsInTime' /\ NeverRepeated'
    BY <1>1 DEF GeneratorInv, DecoderHolds, OperandsInTime, NeverRepeated, NoIssue
<1>. QED BY <1>3, <1>4 DEF GeneratorInv

\* The invariant of the generator holds at first.
LEMMA GeneratorInitInv == GeneratorInit => GeneratorInv
<1>. SUFFICES ASSUME GeneratorInit PROVE GeneratorInv
    OBVIOUS
<1>1. NullInstruction \in Instruction /\ NullInstruction.type = "INVALID" /\ Count("INVALID") = 0
    BY Counts DEF NullInstruction, Instr, Instruction, Operands, Kinds, WithSource, High
<1>2. SuperscalarMaxSize \in Nat /\ Latency \in Nat /\ MaxThrowaway \in Nat
    BY GeneratorAssumption DEF SuperscalarMaxSize
<1>3. ~ Issuing
    BY <1>1 DEF GeneratorInit, Issuing, OpsOf, Count
<1>4. GeneratorTypes
    <2>1. registers \in [Registers -> [latency : Nat, group : Kinds, par : Operands]]
        BY DEF GeneratorInit, Operands, Kinds
    <2>2. portBusy \in [0 .. CycleMapSize - 1 -> SUBSET P015]
        BY DEF GeneratorInit
    <2>3. current \in Instruction /\ current.type \in DOMAIN InfoOf
        BY <1>1, KindsAre DEF GeneratorInit, Kinds
    <2>4. \A r \in Registers : registers[r].latency \in Nat
        BY <2>1
    <2>5. /\ phase = "fetch" /\ decodeCycle = 0 /\ cycle = 0 /\ depCycle = 0 /\ macroOpIndex = 0
          /\ programSize = 0 /\ throwAwayCount = 0 /\ portsSaturated = FALSE /\ decoded = 0
        BY DEF GeneratorInit
    <2>6. /\ decodeCycle \in 0 .. Latency /\ cycle \in Nat /\ depCycle \in Nat /\ macroOpIndex \in 0 .. 3
          /\ programSize \in 0 .. SuperscalarMaxSize /\ throwAwayCount \in 0 .. MaxThrowaway
        BY <1>2, <2>5
    <2>7. GeneratorTypeOK
        BY <2>2, <2>3, <2>4, <2>5, <2>6, Zenon DEF GeneratorTypeOK
    <2>. QED BY <2>1, <2>3, <2>5, <2>7 DEF GeneratorTypes
<1>5. Slotted /\ Unfinished
    BY <1>3 DEF GeneratorInit, Slotted, Unfinished
<1>6. DecoderHolds /\ OperandsInTime /\ NeverRepeated
    BY DEF GeneratorInit, DecoderHolds, OperandsInTime, NeverRepeated, NoIssue
<1>. QED BY <1>4, <1>5, <1>6 DEF GeneratorInv

\* Through every step.
LEMMA GeneratorSteps == GeneratorInv /\ GeneratorNext => GeneratorInv'
BY FetchKeeps, FinishKeeps, EndBufferKeeps, SaturateKeeps, IssueOpKeeps, IssueSelectingKeeps DEF GeneratorNext

\* While it stutters.
LEMMA GeneratorStutters == GeneratorInv /\ UNCHANGED generatorVars => GeneratorInv'
BY DEF generatorVars, GeneratorInv, GeneratorTypes, GeneratorTypeOK, Slotted, Unfinished, Issuing, OpsOf,
       DecoderHolds, OperandsInTime, NeverRepeated, Due, Extra

-----------------------------------------------------------------------------
\* A program of the generator keeps within its tables, buffers and slots; no
\* cycle decodes more than four uops; a source is ready when it is read, and so is
\* a destination, but for that of a high multiplication; and no operation is applied
\* twice in a row (generateSuperscalar, superscalar.cpp).  For every number of
\* registers, latency and limit, and whatever is drawn.
THEOREM ScheduleHolds ==
    CacheSpec => [](/\ GeneratorTypeOK /\ DecoderHolds /\ NeverRepeated /\ OperandsInTime
                    /\ (current.type \notin High => ScheduleSound))
<1>1. CacheInit => GeneratorInv
    BY GeneratorInitInv DEF CacheInit
<1>2. GeneratorInv /\ [CacheNext]_cacheVars => GeneratorInv'
    <2>. SUFFICES ASSUME GeneratorInv, [CacheNext]_cacheVars PROVE GeneratorInv'
        OBVIOUS
    <2>1. CASE GeneratorNext
        BY <2>1, GeneratorSteps
    <2>2. CASE UNCHANGED generatorVars
        BY <2>2, GeneratorStutters
    <2>. QED BY <2>1, <2>2 DEF CacheNext, cacheVars
<1>3. GeneratorInv => /\ GeneratorTypeOK /\ DecoderHolds /\ NeverRepeated /\ OperandsInTime
                     /\ (current.type \notin High => ScheduleSound)
    BY DEF GeneratorInv, GeneratorTypes, ScheduleSound, OperandsReady, OperandsInTime
<1>. QED BY <1>1, <1>2, <1>3, PTL DEF CacheSpec
=============================================================================
