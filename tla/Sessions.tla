------------------------------ MODULE Sessions ------------------------------
(***************************************************************************)
(* hub.ts: a miner's session in a worker process (WorkerBackend), in the   *)
(* registry of the primary (PrimaryHub) and in its LocalBackend.           *)
(*                                                                         *)
(* A worker and the primary exchange messages in order: a batch is what it *)
(* holds, one by one.  A call of a session is <<session, i>>; the call of  *)
(* a login also stands for the UpstreamClient that the login makes.        *)
(*                                                                         *)
(* Abstractions: a session belongs to one worker, and a respawned worker   *)
(* is another one; a grant is a number of its own, so that a nonce is      *)
(* never owned by two of them; the jobs of a session are numbered as they  *)
(* are pushed, whichever link they come from; Upstream (the module) has    *)
(* how a client is housed, VarDiff what a share is worth.  A "chunk" call  *)
(* that is not granted and a "submit" call the mirror cannot answer teach  *)
(* a worker nothing: they are one kind of answer.                          *)
(***************************************************************************)
EXTENDS Integers, Sequences, FiniteSets, SequencesExt

CONSTANTS
    Workers,    \* child processes, with their channels
    Sessions,   \* sessions, numbered by each worker on its own
    Host,       \* Host[s]: the worker of session s
    MaxCalls,   \* bound: calls of all sessions
    MaxGrants,  \* bound: grants, and so jobs, of all sessions
    MaxOwed,    \* bound: shares of a session not accounted for yet
    MaxWire     \* bound: messages in a channel, when one is added

ASSUME SessionsAssumption ==
    /\ Host \in [Sessions -> Workers]
    /\ {MaxCalls, MaxGrants, MaxOwed, MaxWire} \subseteq Nat

Calls  == Sessions \X (1 .. MaxCalls)
Logins == [who : Calls, at : {"resolve", "attach"}]

None == <<>>

-----------------------------------------------------------------------------
(* nonce.ts Ledger, of numbered grants: those of the job it was last given *)
(* one for, and those of the job before.                                   *)
NoLedger == [job |-> 0, last |-> {}, prior |-> {}]

\* mutant: the ranges of the previous job are not kept
RecordNoPrior(ledger, j, g) ==
    [job |-> j, last |-> {g} \union (IF ledger.job = j THEN ledger.last ELSE {}),
     prior |-> {}]

Record(ledger, j, g) ==
    IF ledger.job = j THEN [ledger EXCEPT !.last = @ \union {g}]
    ELSE [job |-> j, last |-> {g}, prior |-> ledger.last]

Owns(ledger, g) == g \in ledger.last \union ledger.prior

-----------------------------------------------------------------------------
VARIABLES
    alive,      \* workers that run
    open,       \* sessions with a connected miner
    gone,       \* sessions whose miner has left
    logged,     \* sessions that were answered a login (Edge: logged)
    made,       \* calls made (WorkerBackend.seq)
    calls,      \* WorkerBackend.pending
    known,      \* WorkerBackend.jobs: the mirror of the session's ledger
    tally,      \* WorkerBackend.tallies: shares
    up,         \* up[w]: messages to the primary
    down,       \* down[w]: messages to worker w
    hub,        \* PrimaryHub.channels: sessions
    entry,      \* LocalBackend.entries: the client of the session
    logins,     \* logins that await: [who, at], at the resolver or at attach
    live,       \* Upstream.live: clients
    housed,     \* Upstream.homes: clients
    ledger,     \* Upstream.ledgers
    jobs,       \* jobs[s]: the job last given to session s
    given,      \* grants made
    owed,       \* history: shares acknowledged and not yet accounted for
    cut,        \* history: sessions whose entry went, or was replaced, in their life
    late        \* history: clients entered for a session that was gone, or
                \* overwritten when they were housed

edge    == <<open, gone, logged, made>>
worker  == <<calls, known, tally>>
backend == <<entry, live, housed, ledger>>
wire    == <<up, down>>
grants  == <<jobs, given>>
history == <<owed, cut, late>>
vars    == <<alive, edge, worker, wire, hub, backend, logins, grants, history>>

Init ==
    /\ alive = Workers
    /\ open = {} /\ gone = {} /\ logged = {} /\ made = 0
    /\ calls = {}
    /\ known = [s \in Sessions |-> NoLedger]
    /\ tally = [s \in Sessions |-> 0]
    /\ up = [w \in Workers |-> <<>>] /\ down = [w \in Workers |-> <<>>]
    /\ hub = {} /\ logins = {}
    /\ entry = [s \in Sessions |-> None]
    /\ live = {} /\ housed = {} /\ ledger = [c \in Calls |-> NoLedger]
    /\ jobs = [s \in Sessions |-> 0] /\ given = 0
    /\ owed = [s \in Sessions |-> 0] /\ cut = {} /\ late = {}

SessionOf(c) == c[1]
Of(w)        == {s \in Sessions : Host[s] = w}

Call(t, c)     == [t |-> t, c |-> c]
Solution(s, g) == [t |-> "sub", s |-> s, job |-> known[s].job, g |-> g]
Tallies(d)     == [t |-> "acc", d |-> d]
Bye(s)         == [t |-> "bye", s |-> s]

\* An answer: an error, or what there is to learn from it (0: nothing).
Failed         == [ok |-> FALSE, job |-> 0, g |-> 0]
Result(j, g)   == [ok |-> TRUE, job |-> j, g |-> g]
Answer(c, r)   == [t |-> "r", c |-> c, r |-> r]
Job(s, r)      == [t |-> "j", s |-> s, r |-> r]

\* WorkerLink.send, FleetChild.send: nothing goes to a process that is not there.
ToPrimary(w, ms) ==
    /\ Len(up[w]) < MaxWire
    /\ up' = [up EXCEPT ![w] = @ \o ms]

ToWorker(w, m) ==
    /\ Len(down[w]) < MaxWire
    /\ down' = IF w \in alive THEN [down EXCEPT ![w] = Append(@, m)] ELSE down

-----------------------------------------------------------------------------
(* The worker.                                                             *)

\* A miner connects: Edge.serve.
Connect(s) ==
    /\ s \notin open \union gone /\ Host[s] \in alive
    /\ open' = open \union {s}
    /\ UNCHANGED <<alive, gone, logged, made, worker, wire, hub, backend, logins, grants, history>>

\* call(): login, chunk or a submit the mirror cannot answer.
Ask(s, t) ==
    /\ s \in open /\ made < MaxCalls
    /\ made' = made + 1
    /\ LET c == <<s, made'>>
       IN  /\ calls' = calls \union {c}
           /\ ToPrimary(Host[s], <<Call(t, c)>>)
    /\ UNCHANGED <<alive, open, gone, logged, known, tally, down, hub, backend, logins, grants, history>>

AskLogin(s) == Ask(s, "login")
AskChunk(s) == s \in logged /\ Ask(s, "chunk")

\* submit() answered by the mirror: below the pool's target it is tallied, else
\* the solution is passed on.  The miner searches the ranges of the job it claims.
Submit(s, g) ==
    /\ s \in open \intersect logged /\ g \in known[s].last
    /\ \/ /\ owed[s] < MaxOwed
          /\ tally' = [tally EXCEPT ![s] = @ + 1]
          /\ owed' = [owed EXCEPT ![s] = @ + 1]
          /\ UNCHANGED up
       \/ /\ ToPrimary(Host[s], <<Solution(s, g)>>)
          /\ UNCHANGED <<tally, owed>>
    /\ UNCHANGED <<alive, edge, calls, known, down, hub, backend, logins, grants, cut, late>>

Flushed(w) ==
    Tallies([s \in {x \in Of(w) : tally[x] > 0} |-> tally[s]])

\* flush(), by its timer
Flush(w) ==
    /\ w \in alive /\ \E s \in Of(w) : tally[s] > 0
    /\ ToPrimary(w, <<Flushed(w)>>)
    /\ tally' = [s \in Sessions |-> IF Host[s] = w THEN 0 ELSE tally[s]]
    /\ UNCHANGED <<alive, edge, calls, known, down, hub, backend, logins, grants, history>>

\* mutant: the tally of the session is not sent before its bye
CloseUnflushed(s) ==
    /\ s \in open /\ Host[s] \in alive
    /\ open' = open \ {s} /\ gone' = gone \union {s}
    /\ known' = [known EXCEPT ![s] = NoLedger]
    /\ ToPrimary(Host[s], <<Bye(s)>>)
    /\ UNCHANGED <<alive, logged, made, calls, tally, down, hub, backend, logins, grants, history>>

\* The miner leaves, or is told to: close().  Calls stay in pending.
Close(s) ==
    LET w == Host[s]
    IN  /\ s \in open /\ w \in alive
        /\ open' = open \ {s} /\ gone' = gone \union {s}
        /\ known' = [known EXCEPT ![s] = NoLedger]
        /\ IF tally[s] > 0
           THEN /\ ToPrimary(w, <<Flushed(w), Bye(s)>>)
                /\ tally' = [x \in Sessions |-> IF Host[x] = w THEN 0 ELSE tally[x]]
           ELSE ToPrimary(w, <<Bye(s)>>) /\ UNCHANGED tally
        /\ UNCHANGED <<alive, logged, made, calls, down, hub, backend, logins, grants, history>>

\* expire(): the primary has not answered in time.
Expire(c) ==
    /\ c \in calls
    /\ calls' = calls \ {c}
    /\ UNCHANGED <<alive, edge, known, tally, wire, hub, backend, logins, grants, history>>

\* learn(): a grant that comes without a job is one for the job that is known.
Learn(s, r) ==
    LET j == IF r.job # 0 THEN r.job ELSE known[s].job
    IN  known' = IF r.g # 0 /\ j # 0
                 THEN [known EXCEPT ![s] = Record(@, j, r.g)] ELSE known

\* The worker is handed an answer: one that came too late is dropped.
Answered(w) ==
    /\ w \in alive /\ down[w] # <<>> /\ Head(down[w]).t = "r"
    /\ LET m == Head(down[w])
       IN  /\ calls' = calls \ {m.c}
           /\ IF m.c \in calls /\ m.r.ok
              THEN /\ Learn(SessionOf(m.c), m.r)
                   /\ logged' = logged \union {SessionOf(m.c)}
              ELSE UNCHANGED <<known, logged>>
    /\ down' = [down EXCEPT ![w] = Tail(@)]
    /\ UNCHANGED <<alive, open, gone, made, tally, up, hub, backend, logins, grants, history>>

\* The worker is handed a job.
Pushed(w) ==
    /\ w \in alive /\ down[w] # <<>> /\ Head(down[w]).t = "j"
    /\ LET m == Head(down[w])
       IN  IF m.s \in open THEN Learn(m.s, m.r) ELSE UNCHANGED known
    /\ down' = [down EXCEPT ![w] = Tail(@)]
    /\ UNCHANGED <<alive, edge, calls, tally, up, hub, backend, logins, grants, history>>

\* The process ends: what it has not written is lost, and all it held.
Die(w) ==
    /\ w \in alive
    /\ alive' = alive \ {w}
    /\ \E n \in 0 .. Len(up[w]) : up' = [up EXCEPT ![w] = SubSeq(@, 1, n)]
    /\ down' = [down EXCEPT ![w] = <<>>]
    /\ open' = open \ Of(w) /\ gone' = gone \union Of(w) /\ logged' = logged \ Of(w)
    /\ calls' = {c \in calls : Host[SessionOf(c)] # w}
    /\ known' = [s \in Sessions |-> IF Host[s] = w THEN NoLedger ELSE known[s]]
    /\ tally' = [s \in Sessions |-> IF Host[s] = w THEN 0 ELSE tally[s]]
    /\ UNCHANGED <<made, hub, backend, logins, grants, history>>

-----------------------------------------------------------------------------
(* The primary.                                                            *)

\* Upstream.detach
Detach(cs) ==
    /\ live' = live \ cs /\ housed' = housed \ cs
    /\ ledger' = [c \in Calls |-> IF c \in cs THEN NoLedger ELSE ledger[c]]

Entered(S) == {entry[s] : s \in S} \ {None}

\* LocalBackend.close, of each session in S
CloseEntries(S) ==
    /\ entry' = [s \in Sessions |-> IF s \in S THEN None ELSE entry[s]]
    /\ Detach(Entered(S))

\* Upstream.grant: the next range, of job j, into the ledger of a housed client.
Grant(c, j) ==
    /\ given < MaxGrants
    /\ given' = given + 1
    /\ ledger' = [ledger EXCEPT ![c] = Record(@, j, given')]

Arrived(w, t) == up[w] # <<>> /\ Head(up[w]).t = t
Taken(w)      == up' = [up EXCEPT ![w] = Tail(@)]

\* handle(): a login, up to the await of the resolver; the login before it is
\* closed.
HandleLogin(w) ==
    /\ Arrived(w, "login")
    /\ LET c == Head(up[w]).c
           s == SessionOf(c)
       IN  /\ hub' = hub \union {s}
           /\ CloseEntries({s})
           /\ logins' = logins \union {[who |-> c, at |-> "resolve"]}
           /\ cut' = IF entry[s] # None THEN cut \union {s} ELSE cut
    /\ Taken(w)
    /\ UNCHANGED <<alive, edge, worker, down, grants, owed, late>>

\* LocalBackend.chunk with a grant: with the job too if the miner is retuned.
GrantChunk(c) ==
    LET e == entry[SessionOf(c)]
    IN  /\ e \in housed
        /\ Grant(e, ledger[e].job)
        /\ \E j \in {0, ledger[e].job} : ToWorker(Host[SessionOf(c)], Answer(c, Result(j, given')))

\* mutant: an error is not answered
RefuseChunkSilent(c) ==
    /\ IF entry[SessionOf(c)] = None THEN UNCHANGED down
       ELSE ToWorker(Host[SessionOf(c)], Answer(c, Result(0, 0)))
    /\ UNCHANGED <<ledger, given>>

\* Without: not logged in, or no link, another job, no nonces left.
RefuseChunk(c) ==
    /\ ToWorker(Host[SessionOf(c)],
                Answer(c, IF entry[SessionOf(c)] = None THEN Failed ELSE Result(0, 0)))
    /\ UNCHANGED <<ledger, given>>

\* handle(): a chunk
HandleChunk(w) ==
    /\ Arrived(w, "chunk")
    /\ LET c == Head(up[w]).c
       IN  /\ hub' = hub \union {SessionOf(c)}
           /\ GrantChunk(c) \/ RefuseChunk(c)
    /\ Taken(w)
    /\ UNCHANGED <<alive, edge, worker, entry, live, housed, logins, jobs, history>>

\* handle(): a solution the worker has acknowledged; what becomes of it is in
\* SolutionsOwned.
HandleSub(w) ==
    /\ Arrived(w, "sub") /\ Taken(w)
    /\ UNCHANGED <<alive, edge, worker, down, hub, backend, logins, grants, history>>

\* handle(): tallies; those of a session without an entry are dropped.
HandleAcc(w) ==
    /\ Arrived(w, "acc")
    /\ LET d == Head(up[w]).d
       IN  owed' = [s \in Sessions |->
                       IF s \in DOMAIN d /\ s \in hub /\ entry[s] # None
                       THEN owed[s] - d[s] ELSE owed[s]]
    /\ Taken(w)
    /\ UNCHANGED <<alive, edge, worker, down, hub, backend, logins, grants, cut, late>>

\* handle(): a session of this channel is over.
HandleBye(w) ==
    /\ Arrived(w, "bye")
    /\ LET s == Head(up[w]).s
       IN  IF s \in hub THEN hub' = hub \ {s} /\ CloseEntries({s})
           ELSE UNCHANGED <<hub, backend>>
    /\ Taken(w)
    /\ UNCHANGED <<alive, edge, worker, down, logins, grants, history>>

\* mutant: the channel is dropped, its sessions are not closed
EvictForgets(w) ==
    /\ w \notin alive /\ up[w] = <<>> /\ hub \intersect Of(w) # {}
    /\ hub' = hub \ Of(w)
    /\ UNCHANGED <<alive, edge, worker, wire, backend, logins, grants, history>>

\* evict(): the process has exited; its last messages come before that.
Evict(w) ==
    /\ w \notin alive /\ up[w] = <<>> /\ hub \intersect Of(w) # {}
    /\ hub' = hub \ Of(w)
    /\ CloseEntries(hub \intersect Of(w))
    /\ UNCHANGED <<alive, edge, worker, wire, logins, grants, history>>

\* The login of c is answered and over.
Settled(l, r) ==
    /\ logins' = logins \ {l}
    /\ ToWorker(Host[SessionOf(l.who)], Answer(l.who, r))

\* The resolver refuses a login: nothing was made for it.
Refused(l) ==
    /\ l \in logins /\ l.at = "resolve"
    /\ Settled(l, Failed)
    /\ UNCHANGED <<alive, edge, worker, up, hub, backend, grants, history>>

\* The resolver lets it in: it is entered, whatever has happened to the session
\* meanwhile, and attach() is under way.
Resolved(l) ==
    /\ l \in logins /\ l.at = "resolve"
    /\ LET s == SessionOf(l.who)
       IN  /\ entry' = [entry EXCEPT ![s] = l.who]
           /\ live' = live \union {l.who}
           /\ late' = late \union (IF s \in hub THEN {} ELSE {l.who})
                           \union ({entry[s]} \intersect housed)
           /\ cut' = IF entry[s] # None THEN cut \union {s} ELSE cut
    /\ logins' = (logins \ {l}) \union {[l EXCEPT !.at = "attach"]}
    /\ UNCHANGED <<alive, edge, worker, wire, hub, housed, ledger, grants, owed>>

\* attach() fails: no link, no nonces, or the client was detached meanwhile.
AttachFails(l) ==
    LET c == l.who
        s == SessionOf(c)
    IN  /\ l \in logins /\ l.at = "attach"
        /\ entry' = IF entry[s] = c THEN [entry EXCEPT ![s] = None] ELSE entry
        /\ cut' = IF entry[s] = c THEN cut \union {s} ELSE cut
        /\ Detach({c})
        /\ Settled(l, Failed)
        /\ UNCHANGED <<alive, edge, worker, up, hub, grants, owed, late>>

\* mutant: attach() does not look whether the client was detached meanwhile
AttachBlind(l) ==
    LET c == l.who
        s == SessionOf(c)
    IN  /\ l \in logins /\ l.at = "attach" /\ entry[s] \in {c, None}
        /\ \E j \in {jobs[s], jobs[s] + 1} \ {0} :
              /\ Grant(c, j)
              /\ jobs' = [jobs EXCEPT ![s] = j]
              /\ housed' = housed \union {c}
              /\ Settled(l, Result(j, given'))
        /\ UNCHANGED <<alive, edge, worker, up, hub, entry, live, history>>

\* attach() houses the client and grants it a range of the job of its link, and
\* the login is still the session's last.
Attached(l) ==
    LET c == l.who
        s == SessionOf(c)
    IN  /\ l \in logins /\ l.at = "attach" /\ c \in live /\ entry[s] = c
        /\ \E j \in {jobs[s], jobs[s] + 1} \ {0} :
              /\ Grant(c, j)
              /\ jobs' = [jobs EXCEPT ![s] = j]
              /\ housed' = housed \union {c}
              /\ Settled(l, Result(j, given'))
        /\ UNCHANGED <<alive, edge, worker, up, hub, entry, live, history>>

\* attach() houses the client, and then a newer login has taken its place: it is
\* detached again.
Superseded(l) ==
    LET c == l.who
    IN  /\ l \in logins /\ l.at = "attach" /\ c \in live /\ entry[SessionOf(c)] # c
        /\ Detach({c})
        /\ Settled(l, Failed)
        /\ UNCHANGED <<alive, edge, worker, up, hub, entry, grants, history>>

\* A job for a housed client: a new one of its link, or that of another link.
NewJob(c) ==
    LET s == SessionOf(c)
        j == jobs[s] + 1
    IN  /\ c \in housed
        /\ Grant(c, j)
        /\ jobs' = [jobs EXCEPT ![s] = j]
        /\ ToWorker(Host[s], Job(s, Result(j, given')))
        /\ UNCHANGED <<alive, edge, worker, up, hub, entry, live, housed, logins, history>>

\* Upstream has lost the client's link and found no other: it is detached and
\* its miner told to go; the entry stays.
Drop(c) ==
    /\ c \in housed
    /\ Detach({c})
    /\ UNCHANGED <<alive, edge, worker, wire, hub, entry, logins, grants, history>>

\* reset(), by switch_pool: every entry is closed, its miner told to go.
Reset ==
    LET S == {s \in Sessions : entry[s] # None}
    IN  /\ S # {}
        /\ CloseEntries(S)
        /\ cut' = cut \union S
        /\ UNCHANGED <<alive, edge, worker, wire, hub, logins, grants, owed, late>>

-----------------------------------------------------------------------------
Next ==
    \/ \E s \in Sessions : Connect(s) \/ AskLogin(s) \/ AskChunk(s) \/ Close(s)
    \/ \E s \in Sessions, g \in 1 .. MaxGrants : Submit(s, g)
    \/ \E w \in Workers : Flush(w) \/ Answered(w) \/ Pushed(w) \/ Die(w)
    \/ \E c \in Calls : Expire(c) \/ NewJob(c) \/ Drop(c)
    \/ \E w \in Workers :
          \/ HandleLogin(w) \/ HandleChunk(w) \/ HandleSub(w)
          \/ HandleAcc(w) \/ HandleBye(w) \/ Evict(w)
    \/ \E l \in Logins :
          Refused(l) \/ Resolved(l) \/ AttachFails(l) \/ Attached(l) \/ Superseded(l)
    \/ Reset

Spec == Init /\ [][Next]_vars

-----------------------------------------------------------------------------
(* Properties.                                                             *)

LedgerType == [job : 0 .. MaxGrants, last : SUBSET (1 .. MaxGrants), prior : SUBSET (1 .. MaxGrants)]

\* Type correctness; who is housed is a client of Upstream, and an entry is one
\* of its own session.
TypeOK ==
    /\ alive \subseteq Workers
    /\ open \subseteq Sessions /\ gone \subseteq Sessions /\ open \intersect gone = {}
    /\ logged \subseteq Sessions /\ made \in 0 .. MaxCalls
    /\ calls \subseteq Calls
    /\ known \in [Sessions -> LedgerType] /\ ledger \in [Calls -> LedgerType]
    /\ tally \in [Sessions -> 0 .. MaxOwed] /\ owed \in [Sessions -> 0 .. MaxOwed]
    /\ hub \subseteq Sessions
    /\ \A s \in Sessions : entry[s] # None => entry[s] \in Calls /\ SessionOf(entry[s]) = s
    /\ logins \subseteq Logins
    /\ live \subseteq Calls /\ housed \subseteq live
    /\ jobs \in [Sessions -> 0 .. MaxGrants] /\ given \in 0 .. MaxGrants

\* Where the call stands in what its worker has sent, where its answer does in what
\* was sent to it, and the logins that await for it.
Asks(q, c)    == {i \in 1 .. Len(q) : q[i].t \in {"login", "chunk"} /\ q[i].c = c}
Replies(q, c) == {i \in 1 .. Len(q) : q[i].t = "r" /\ q[i].c = c}
Awaits(c)     == {l \in logins : l.who = c}

\* How often the call is on its way, with a login that awaits, or answered.
Held(c) ==
    LET w == Host[SessionOf(c)]
    IN  Cardinality(Asks(up[w], c)) + Cardinality(Awaits(c)) + Cardinality(Replies(down[w], c))

\* A call that a worker waits for is answered once: there is one message, one
\* login or one answer that stands for it, whatever closes or fails meanwhile.
AnsweredOnce == \A c \in calls : Held(c) = 1

\* What a worker, its channels and the primary hold of a session and of its calls
\* fits together.
CallsAnswered == TypeOK /\ AnsweredOnce

\* The shares of s in a message, and those in all messages, each as the n-th of
\* the i-th message: a message has MaxOwed of a session at most.
Shares(m, s)  == IF m.t = "acc" /\ s \in DOMAIN m.d THEN m.d[s] ELSE 0
Tallied(q, s) == {x \in (1 .. Len(q)) \X (1 .. MaxOwed) : x[2] <= Shares(q[x[1]], s)}

InFlight(s) == Cardinality(Tallied(up[Host[s]], s))

\* Every share that a worker has acknowledged is in its tally, on its way or
\* accounted for, up to the end of the session: its last tallies come before its
\* bye.  Not so for a session whose entry went while it was connected.
WorkCounted ==
    \A s \in Sessions : Host[s] \in alive /\ s \notin cut =>
        /\ owed[s] = tally[s] + InFlight(s)
        /\ s \in gone \ hub => owed[s] = 0

\* A solution that the worker has acknowledged is one of the primary's too when it
\* gets there: its nonce is in the ledger of the client, unless two newer jobs
\* have come to that, or the client is not the one it was.
SolutionsOwned ==
    \A w \in alive : \A i \in 1 .. Len(up[w]) :
        LET m == up[w][i]
        IN  m.t = "sub" /\ m.s \in hub \ cut /\ entry[m.s] \in housed =>
               \/ Owns(ledger[entry[m.s]], m.g)
               \/ ledger[entry[m.s]].job >= m.job + 2

\* A client that is housed is that of a session the hub has, but for those that
\* the resolver let in too late.
KeptOnlyLate ==
    \A c \in housed \ late : SessionOf(c) \in hub /\ entry[SessionOf(c)] = c
=============================================================================
