------------------------------- MODULE Miner --------------------------------
(***************************************************************************)
(* NMiner of index.ts with StratumClient of src/js/connect.ts: from the    *)
(* connection to the pool to the job the native code works on.             *)
(*                                                                         *)
(* Everything runs on one event loop.  on_job works off its calls one at a *)
(* time (lock), and awaits the dataset inside (reallocate); what happens   *)
(* between two awaits that take time is one action.  A job is its id, blob *)
(* and first nonce together: two jobs of the pool are equal in all three   *)
(* or in none.  The pool may send any job at any time, and the same one    *)
(* on two connections.                                                     *)
(*                                                                         *)
(* RxJob is what NMiner sees of it: whether it runs, the version and job   *)
(* it was last sent, and the seed of the dataset.  Logging, statistics and *)
(* throttling are left out.                                                *)
(***************************************************************************)
EXTENDS Integers, Sequences, FiniteSets

CONSTANTS
    Conns,      \* 1 .. bound: connections to the pool
    Jobs,       \* jobs of the pool
    Seed,       \* Seed[j]: the seed_hash of a job
    Ranged,     \* the jobs that carry a start_nonce: the pool is a proxy
    Kept,       \* versions that are retained (16)
    Slow,       \* MaxThreads awaits a scan of the processor
    MaxVersion, \* bound: jobs sent to the native code
    MaxQueue    \* bound: calls of on_job that wait

None == "none"

ASSUME MinerAssumption ==
    /\ IsFiniteSet(Conns) /\ Conns = 1 .. Cardinality(Conns)
    /\ Ranged \subseteq Jobs /\ None \notin Jobs
    /\ DOMAIN Seed = Jobs
    /\ Slow \in BOOLEAN
    /\ {Kept, MaxVersion, MaxQueue} \subseteq Nat /\ Kept > 0

VARIABLES
    m,      \* members of NMiner: closed, stratum (0: undefined), timer
            \* (_reconnectTimeout), job (m_job), seed (m_seed), versions
            \* (m_versions), gen (chunk_gen), armed (_chunkPollTimeout); sent
            \* (history): versions since m_versions was cleared
    conn,   \* conn[c]: the socket of a StratumClient, its pendingJob, whether
            \* NMiner listens, where reconnect is; deaf (history): it was lost
            \* before NMiner listened
    calls,  \* calls of on_job in the order of their locks: job, connection, caller
    alloc,  \* the first of them awaits reallocate, or has started the threads again
    chunk,  \* the get_chunk under way: gen, connection, job (requesting_chunk)
    native, \* RxJob and Rx: active, version, job, seed of the dataset
    queued, \* history: the job a range was last granted for, and the job it was given to
    reused, \* history: a job of an earlier connection was taken for known
    late    \* history: a call of on_job has ended after its connection

minerVars == <<m, conn, calls, alloc, chunk, native, queued, reused, late>>

NoChunk == [gen |-> 0, of |-> 0, job |-> None]

MinerInit ==
    /\ m = [closed |-> FALSE, stratum |-> 0, timer |-> TRUE, job |-> None, seed |-> None,
            versions |-> <<>>, sent |-> 0, gen |-> 0, armed |-> FALSE]
    /\ conn = [c \in Conns |-> [socket |-> "new", pending |-> None, heard |-> FALSE, deaf |-> FALSE,
                           step |-> "new"]]
    /\ calls = <<>> /\ alloc = "no" /\ chunk = NoChunk
    /\ native = [active |-> FALSE, version |-> 0, job |-> None, seed |-> None]
    /\ queued = [granted |-> None, given |-> None]
    /\ reused = FALSE /\ late = FALSE

-----------------------------------------------------------------------------
(* What several handlers do.                                               *)

\* The event loop takes an event when no call of on_job can go on.
Settled == calls = <<>> \/ alloc = "await"

\* stop_chunk_poll
PollStopped(s) == [s EXCEPT !.gen = @ + 1, !.armed = FALSE]

\* mutant: the connection is not made again
Abandoned(s) == s

\* schedule_reconnect
Rescheduled(s) == [s EXCEPT !.timer = ~ s.closed]

\* The handler of "close", once NMiner listens to the connection.
Hears(c) == conn[c].heard /\ m.stratum = c /\ conn[c].socket = "open"

\* Every request and waiter of c is rejected.  A login that is rejected reaches
\* the catch of reconnect, which finds nothing to close.
Down(c) == [conn EXCEPT ![c].socket = "closed", ![c].deaf = conn[c].step = "threads",
                        ![c].step = IF @ \in {"login", "wait"} THEN "done" ELSE @]

\* The answer to get_chunk may have come, and be a call of on_job.
OfChunk    == \E i \in DOMAIN calls : calls[i].by = "chunk"
Rejects(c) == IF chunk.of = c /\ ~ OfChunk THEN NoChunk ELSE chunk

\* mutant: the threads go on
Dropped(n) == n

\* The threads are stopped with the connection.
Stopped(n) == [n EXCEPT !.active = FALSE]

\* handleClose: everything is rejected, then "close" is emitted.
Closing(c) ==
    /\ conn' = Down(c) /\ chunk' = Rejects(c)
    /\ IF Hears(c)
       THEN /\ m' = Rescheduled(PollStopped([m EXCEPT !.stratum = 0]))
            /\ native' = Stopped(native)
       ELSE UNCHANGED <<m, native>>

\* this.stratum.close() where NMiner may have none, or one that is closed.
ClosingMine ==
    IF m.stratum # 0 /\ conn[m.stratum].socket = "open"
    THEN Closing(m.stratum)
    ELSE UNCHANGED <<conn, chunk, m, native>>

HistoryIdle == UNCHANGED <<queued, reused, late>>
CallsIdle   == UNCHANGED <<calls, alloc>>

Enqueue(j, c, by) == calls' = Append(calls, [job |-> j, of |-> c, by |-> by])

-----------------------------------------------------------------------------
(* reconnect                                                               *)

\* The timer: connect() is called.
Reconnect(c) ==
    /\ Settled /\ m.timer
    /\ conn[c].socket = "new" /\ \A d \in Conns : d < c => conn[d].socket # "new"
    /\ m' = [m EXCEPT !.timer = FALSE]
    /\ conn' = [conn EXCEPT ![c].socket = "connecting"]
    /\ CallsIdle /\ HistoryIdle /\ UNCHANGED <<chunk, native>>

ConnectFails(c) ==
    /\ Settled /\ conn[c].socket = "connecting"
    /\ conn' = [conn EXCEPT ![c].socket = "closed"]
    /\ m' = Rescheduled(m)
    /\ CallsIdle /\ HistoryIdle /\ UNCHANGED <<chunk, native>>

\* The listeners are attached, the versions forgotten, and login is sent.
LoggingIn(s) == [s EXCEPT !.heard = TRUE, !.step = "login"]
Forgetting(s) == [s EXCEPT !.versions = <<>>, !.sent = 0]

\* connect() returns.  A NMiner that was closed meanwhile closes it.
Connected(c) ==
    /\ Settled /\ conn[c].socket = "connecting"
    /\ LET s == [conn[c] EXCEPT !.socket = IF m.closed THEN "closed" ELSE "open",
                                !.step = IF m.closed THEN "done" ELSE "threads"]
           t == [m EXCEPT !.stratum = c]
           now == ~ m.closed /\ ~ Slow
       IN  /\ conn' = [conn EXCEPT ![c] = IF now THEN LoggingIn(s) ELSE s]
           /\ m' = IF now THEN Forgetting(t) ELSE t
    /\ CallsIdle /\ HistoryIdle /\ UNCHANGED <<chunk, native>>

\* MaxThreads returns.  On a connection that is closed login is rejected, and
\* the catch of reconnect closes what is closed.
ThreadsCounted(c) ==
    /\ Settled /\ conn[c].step = "threads"
    /\ m' = Forgetting(m)
    /\ conn' = [conn EXCEPT ![c] = IF @.socket = "open" THEN LoggingIn(@)
                                   ELSE [@ EXCEPT !.heard = TRUE, !.step = "done"]]
    /\ CallsIdle /\ HistoryIdle /\ UNCHANGED <<chunk, native>>

\* The pool answers login.  A job it has pushed before is taken first, then the
\* job of the answer; without either, the next one it pushes is awaited.
LoggedIn(c, j) ==
    /\ Settled /\ conn[c].step = "login" /\ Len(calls) < MaxQueue
    /\ LET job == IF conn[c].pending # None THEN conn[c].pending ELSE j
       IN  /\ conn' = [conn EXCEPT ![c].step = IF job = None THEN "wait" ELSE "job"]
           /\ IF job = None THEN UNCHANGED calls ELSE Enqueue(job, c, "login")
    /\ HistoryIdle /\ UNCHANGED <<alloc, chunk, m, native>>

\* The pool refuses the login, or no job comes for 30 s: catch.
LoginFails(c) ==
    /\ Settled /\ conn[c].step \in {"login", "wait"}
    /\ ClosingMine
    /\ CallsIdle /\ HistoryIdle

\* pushJob: waiters first, then the listeners.
Push(c, j) ==
    /\ Settled /\ conn[c].socket = "open" /\ Len(calls) < MaxQueue
    /\ conn' = [conn EXCEPT ![c].pending = j, ![c].step = IF @ = "wait" THEN "job" ELSE @]
    /\ LET login == IF conn[c].step = "wait" THEN <<[job |-> j, of |-> c, by |-> "login"]>> ELSE <<>>
           event == IF Hears(c) THEN <<[job |-> j, of |-> c, by |-> "push"]>> ELSE <<>>
       IN  calls' = calls \o event \o login
    /\ HistoryIdle /\ UNCHANGED <<alloc, chunk, m, native>>

\* The pool or the network closes the connection, or a keepalive fails.
Lost(c) ==
    /\ Settled /\ conn[c].socket = "open"
    /\ Closing(c)
    /\ CallsIdle /\ HistoryIdle

\* NMiner.close
Close ==
    /\ Settled /\ ~ m.closed
    /\ m' = PollStopped([m EXCEPT !.closed = TRUE, !.timer = FALSE, !.stratum = 0])
    /\ native' = Stopped(native)
    /\ IF m.stratum = 0 THEN UNCHANGED <<conn, chunk>>
       ELSE conn' = Down(m.stratum) /\ chunk' = Rejects(m.stratum)
    /\ CallsIdle /\ HistoryIdle

-----------------------------------------------------------------------------
(* on_job                                                                  *)

Call == Head(calls)

\* mutant: the poll ends with its answer
RearmedNever(s) == s

\* The poll goes on.
Rearmed(s) == [s EXCEPT !.armed = s.stratum # 0 /\ s.job # None]

\* What the caller does with the result.  After a login that was successful
\* reconnect starts the threads; a poll goes on, or ends if its gen is over.
Returned(s, n, ok) ==
    /\ calls' = Tail(calls)
    /\ native' = IF Call.by = "login" /\ ok THEN [n EXCEPT !.active = TRUE] ELSE n
    /\ m' = IF Call.by = "chunk" /\ chunk.gen = s.gen THEN Rearmed(s) ELSE s
    /\ chunk' = IF Call.by = "chunk" THEN NoChunk ELSE chunk
    /\ conn' = [conn EXCEPT ![Call.of].step = IF Call.by = "login" THEN "done" ELSE @]
    /\ late' = (late \/ Call.of # m.stratum)

\* The job is the one there is.
SameJob ==
    /\ calls # <<>> /\ alloc = "no" /\ m.job = Call.job
    /\ Returned(m, native, TRUE)
    /\ reused' = (reused \/ \A i \in DOMAIN m.versions : m.versions[i].job # Call.job)
    /\ UNCHANGED <<alloc, queued>>

\* mutant: versions are not retained
RetainLess(versions) == IF Len(versions) >= Kept THEN Tail(versions) ELSE versions

\* mutant: one version more
RetainMore(versions) == IF Len(versions) > Kept + 1 THEN Tail(versions) ELSE versions

\* track_version retains the last versions.
Retain(versions) == IF Len(versions) > Kept THEN Tail(versions) ELSE versions

\* schedule_chunk_poll: the poll of this job takes the place of the last one's.
PollScheduled(s) == [s EXCEPT !.gen = @ + 1, !.armed = TRUE]

\* send_job and what follows it.
Sent(n) ==
    LET j == Call.job
        v == native.version + 1
        s == [m EXCEPT !.job = j, !.seed = Seed[j], !.sent = @ + 1,
                       !.versions = Retain(Append(@, [version |-> v, job |-> j, of |-> Call.of]))]
    IN  /\ v <= MaxVersion
        /\ Returned(IF j \in Ranged THEN PollScheduled(s) ELSE PollStopped(s),
                    [n EXCEPT !.version = v, !.job = j], TRUE)

SendJob ==
    /\ calls # <<>> /\ alloc = "no" /\ m.job # Call.job /\ m.seed = Seed[Call.job]
    /\ Sent(native)
    /\ UNCHANGED <<alloc, queued, reused>>

\* mutant: the seed of the last dataset is remembered
SeedKept(s) == s

\* There is no dataset until the next one is built.
Unseeded(s) == [s EXCEPT !.seed = None]

\* Another seed: the threads are stopped and the dataset is rebuilt.
Reallocate ==
    /\ calls # <<>> /\ alloc = "no" /\ m.job # Call.job /\ m.seed # Seed[Call.job]
    /\ native' = Stopped(native)
    /\ m' = Unseeded(m)
    /\ alloc' = "await"
    /\ HistoryIdle /\ UNCHANGED <<conn, calls, chunk>>

\* The threads are started with the new dataset ...
Restart ==
    /\ alloc = "await"
    /\ native' = [native EXCEPT !.active = TRUE, !.seed = Seed[Call.job]]
    /\ alloc' = "started"
    /\ HistoryIdle /\ UNCHANGED <<m, conn, calls, chunk>>

\* ... and then the job is sent.
Reallocated ==
    /\ alloc = "started"
    /\ Sent(native)
    /\ alloc' = "no"
    /\ UNCHANGED <<queued, reused>>

\* The connection there is now is closed.  Cache and dataset may be of the new
\* seed, or gone.
ReallocateFails ==
    /\ alloc = "await"
    /\ alloc' = "no" /\ calls' = Tail(calls)
    /\ LET c    == m.stratum
           open == c # 0 /\ conn[c].socket = "open"
           d    == IF open THEN Down(c) ELSE conn
       IN  /\ conn' = [d EXCEPT ![Call.of].step = IF Call.by = "login" THEN "done" ELSE @]
           /\ m' = IF open /\ Hears(c) THEN Rescheduled(PollStopped([m EXCEPT !.stratum = 0])) ELSE m
           /\ chunk' = IF Call.by = "chunk" THEN NoChunk ELSE IF open THEN Rejects(c) ELSE chunk
    /\ native' = [native EXCEPT !.active = FALSE, !.seed = None]
    /\ HistoryIdle

-----------------------------------------------------------------------------
(* The poll for chunks.                                                    *)

\* The poll fires.  It asks if nonces run out and no answer is awaited, and
\* fires again in 500 ms; without a connection it ends.
Poll ==
    /\ Settled /\ m.armed /\ m.job # None
    /\ IF m.stratum = 0 THEN UNCHANGED chunk
       ELSE /\ chunk = NoChunk /\ conn[m.stratum].socket = "open"
            /\ chunk' = [gen |-> m.gen, of |-> m.stratum, job |-> m.job]
    /\ m' = [m EXCEPT !.armed = FALSE]
    /\ CallsIdle /\ HistoryIdle /\ UNCHANGED <<conn, native>>

\* mutant: the answer is taken whatever happened meanwhile
PollCurrentAlways == TRUE

\* No job was sent and no connection lost since the question.
PollCurrent == chunk.gen = m.gen

\* The answer: a range, or none, or an error.
Answered ==
    /\ Settled /\ chunk # NoChunk /\ ~ OfChunk
    /\ chunk' = NoChunk
    /\ IF PollCurrent
       THEN /\ queued' \in {queued, [granted |-> chunk.job, given |-> native.job]}
            /\ m' = Rearmed(m)
       ELSE UNCHANGED <<queued, m>>
    /\ CallsIdle /\ UNCHANGED <<conn, native, reused, late>>

\* The answer is a job.
AnsweredJob(j) ==
    /\ Settled /\ chunk # NoChunk /\ ~ OfChunk
    /\ PollCurrent /\ Len(calls) < MaxQueue
    /\ Enqueue(j, chunk.of, "chunk")
    /\ HistoryIdle /\ UNCHANGED <<alloc, chunk, m, conn, native>>

-----------------------------------------------------------------------------
MinerNext ==
    \/ \E c \in Conns :
        \/ Reconnect(c) \/ ConnectFails(c) \/ Connected(c) \/ ThreadsCounted(c) \/ LoginFails(c) \/ Lost(c)
        \/ \E j \in Jobs : Push(c, j)
        \/ \E j \in Jobs \union {None} : LoggedIn(c, j)
    \/ Close
    \/ SameJob \/ SendJob \/ Reallocate \/ Restart \/ Reallocated \/ ReallocateFails
    \/ Poll \/ Answered \/ \E j \in Jobs : AnsweredJob(j)

MinerSpec == MinerInit /\ [][MinerNext]_minerVars

-----------------------------------------------------------------------------
JobsOrNone  == Jobs \union {None}
SeedsOrNone == {Seed[j] : j \in Jobs} \union {None}

\* Type invariant.
MinerTypeOK ==
    /\ m \in [closed : BOOLEAN, stratum : Conns \union {0}, timer : BOOLEAN, job : JobsOrNone,
              seed : SeedsOrNone, versions : Seq([version : Nat, job : Jobs, of : Conns]),
              sent : 0 .. MaxVersion, gen : Nat, armed : BOOLEAN]
    /\ conn \in [Conns -> [socket : {"new", "connecting", "open", "closed"}, pending : JobsOrNone,
                           heard : BOOLEAN, deaf : BOOLEAN,
                           step : {"new", "threads", "login", "wait", "job", "done"}]]
    /\ calls \in Seq([job : Jobs, of : Conns, by : {"login", "push", "chunk"}])
    /\ alloc \in {"no", "await", "started"} /\ (alloc # "no" => calls # <<>>)
    /\ chunk \in [gen : Nat, of : Conns \union {0}, job : JobsOrNone]
    /\ native \in [active : BOOLEAN, version : 0 .. MaxVersion, job : JobsOrNone, seed : SeedsOrNone]
    /\ Len(m.versions) <= Kept

\* reconnect has come to its end on the connection there is.
Online == m.stratum # 0 /\ conn[m.stratum].socket = "open" /\ conn[m.stratum].step = "done"

\* The threads run only while there is a connection to submit to: not after it
\* is lost, not after close(), unless an allocation outlives it and on_job or
\* reconnect starts them afterwards (close, on_job, reconnect).
MinesConnected ==
    native.active /\ alloc # "started" /\ ~ late => m.stratum # 0 /\ conn[m.stratum].socket = "open"

\* A NMiner that is not closed has a connection it listens to, is making one, or
\* will try, whichever way the last one ended; but for one that is lost while
\* MaxThreads scans the processor, of which nothing is heard (reconnect).
NeverStranded ==
    Settled /\ ~ m.closed =>
        \/ m.timer
        \/ \E c \in Conns : conn[c].socket = "connecting"
        \/ m.stratum # 0 /\ (conn[m.stratum].socket = "open" \/ conn[m.stratum].deaf)

\* The last versions sent on this connection are known, under their job: a share
\* of the job the threads work on, or of the one it has just replaced, is
\* submitted.  Not if a job is met again after a reconnect (track_version, on_job).
LastVersionsKnown ==
    Online /\ Settled /\ native.active /\ ~ reused /\ ~ late =>
        /\ m.versions # <<>>
        /\ LET last == m.versions[Len(m.versions)]
           IN  last = [version |-> native.version, job |-> native.job, of |-> m.stratum]
        /\ \A i \in 1 .. Len(m.versions) - 1 : m.versions[i + 1].version = m.versions[i].version + 1
        /\ m.sent <= Kept => Len(m.versions) = m.sent
        /\ m.sent >= Kept => Len(m.versions) = Kept

\* A range goes to the job it was granted for, however many jobs are sent and
\* connections lost while get_chunk is answered (schedule_chunk_poll).
ChunkToItsJob == queued.given = queued.granted

\* The nonces of a job that came with a range are topped up for as long as it is
\* mined: the poll is armed or its question is under way.  Not if a job is met
\* again after a reconnect (schedule_chunk_poll, stop_chunk_poll, on_job).
PollAlive ==
    Online /\ calls = <<>> /\ m.job \in Ranged /\ native.active /\ ~ reused /\ ~ late =>
        m.armed \/ (chunk # NoChunk /\ chunk.gen = m.gen)

\* A job that came with a range gets its chunks, and no other job does.
ChunksArrive == ChunkToItsJob /\ PollAlive

\* What the threads hash is hashed over the dataset of its own seed, whatever
\* allocations failed; but for the moment between their restart and the new job,
\* and for a job that is met again (on_job).
SeedOfJob ==
    native.active /\ native.job # None /\ alloc # "started" /\ ~ reused /\ ~ late =>
        native.seed = Seed[native.job]

\* The threads mine for a pool that is there, over the dataset of their job.
MinesForPool == MinerTypeOK /\ MinesConnected /\ SeedOfJob
=============================================================================
