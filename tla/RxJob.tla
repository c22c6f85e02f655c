------------------------------- MODULE RxJob --------------------------------
(***************************************************************************)
(* RxJob of src/algo/randomx/rx_job.cpp: how a job, its nonces and the     *)
(* shares found pass between the JavaScript thread and the mining threads. *)
(*                                                                         *)
(* A blob is the version of the job it came with, and stands for the       *)
(* target of that job too.  An input is a blob with a nonce written into   *)
(* it; the bytes are left out, and so is which byte of the nonce a         *)
(* NiceHash job keeps.  RandomX works one input ahead: hash_first starts   *)
(* an input, hash_next ends it and starts another, hash_last ends it.      *)
(* Whether a hash meets the target is a choice.  Throttling, which only    *)
(* makes a thread sleep, is left out.                                      *)
(*                                                                         *)
(* What Rx does with a VM is in RxLifecycle.  Here create_vm returns a VM  *)
(* or none, and updating is raised and lowered by Rx at any time.          *)
(***************************************************************************)
EXTENDS Integers, Sequences, FiniteSets

CONSTANTS
    Threads,    \* mining threads of a job
    Grants,     \* [start, limit]: the ranges a job or a chunk may bring
    End,        \* the end of the space of a job without a range
    MaxVersion, \* bound: jobs sent
    MaxQueue,   \* bound: ranges queued
    MaxCalls,   \* bound: shares not yet reported
    MaxTurns    \* bound: starts, pauses and updates

ASSUME JobAssumption ==
    /\ IsFiniteSet(Threads)
    /\ \A r \in Grants : r \in [start : Nat, limit : Nat] /\ r.start <= r.limit
    /\ {End, MaxVersion, MaxQueue, MaxCalls, MaxTurns} \subseteq Nat

NoInput == [blob |-> 0, nonce |-> 0, gen |-> 0]
NoRead  == [start |-> 0, limit |-> 0]

VARIABLES
    js,         \* where the JavaScript thread is
    turns,      \* counted for MaxTurns
    m_active, m_paused,
    job,        \* m_job_version, m_blob (with m_size and m_target), m_ranged
    m_range, m_queued,
    read,       \* the range SendJob has read and not yet stored
    updating,   \* Rx::updating
    pc,         \* pc[t]: where Loop of thread t is
    th,         \* th[t]: its locals; vm is the input its VM works on, got the
                \* nonce it has taken, seen the range it found exhausted
    out,        \* m_inflight, the calls queued for the JavaScript thread, and
                \* whether the function is referenced
    gen,        \* history: SendJob has stored a range so often
    given,      \* history: the nonces of the ranges of this gen
    taken,      \* history: nonces taken, with the gen of their range
    examined,   \* history: inputs whose hash was compared with the target
    crossed     \* history: a run was started with an Unref of the last one queued

control == <<turns, m_active, m_paused, updating>>
ranges  == <<m_range, m_queued, read, gen, given>>
threads == <<pc, th, taken, examined>>
vars    == <<js, control, job, ranges, threads, out, crossed>>

Idle == [ver |-> 0, blob |-> 0, cur |-> NoInput, vm |-> NoInput, is_first |-> TRUE,
         got |-> NoInput, seen |-> NoRead]

Live   == {t \in Threads : pc[t] \notin {"off", "last", "exit"}}
Joined == \A t \in Threads : pc[t] \in {"off", "exit"}

Nonces(r) == r.start .. r.limit - 1
Queued    == UNION {Nonces(m_queued[i]) : i \in DOMAIN m_queued}

Init ==
    /\ js = "run" /\ turns = 0 /\ m_active = FALSE /\ m_paused = FALSE
    /\ job = [version |-> 0, blob |-> 0, ranged |-> FALSE]
    /\ m_range = [start |-> 0, limit |-> End] /\ m_queued = <<>> /\ read = NoRead
    /\ updating = FALSE
    /\ pc = [t \in Threads |-> "off"]
    /\ th = [t \in Threads |-> Idle]
    /\ out = [inflight |-> 0, calls |-> <<>>, refd |-> FALSE]
    /\ gen = 0 /\ given = Nonces(m_range)
    /\ taken = {} /\ examined = {} /\ crossed = FALSE

-----------------------------------------------------------------------------
(* The JavaScript thread.                                                  *)

Turn == turns < MaxTurns /\ turns' = turns + 1

\* SendJob: the blob, the target and the flags, under m_job_mutex.
SendBlob(ranged) ==
    /\ js = "run" /\ job.version < MaxVersion
    /\ job' = [job EXCEPT !.blob = @ + 1, !.ranged = ranged]
    /\ js' = "range"
    /\ UNCHANGED <<control, ranges, threads, out, crossed>>

\* A new range takes the place of all there were, under m_range_mutex.
StoreRange(r) ==
    /\ m_range' = r /\ m_queued' = <<>> /\ read' = NoRead
    /\ gen' = gen + 1 /\ given' = Nonces(r)
    /\ js' = "bump"
    /\ UNCHANGED <<control, job, threads, out, crossed>>

\* A job with a range, or one that starts from 0.
SendRange ==
    /\ js = "range"
    /\ \E r \in IF job.ranged THEN Grants ELSE {[start |-> 0, limit |-> End]} : StoreRange(r)

\* A job of the same blob goes on where the last one is: the nonce is read ...
SendKeep ==
    /\ js = "range" /\ ~ job.ranged
    /\ m_queued' = <<>> /\ read' = m_range
    /\ given' = given \ Queued
    /\ js' = "clamp"
    /\ UNCHANGED <<control, job, m_range, gen, threads, out, crossed>>

\* ... and stored, with m_range_mutex held.
SendClamp ==
    /\ js = "clamp"
    /\ StoreRange([start |-> IF read.start < End THEN read.start ELSE End, limit |-> End])

\* The version follows, and m_job_mutex is released.
SendVersion ==
    /\ js = "bump"
    /\ job' = [job EXCEPT !.version = @ + 1]
    /\ js' = "wake"
    /\ UNCHANGED <<control, ranges, threads, out, crossed>>

\* What follows a range that has been queued.
QueuedThen == "wake"

\* QueueRange: another chunk of the job.  The proxy grants no nonce twice.
QueueRange(r) ==
    /\ js = "run" /\ job.ranged /\ r.start < r.limit
    /\ Len(m_queued) < MaxQueue /\ given \intersect Nonces(r) = {}
    /\ m_queued' = Append(m_queued, r)
    /\ given' = given \union Nonces(r)
    /\ js' = QueuedThen
    /\ UNCHANGED <<control, job, m_range, read, gen, threads, out, crossed>>

\* mutant: the notifier does not lock it
CvIgnored == TRUE

\* m_cv_mutex is held by a thread that looks for work, until it sleeps.
CvFree == \A t \in Threads : pc[t] \notin {"look", "probe", "drowsy"}

\* Wake: m_cv_mutex is had once, and all that wait are notified.
Wake ==
    /\ js \in {"wake", "halt start", "halt stop"}
    /\ CvFree
    /\ pc' = [t \in Threads |-> IF pc[t] = "asleep" THEN "wait" ELSE pc[t]]
    /\ js' = CASE js = "wake" -> "run" [] js = "halt start" -> "start" [] js = "halt stop" -> "stop"
    /\ UNCHANGED <<control, job, ranges, th, out, taken, examined, crossed>>

\* Start of a job that runs: it goes on if it was paused.
Unpause ==
    /\ js = "run" /\ m_active /\ Live # {}
    /\ m_paused' = FALSE
    /\ js' = IF m_paused THEN "wake" ELSE "run"
    /\ UNCHANGED <<turns, m_active, updating, job, ranges, threads, out, crossed>>

Pause ==
    /\ js = "run" /\ Turn
    /\ m_paused' = TRUE
    /\ js' = "wake"
    /\ UNCHANGED <<m_active, updating, job, ranges, threads, out, crossed>>

\* Start and Stop: StopLoop clears m_active, wakes and joins.
StopLoop ==
    /\ js = "run"
    /\ \/ js' = "halt stop" /\ UNCHANGED turns
       \/ js' = "halt start" /\ Turn /\ ~ (m_active /\ Live # {})
    /\ m_active' = FALSE
    /\ UNCHANGED <<m_paused, updating, job, ranges, threads, out, crossed>>

\* mutant: shares under way are forgotten
StopForgets == FALSE

\* Stop leaves the reference to the last share that is under way.
StopKeeps == out.refd /\ out.inflight # 0

\* The rest of Stop.
Stop ==
    /\ js = "stop" /\ Joined
    /\ out' = [out EXCEPT !.refd = StopKeeps]
    /\ js' = "run"
    /\ UNCHANGED <<control, job, ranges, threads, crossed>>

\* The rest of Start: new threads.
Start ==
    /\ js = "start" /\ Joined
    /\ m_active' = TRUE /\ m_paused' = FALSE
    /\ out' = [out EXCEPT !.refd = TRUE]
    /\ pc' = [t \in Threads |-> "acquire"] /\ th' = [t \in Threads |-> Idle]
    /\ crossed' = \E i \in DOMAIN out.calls : out.calls[i].kind = "unref"
    /\ js' = "run"
    /\ UNCHANGED <<turns, updating, job, ranges, taken, examined>>

\* The event loop runs a call: a share is reported, or the last thread of a run
\* has ended and the function is let go.
RunCall ==
    /\ js = "run" /\ out.calls # <<>>
    /\ out' = IF Head(out.calls).kind = "share"
              THEN [inflight |-> out.inflight - 1, calls |-> Tail(out.calls),
                    refd |-> out.refd /\ (out.inflight > 1 \/ m_active)]
              ELSE [out EXCEPT !.calls = Tail(@), !.refd = FALSE]
    /\ UNCHANGED <<js, control, job, ranges, threads, crossed>>

\* Rx raises updating for an allocation, and lowers it when that is done.
Update ==
    /\ js = "run"
    /\ IF updating THEN UNCHANGED turns ELSE Turn
    /\ updating' = ~ updating
    /\ UNCHANGED <<js, m_active, m_paused, job, ranges, threads, out, crossed>>

-----------------------------------------------------------------------------
(* A mining thread.                                                        *)

Goto(t, place) == pc' = [pc EXCEPT ![t] = place]
Others         == UNCHANGED <<js, control, job, crossed>>
NoResult       == UNCHANGED <<out, examined>>
NoTaking       == UNCHANGED <<ranges, taken>>

\* mutant: the nonce of the next input
ShareOfNext(t) == [kind |-> "share", of |-> th[t].got, ver |-> th[t].ver, hash |-> th[t].vm]

\* A share: the nonce of cur, the thread's version, and the hash the VM returns.
Share(t) == [kind |-> "share", of |-> th[t].cur, ver |-> th[t].ver, hash |-> th[t].vm]

\* mutant: the share is not counted
SubmitUncounted(t) == out' = [out EXCEPT !.calls = Append(@, Share(t))]

\* SubmitShare, if the hash meets the target.
SubmitShare(t) == out' = [out EXCEPT !.calls = Append(@, Share(t)), !.inflight = @ + 1]

\* What the VM works on is ended, and its hash examined.
Examine(t) ==
    /\ examined' = examined \union {th[t].vm}
    /\ \/ out.inflight < MaxCalls /\ SubmitShare(t)
       \/ UNCHANGED out

\* mutant: what the VM works on is dropped
Flushed(t) == NoResult

\* FlushHash: hash_last, unless the VM works on none.
FlushHash(t) == IF th[t].is_first THEN NoResult ELSE Examine(t)

\* The locals after FlushHash; cur is written again before it is used.
Clean(t) == [th[t] EXCEPT !.is_first = TRUE, !.cur = NoInput, !.vm = NoInput, !.seen = NoRead]

FlushTo(t, place) ==
    /\ FlushHash(t)
    /\ th' = [th EXCEPT ![t] = Clean(t)]
    /\ Goto(t, place)
    /\ Others /\ NoTaking

\* AcquireVm returns a VM.  After an update the job is read again.
Acquired(t) ==
    /\ pc[t] \in {"acquire", "again"}
    /\ th' = [th EXCEPT ![t].ver = IF pc[t] = "again" THEN job.version - 1 ELSE @]
    /\ Goto(t, "top")
    /\ Others /\ NoTaking /\ NoResult

\* It returns none, and the thread ends.
NoVm(t) ==
    /\ pc[t] \in {"acquire", "again"}
    /\ Goto(t, "leave")
    /\ Others /\ NoTaking /\ NoResult /\ UNCHANGED th

\* The head of the loop: stopped, ...
Quit(t) == pc[t] = "top" /\ ~ m_active /\ FlushTo(t, "leave")

\* ... the memory of the VM is wanted, ...
Yield(t) == pc[t] = "top" /\ m_active /\ updating /\ FlushTo(t, "yield")

\* (the update is over, or the job is stopped)
Resume(t) ==
    /\ pc[t] = "yield" /\ ~ (updating /\ m_active)
    /\ Goto(t, "again")
    /\ Others /\ NoTaking /\ NoResult /\ UNCHANGED th

\* ... another job, ...
Outdated(t) ==
    /\ pc[t] = "top" /\ m_active /\ ~ updating /\ th[t].ver # job.version
    /\ FlushTo(t, "copy")

\* mutant: the job is copied without its mutex
JobUnlocked == TRUE

\* m_job_mutex is held by SendJob from the blob to the version.
JobFree == js \notin {"range", "clamp", "bump"}

\* which is copied, ...
Copy(t) ==
    /\ pc[t] = "copy" /\ JobFree
    /\ th' = [th EXCEPT ![t].blob = job.blob, ![t].ver = job.version]
    /\ Goto(t, "nonce")
    /\ Others /\ NoTaking /\ NoResult

\* ... or the same one.
Current(t) ==
    /\ pc[t] = "top" /\ m_active /\ ~ updating /\ th[t].ver = job.version
    /\ Goto(t, "nonce")
    /\ Others /\ NoTaking /\ NoResult /\ UNCHANGED th

\* NextNonce is not called, or finds the job paused.
NoNonce(t) == pc[t] = "nonce" /\ (th[t].blob = 0 \/ m_paused) /\ FlushTo(t, "wait")

\* It looks at m_paused once, and then at the range until it has a nonce.
Asks(t) == pc[t] = "take" \/ (pc[t] = "nonce" /\ th[t].blob # 0 /\ ~ m_paused)

\* compare_exchange: the next nonce of the range there is.
Take(t) ==
    /\ Asks(t) /\ m_range.start < m_range.limit
    /\ m_range' = [m_range EXCEPT !.start = @ + 1]
    /\ LET input == [blob |-> th[t].blob, nonce |-> m_range.start, gen |-> gen]
       IN  /\ th' = [th EXCEPT ![t].got = input]
           /\ taken' = taken \union {input}
    /\ Goto(t, "hash")
    /\ Others /\ NoResult /\ UNCHANGED <<m_queued, read, gen, given>>

\* There is none: the range is exhausted.
Exhausted(t) ==
    /\ Asks(t) /\ m_range.start >= m_range.limit
    /\ th' = [th EXCEPT ![t].seen = m_range]
    /\ Goto(t, "advance")
    /\ Others /\ NoTaking /\ NoResult

\* mutant: whoever found a range exhausted moves on
StillSeenAlways(t) == TRUE

\* Nobody has changed the range since.
StillSeen(t) == m_range = th[t].seen

\* AdvanceRange, under m_range_mutex: the next range that is queued.
AdvanceRange(t) ==
    /\ pc[t] = "advance" /\ js # "clamp"
    /\ IF StillSeen(t)
       THEN m_queued # <<>> /\ m_range' = Head(m_queued) /\ m_queued' = Tail(m_queued)
       ELSE UNCHANGED <<m_range, m_queued>>
    /\ th' = [th EXCEPT ![t].seen = NoRead]
    /\ Goto(t, "take")
    /\ Others /\ NoResult /\ UNCHANGED <<read, gen, given, taken>>

NoRange(t) ==
    /\ pc[t] = "advance" /\ js # "clamp"
    /\ StillSeen(t) /\ m_queued = <<>>
    /\ FlushTo(t, "wait")

\* hash_first, or hash_next: the nonce is written, and the input before it ended.
Hash(t) ==
    /\ pc[t] = "hash"
    /\ FlushHash(t)
    /\ th' = [th EXCEPT ![t].cur = th[t].got, ![t].vm = th[t].got, ![t].is_first = FALSE,
                        ![t].got = NoInput]
    /\ Goto(t, "top")
    /\ Others /\ NoTaking

Wanted(t) == ~ m_active \/ job.version # th[t].ver
Mines(t)  == th[t].blob # 0 /\ ~ m_paused
InRange   == m_range.start < m_range.limit

\* WaitForWork: its predicate reads, with m_cv_mutex held, what the JavaScript
\* thread alone writes while this thread lives.  Whatever that writes before this
\* one sleeps, updating apart, is followed by a Wake that waits for the mutex: so
\* the reads are one step.  Then HasWork ...
WaitForWork(t) ==
    /\ pc[t] = "wait" /\ CvFree
    /\ Goto(t, IF Wanted(t) \/ updating THEN "top" ELSE IF Mines(t) THEN "look" ELSE "drowsy")
    /\ Others /\ NoTaking /\ NoResult /\ UNCHANGED th

\* ... loads the range, and under m_range_mutex looks into the queue: another
\* thread may move a range from there to here in between.
HasWork(t) ==
    /\ \/ pc[t] = "look" /\ Goto(t, IF InRange THEN "top" ELSE "probe")
       \/ pc[t] = "probe" /\ js # "clamp" /\ Goto(t, IF m_queued # <<>> THEN "top" ELSE "drowsy")
    /\ Others /\ NoTaking /\ NoResult /\ UNCHANGED th

\* m_cv_mutex is released only when the thread sleeps.  It sleeps for 250 ms at most.
Sleep(t) ==
    /\ \/ pc[t] = "drowsy" /\ Goto(t, "asleep")
       \/ pc[t] = "asleep" /\ Goto(t, "top")
    /\ Others /\ NoTaking /\ NoResult /\ UNCHANGED th

\* LiveGuard: m_live goes down, ...
Leave(t) ==
    /\ pc[t] = "leave"
    /\ Goto(t, IF Live = {t} THEN "last" ELSE "exit")
    /\ th' = [th EXCEPT ![t] = Idle]
    /\ Others /\ NoTaking /\ NoResult

\* ... and the last thread, unless it was stopped, has the function let go.
Last(t) ==
    /\ pc[t] = "last"
    /\ m_active' = FALSE
    /\ out' = IF m_active THEN [out EXCEPT !.calls = Append(@, [kind |-> "unref"])] ELSE out
    /\ Goto(t, "exit")
    /\ NoTaking
    /\ UNCHANGED <<js, turns, m_paused, updating, job, crossed, th, examined>>

-----------------------------------------------------------------------------
Js ==
    \/ \E ranged \in BOOLEAN : SendBlob(ranged)
    \/ SendRange \/ SendKeep \/ SendClamp \/ SendVersion \/ Wake
    \/ \E r \in Grants : QueueRange(r)
    \/ Unpause \/ Pause \/ StopLoop \/ Stop \/ Start \/ RunCall \/ Update

Thread(t) ==
    \/ Acquired(t) \/ NoVm(t) \/ Quit(t) \/ Yield(t) \/ Resume(t)
    \/ Outdated(t) \/ Copy(t) \/ Current(t)
    \/ NoNonce(t) \/ Take(t) \/ Exhausted(t) \/ AdvanceRange(t) \/ NoRange(t)
    \/ Hash(t) \/ WaitForWork(t) \/ HasWork(t) \/ Sleep(t) \/ Leave(t) \/ Last(t)

Next == Js \/ \E t \in Threads : Thread(t)

Spec == Init /\ [][Next]_vars

-----------------------------------------------------------------------------
InputType == [blob : 0 .. MaxVersion, nonce : Nat, gen : 0 .. MaxVersion]
RangeType == [start : Nat, limit : Nat]
Shares    == {i \in DOMAIN out.calls : out.calls[i].kind = "share"}

\* Type invariant.
TypeOK ==
    /\ js \in {"run", "range", "clamp", "bump", "wake", "halt start", "halt stop", "start", "stop"}
    /\ turns \in 0 .. MaxTurns
    /\ {m_active, m_paused, updating, crossed, out.refd, job.ranged} \subseteq BOOLEAN
    /\ {job.version, job.blob, gen} \subseteq 0 .. MaxVersion
    /\ {m_range, read} \subseteq RangeType /\ m_queued \in Seq(RangeType)
    /\ pc \in [Threads -> {"off", "acquire", "again", "top", "yield", "copy", "nonce", "take",
                           "advance", "hash", "wait", "look", "probe", "drowsy", "asleep",
                           "leave", "last", "exit"}]
    /\ th \in [Threads -> [ver : -1 .. MaxVersion, blob : 0 .. MaxVersion, cur : InputType,
                           vm : InputType, is_first : BOOLEAN, got : InputType, seen : RangeType]]
    /\ out.inflight = Cardinality(Shares)
    /\ given \subseteq Nat /\ taken \subseteq InputType /\ examined \subseteq InputType

\* A share is reported with the nonce whose hash it is, and with the version of
\* the blob that was hashed: the pipeline of RandomX, the copies of cur and nxt
\* and a job that is replaced at any time do not mix two inputs or two jobs
\* (Loop, FlushHash, SubmitShare, SendJob).
ShareTrue ==
    \A i \in Shares : /\ out.calls[i].of = out.calls[i].hash
                      /\ out.calls[i].ver = out.calls[i].hash.blob

\* What a thread has taken and not examined: one nonce in hand, one in its VM.
InHand(t) ==
    (IF pc[t] = "hash" THEN {th[t].got} ELSE {}) \union
    (IF th[t].is_first THEN {} ELSE {th[t].vm})

\* Every nonce taken is examined in the end, once: whenever a thread changes
\* jobs, runs dry, is paused or stopped, or gives its VM away, the input its VM
\* is working on is ended first (FlushHash).
NoHashLost ==
    LET pending == UNION {InHand(t) : t \in Threads}
    IN  examined = taken \ pending /\ pending \subseteq taken

\* The nonces given with a job or a chunk are those taken and those still ahead:
\* none is handed out twice or skipped, whichever threads race for the end of a
\* range and whatever is queued meanwhile (NextNonce, AdvanceRange, QueueRange).
HandedOnce ==
    LET ahead == Nonces(m_range) \union Queued
    IN  /\ {i.nonce : i \in {i \in taken : i.gen = gen}} = given \ ahead
        /\ ahead \subseteq given

\* A blob never gets a nonce of a range older than itself.  It may get one of a
\* newer range, for SendJob stores the range before the version.
NeverStaleNonce == \A i \in taken : i.gen >= i.blob

\* Every nonce that was given is ahead, taken by one thread, or examined: none is
\* lost, none is hashed twice.
NoncesOnce == HandedOnce /\ NoHashLost

\* What is hashed is a nonce of the blob's range or of a newer one, and what is
\* reported of it is of that nonce and that blob.
SharesTrue == ShareTrue /\ NeverStaleNonce

\* The places from which Wake is still to come.
Telling == {"bump", "wake", "halt start", "halt stop"}

\* On its way to a nonce, with a blob; and gone, for want of a VM or by a stop.
Working(t) ==
    /\ th[t].blob # 0
    /\ pc[t] \in {"again", "top", "yield", "copy", "nonce", "take", "advance", "hash"}
Gone(t) == pc[t] \in {"leave", "last", "exit"}

\* Nobody sleeps through a stop, a job, the end of a pause or a range that is
\* queued, unless Wake is still to come.  Over a range that has begun one may
\* sleep, for another thread may have moved it from the queue between the two
\* looks of HasWork, and notifies nobody: but then a thread is awake and works on
\* the range, or one has left for want of a VM.  So the 250 ms are for updating,
\* and for sharing such a range (WaitForWork, HasWork, AdvanceRange, Wake).
NoLostWakeup ==
    \A t \in Threads : pc[t] = "asleep" /\ js \notin Telling =>
        /\ ~ Wanted(t)
        /\ Mines(t) => m_queued = <<>> /\ (InRange => \E u \in Threads : Working(u) \/ Gone(u))

\* The function keeps the event loop alive while threads mine and until the last
\* share is reported, and no longer.  A Start that comes before the Unref of
\* a run that ended by itself loses its reference (LiveGuard, Start, Stop).
Referenced ==
    /\ (Live # {} \/ out.inflight > 0) /\ ~ crossed => out.refd
    /\ js = "run" /\ ~ m_active /\ out.calls = <<>> /\ Joined => ~ out.refd

\* The shares on their way are counted, and their count and the threads decide
\* about the reference.
CallsAccounted == TypeOK /\ Referenced
=============================================================================
