---------------------------- MODULE RxJobProofs -----------------------------
(***************************************************************************)
(* Theorems about RxJob, for any number of threads and any bounds.         *)
(***************************************************************************)
EXTENDS RxJob, FiniteSetTheorems, TLAPS

-----------------------------------------------------------------------------
(* Types, as far as the proofs need them.                                  *)

Input  == [blob : Nat, nonce : Nat, gen : Nat]
Local  == [ver : Int, blob : Nat, cur : Input, vm : Input, is_first : BOOLEAN,
           got : Input, seen : RangeType]
Call   == [kind : {"share"}, of : Input, ver : Int, hash : Input] \union [kind : {"unref"}]
Out    == [inflight : Int, calls : Seq(Call), refd : BOOLEAN]
Places == {"off", "acquire", "again", "top", "yield", "copy", "nonce", "take",
           "advance", "hash", "wait", "look", "probe", "drowsy", "asleep", "leave", "last", "exit"}

Shapes ==
    /\ job \in [version : Nat, blob : Nat, ranged : BOOLEAN] /\ gen \in Nat
    /\ m_range \in RangeType /\ read \in RangeType /\ m_queued \in Seq(RangeType)
    /\ pc \in [Threads -> Places] /\ th \in [Threads -> Local]
    /\ out \in Out
    /\ taken \subseteq Input

\* What SendJob is about to do is what the versions differ by.
VersionsAgree ==
    /\ job.blob = job.version + (IF js \in {"range", "clamp", "bump"} THEN 1 ELSE 0)
    /\ job.blob = gen + (IF js \in {"range", "clamp"} THEN 1 ELSE 0)

\* What the pipeline of a thread holds.  A thread whose version is not that of
\* its blob has nothing in its VM and reads the job before it hashes.
Pipeline(t) ==
    /\ pc[t] \in {"off", "acquire", "copy", "yield", "again", "leave", "last", "exit"}
           => th[t].is_first
    /\ ~ th[t].is_first => th[t].cur = th[t].vm /\ th[t].vm.blob = th[t].ver
    /\ pc[t] = "hash" => th[t].got.blob = th[t].blob
    /\ pc[t] \in {"nonce", "take", "advance", "hash"} => th[t].blob = th[t].ver
    /\ th[t].blob = th[t].ver \/ (th[t].is_first /\ th[t].ver < job.version)
    /\ th[t].blob <= job.version

PipelineInv ==
    /\ Shapes /\ VersionsAgree /\ \A t \in Threads : Pipeline(t)
    /\ ShareTrue /\ NeverStaleNonce

LEMMA InitPipeline == Init => PipelineInv
  <1> SUFFICES ASSUME Init PROVE PipelineInv
    OBVIOUS
  <1> USE JobAssumption
  <1>1. Shapes
    BY DEF Init, Shapes, RangeType, Local, Input, Out, Places, Idle, NoInput, NoRead
  <1>2. VersionsAgree
    BY DEF Init, VersionsAgree
  <1>3. \A t \in Threads : Pipeline(t)
    BY DEF Init, Pipeline, Idle, NoInput
  <1>4. ShareTrue /\ NeverStaleNonce
    BY DEF Init, ShareTrue, NeverStaleNonce, Shares
  <1> QED
    BY <1>1, <1>2, <1>3, <1>4 DEF PipelineInv

LEMMA Reported ==
  ASSUME NEW o \in Out, NEW c \in Call
  PROVE  /\ [o EXCEPT !.calls = Append(@, c), !.inflight = @ + 1] \in Out
         /\ [o EXCEPT !.calls = Append(@, c)] \in Out
  <1>1. o.calls \in Seq(Call) /\ o.inflight \in Int /\ o.refd \in BOOLEAN
    BY DEF Out
  <1>2. Append(o.calls, c) \in Seq(Call) /\ o.inflight + 1 \in Int
    BY <1>1
  <1> QED
    BY <1>1, <1>2 DEF Out

LEMMA ShareShape == ASSUME Shapes, NEW t \in Threads PROVE Share(t) \in Call
  BY DEF Shapes, Share, Local, Call

LEMMA FlushedOut ==
  ASSUME Shapes, NEW t \in Threads, FlushHash(t) PROVE out' \in Out
  <1>1. CASE UNCHANGED out
    BY <1>1 DEF Shapes
  <1>2. CASE SubmitShare(t)
    BY <1>2, ShareShape, Reported DEF Shapes, SubmitShare
  <1> QED
    BY <1>1, <1>2 DEF FlushHash, Examine, NoResult

LEMMA LocalKept ==
  ASSUME NEW x \in Local
  PROVE  /\ \A v \in Int : [x EXCEPT !.ver = v] \in Local
         /\ \A b \in Nat, v \in Int : [x EXCEPT !.blob = b, !.ver = v] \in Local
         /\ \A r \in RangeType : [x EXCEPT !.seen = r] \in Local
         /\ \A i \in Input :
                /\ [x EXCEPT !.got = i] \in Local
                /\ [x EXCEPT !.cur = x.got, !.vm = x.got, !.is_first = FALSE, !.got = i] \in Local
  <1>1. \A v \in Int : [x EXCEPT !.ver = v] \in Local
    BY DEF Local
  <1>2. \A b \in Nat, v \in Int : [x EXCEPT !.blob = b, !.ver = v] \in Local
    BY DEF Local
  <1>3. \A r \in RangeType : [x EXCEPT !.seen = r] \in Local
    BY DEF Local
  <1>4. \A i \in Input : [x EXCEPT !.got = i] \in Local
    BY DEF Local
  <1>5. \A i \in Input :
           [x EXCEPT !.cur = x.got, !.vm = x.got, !.is_first = FALSE, !.got = i] \in Local
    BY DEF Local
  <1> QED
    BY <1>1, <1>2, <1>3, <1>4, <1>5

LEMMA CleanShape == ASSUME Shapes, NEW t \in Threads PROVE Clean(t) \in Local
  <1>1. th[t] \in Local
    BY DEF Shapes
  <1>2. NoInput \in Input
    BY DEF NoInput, Input
  <1>3. NoRead \in RangeType
    BY DEF NoRead, RangeType
  <1> QED
    BY <1>1, <1>2, <1>3 DEF Clean, Local

LEMMA IdleShape == Idle \in Local
  <1>1. NoInput \in Input
    BY DEF NoInput, Input
  <1>2. NoRead \in RangeType
    BY DEF NoRead, RangeType
  <1> QED
    BY <1>1, <1>2 DEF Idle, Local

LEMMA StepShapes == Shapes /\ [Next]_vars => Shapes'
  <1> SUFFICES ASSUME Shapes, [Next]_vars PROVE Shapes'
    OBVIOUS
  <1> USE JobAssumption DEF Shapes
  <1>1. CASE UNCHANGED vars
    BY <1>1 DEF vars, control, ranges, threads
  <1>2. ASSUME NEW ranged \in BOOLEAN, SendBlob(ranged) PROVE Shapes'
    <2>1. job' \in [version : Nat, blob : Nat, ranged : BOOLEAN]
      <3>1. job.blob + 1 \in Nat
        OBVIOUS
      <3>2. job' = [job EXCEPT !.blob = job.blob + 1, !.ranged = ranged]
        BY <1>2 DEF SendBlob
      <3> QED
        BY <3>1, <3>2, Zenon
    <2> QED
      BY <1>2, <2>1 DEF SendBlob, control, ranges, threads
  <1>3. CASE SendRange
    BY <1>3 DEF SendRange, StoreRange, control, threads, RangeType, NoRead
  <1>4. CASE SendKeep
    BY <1>4 DEF SendKeep, control, threads
  <1>5. CASE SendClamp
    BY <1>5 DEF SendClamp, StoreRange, control, threads, RangeType, NoRead
  <1>6. CASE SendVersion
    <2>1. job' \in [version : Nat, blob : Nat, ranged : BOOLEAN]
      <3>1. job.version + 1 \in Nat
        OBVIOUS
      <3>2. job' = [job EXCEPT !.version = job.version + 1]
        BY <1>6 DEF SendVersion
      <3> QED
        BY <3>1, <3>2, Zenon
    <2>2. UNCHANGED <<gen, m_range, read, m_queued, pc, th, out, taken>>
      BY <1>6 DEF SendVersion, control, ranges, threads
    <2> QED
      BY <2>1, <2>2
  <1>7. CASE Wake
    BY <1>7 DEF Wake, control, ranges, Places
  <1>8. ASSUME NEW r \in Grants, QueueRange(r) PROVE Shapes'
    <2>1. r \in RangeType
      BY DEF RangeType
    <2> QED
      BY <1>8, <2>1 DEF QueueRange, QueuedThen, control, threads
  <1>9. CASE Unpause \/ Pause \/ StopLoop \/ Update
    BY <1>9 DEF Unpause, Pause, StopLoop, Update, ranges, threads
  <1>10. CASE Stop
    <2>1. StopKeeps \in BOOLEAN
      BY DEF StopKeeps
    <2>2. out' \in Out
      BY <1>10, <2>1 DEF Stop, Out
    <2> QED
      BY <1>10, <2>2 DEF Stop, control, ranges, threads
  <1>11. CASE Start
    <2>1. out' \in Out
      BY <1>11 DEF Start, Out
    <2> QED
      BY <1>11, <2>1, IdleShape DEF Start, ranges, Places
  <1>12. CASE RunCall
    <2>1. Tail(out.calls) \in Seq(Call) /\ out.inflight - 1 \in Int /\ out.refd \in BOOLEAN
      BY <1>12 DEF RunCall, Out
    <2>2. out' \in Out
      BY <1>12, <2>1 DEF RunCall, Out
    <2> QED
      BY <1>12, <2>2 DEF RunCall, control, ranges, threads
  <1>13. ASSUME NEW t \in Threads, Thread(t) PROVE Shapes'
    <2> USE DEF Others, NoTaking, NoResult, Goto, control, ranges, Places
    <2>0. NoInput \in Input /\ NoRead \in RangeType /\ th[t] \in Local
      BY DEF NoInput, NoRead, Input, RangeType
    <2>1. ASSUME NEW place \in Places, FlushTo(t, place) PROVE Shapes'
      <3>1. out' \in Out
        BY <2>1, FlushedOut DEF FlushTo
      <3>2. th' \in [Threads -> Local]
        BY <2>1, CleanShape DEF FlushTo
      <3> QED
        BY <2>1, <3>1, <3>2 DEF FlushTo
    <2>2. CASE Quit(t) \/ Yield(t) \/ Outdated(t) \/ NoNonce(t) \/ NoRange(t)
      BY <2>1, <2>2 DEF Quit, Yield, Outdated, NoNonce, NoRange
    <2>3. CASE Acquired(t) \/ Copy(t) \/ Exhausted(t)
      <3>1. /\ \A v \in Int : [th[t] EXCEPT !.ver = v] \in Local
            /\ \A b \in Nat, v \in Int : [th[t] EXCEPT !.blob = b, !.ver = v] \in Local
            /\ \A r \in RangeType : [th[t] EXCEPT !.seen = r] \in Local
        BY <2>0, LocalKept
      <3>2. /\ job.version \in Int /\ job.version - 1 \in Int /\ th[t].ver \in Int
            /\ job.blob \in Nat
        BY DEF Local
      <3>3. th' \in [Threads -> Local]
        <4>1. CASE Acquired(t)
          <5>1. [th[t] EXCEPT !.ver = IF pc[t] = "again" THEN job.version - 1 ELSE @] \in Local
            BY <3>1, <3>2
          <5> QED
            BY <4>1, <5>1 DEF Acquired
        <4>2. CASE Copy(t)
          BY <4>2, <3>1, <3>2 DEF Copy
        <4>3. CASE Exhausted(t)
          <5>1. [th[t] EXCEPT !.seen = m_range] \in Local
            BY <3>1
          <5> QED
            BY <4>3, <5>1 DEF Exhausted
        <4> QED
          BY <2>3, <4>1, <4>2, <4>3
      <3>4. pc' \in [Threads -> Places]
        BY <2>3 DEF Acquired, Copy, Exhausted
      <3> QED
        BY <2>3, <3>3, <3>4 DEF Acquired, Copy, Exhausted
    <2>4. CASE NoVm(t) \/ Resume(t) \/ Current(t) \/ WaitForWork(t) \/ HasWork(t) \/ Sleep(t)
      BY <2>4 DEF NoVm, Resume, Current, WaitForWork, HasWork, Sleep
    <2>5. CASE Take(t)
      <3>1. [blob |-> th[t].blob, nonce |-> m_range.start, gen |-> gen] \in Input
        BY DEF Local, Input, RangeType
      <3>2. m_range' \in RangeType
        <4>1. m_range.start + 1 \in Nat
          BY DEF RangeType
        <4> QED
          BY <2>5, <4>1 DEF Take, RangeType
      <3>3. th' \in [Threads -> Local]
        <4>1. \A i \in Input : [th[t] EXCEPT !.got = i] \in Local
          BY <2>0, LocalKept
        <4>2. PICK i \in Input : i = [blob |-> th[t].blob, nonce |-> m_range.start, gen |-> gen]
          BY <3>1
        <4>3. th' = [th EXCEPT ![t] = [th[t] EXCEPT !.got = i]]
          BY <2>5, <4>2 DEF Take
        <4> QED
          BY <4>1, <4>3
      <3>4. taken' \subseteq Input
        BY <2>5, <3>1 DEF Take
      <3>5. pc' \in [Threads -> Places]
        BY <2>5 DEF Take
      <3>6. /\ job' = job /\ gen' = gen /\ read' = read /\ m_queued' = m_queued
            /\ out' = out
        BY <2>5 DEF Take
      <3> QED
        BY <3>2, <3>3, <3>4, <3>5, <3>6
    <2>6. CASE AdvanceRange(t)
      <3>1. m_range' \in RangeType /\ m_queued' \in Seq(RangeType)
        <4>1. CASE UNCHANGED <<m_range, m_queued>>
          BY <4>1
        <4>2. CASE /\ m_queued # <<>>
                   /\ m_range' = Head(m_queued) /\ m_queued' = Tail(m_queued)
          <5>1. Head(m_queued) \in RangeType /\ Tail(m_queued) \in Seq(RangeType)
            BY <4>2
          <5> QED
            BY <4>2, <5>1
        <4> QED
          BY <2>6, <4>1, <4>2 DEF AdvanceRange
      <3>2. th' \in [Threads -> Local]
        BY <2>0, <2>6 DEF AdvanceRange, Local
      <3> QED
        BY <2>6, <3>1, <3>2 DEF AdvanceRange
    <2>7. CASE Hash(t)
      <3>1. out' \in Out
        BY <2>7, FlushedOut DEF Hash
      <3>2. th' \in [Threads -> Local]
        <4>1. [th[t] EXCEPT !.cur = th[t].got, !.vm = th[t].got, !.is_first = FALSE,
                            !.got = NoInput] \in Local
          BY <2>0, LocalKept
        <4> QED
          BY <2>7, <4>1 DEF Hash
      <3> QED
        BY <2>7, <3>1, <3>2 DEF Hash
    <2>8. CASE Leave(t)
      BY <2>8, IdleShape DEF Leave
    <2>9. CASE Last(t)
      <3>1. [kind |-> "unref"] \in Call
        BY DEF Call
      <3>2. out' \in Out
        BY <2>9, <3>1, Reported DEF Last
      <3> QED
        BY <2>9, <3>2 DEF Last
    <2> QED
      BY <1>13, <2>2, <2>3, <2>4, <2>5, <2>6, <2>7, <2>8, <2>9 DEF Thread
  <1> QED
    BY <1>1, <1>2, <1>3, <1>4, <1>5, <1>6, <1>7, <1>8, <1>9, <1>10, <1>11, <1>12, <1>13
       DEF Next, Js

-----------------------------------------------------------------------------
(* Versions.                                                               *)

LEMMA StepVersions == Shapes /\ VersionsAgree /\ [Next]_vars => VersionsAgree'
  <1> SUFFICES ASSUME Shapes, VersionsAgree, [Next]_vars PROVE VersionsAgree'
    OBVIOUS
  <1>0. job.version \in Nat /\ job.blob \in Nat /\ gen \in Nat
    BY DEF Shapes
  <1> USE DEF VersionsAgree
  <1>1. CASE UNCHANGED vars
    BY <1>1 DEF vars, ranges
  <1>2. ASSUME NEW ranged \in BOOLEAN, SendBlob(ranged) PROVE VersionsAgree'
    <2>1. job'.version = job.version /\ job'.blob = job.blob + 1
      BY <1>2 DEF SendBlob, Shapes
    <2> QED
      BY <1>0, <1>2, <2>1 DEF SendBlob, ranges
  <1>3. CASE SendRange \/ SendKeep \/ SendClamp
    BY <1>0, <1>3 DEF SendRange, SendKeep, SendClamp, StoreRange
  <1>4. CASE SendVersion
    <2>1. job'.version = job.version + 1 /\ job'.blob = job.blob
      BY <1>4 DEF SendVersion, Shapes
    <2> QED
      BY <1>0, <1>4, <2>1 DEF SendVersion, ranges
  <1>5. CASE Wake
    BY <1>5 DEF Wake, ranges
  <1>6. ASSUME NEW r \in Grants, QueueRange(r) PROVE VersionsAgree'
    BY <1>6 DEF QueueRange, QueuedThen
  <1>7. CASE Unpause \/ Pause \/ StopLoop \/ Stop \/ Start \/ RunCall \/ Update
    BY <1>7 DEF Unpause, Pause, StopLoop, Stop, Start, RunCall, Update, ranges
  <1>8. ASSUME NEW t \in Threads, Thread(t) PROVE VersionsAgree'
    BY <1>8 DEF Thread, Acquired, NoVm, Quit, Yield, Resume, Outdated, Copy, Current, NoNonce,
                Take, Exhausted, AdvanceRange, NoRange, Hash, WaitForWork, HasWork, Sleep, Leave, Last,
                FlushTo, Others, NoTaking, ranges
  <1> QED
    BY <1>1, <1>2, <1>3, <1>4, <1>5, <1>6, <1>7, <1>8 DEF Next, Js

-----------------------------------------------------------------------------
(* The pipeline.                                                           *)

\* What a thread holds stays right while it does nothing and the version grows.
LEMMA PipelineKept ==
  ASSUME Shapes, Shapes', NEW t \in Threads, Pipeline(t),
         job'.version >= job.version, th'[t] = th[t],
         pc'[t] = pc[t] \/ pc'[t] = "wait"
  PROVE  Pipeline(t)'
  <1>1. job.version \in Nat /\ job'.version \in Nat /\ th[t].ver \in Int /\ th[t].blob \in Nat
    BY DEF Shapes, Local
  <1> QED
    BY <1>1 DEF Pipeline

\* A thread that flushes its VM, and goes anywhere but on to a nonce.
LEMMA PipelineFlushed ==
  ASSUME Shapes, NEW t \in Threads, Pipeline(t),
         NEW place \in {"leave", "yield", "copy", "wait"}, FlushTo(t, place)
  PROVE  Pipeline(t)'
  <1>1. th'[t] = Clean(t) /\ pc'[t] = place /\ job' = job
    BY DEF FlushTo, Goto, Others, Shapes
  <1>2. /\ th'[t].is_first = TRUE /\ th'[t].blob = th[t].blob /\ th'[t].ver = th[t].ver
    BY <1>1 DEF Clean, Shapes, Local
  <1>3. job.version \in Nat /\ th[t].ver \in Int /\ th[t].blob \in Nat
    BY DEF Shapes, Local
  <1>4. th[t].blob <= job.version /\ (th[t].blob = th[t].ver \/ th[t].ver < job.version)
    BY DEF Pipeline
  <1> QED
    BY <1>1, <1>2, <1>3, <1>4 DEF Pipeline

LEMMA StepOwnPipeline ==
  ASSUME Shapes, VersionsAgree, NEW t \in Threads, Pipeline(t), Thread(t)
  PROVE  Pipeline(t)'
  <1>0. /\ job.version \in Nat /\ job.blob \in Nat /\ th[t].ver \in Int /\ th[t].blob \in Nat
        /\ th \in [Threads -> Local] /\ pc \in [Threads -> Places] /\ th[t] \in Local
    BY DEF Shapes, Local
  <1>1. CASE Acquired(t)
    <2>1. pc'[t] = "top" /\ job' = job
      BY <1>0, <1>1 DEF Acquired, Goto, Others
    <2>2. CASE pc[t] = "again"
      <3>1. /\ th'[t].ver = job.version - 1 /\ th'[t].blob = th[t].blob
            /\ th'[t].is_first = th[t].is_first
        BY <1>0, <1>1, <2>2 DEF Acquired, Local
      <3> QED
        BY <1>0, <2>1, <2>2, <3>1 DEF Pipeline
    <2>3. CASE pc[t] # "again"
      <3>1. th'[t] = th[t]
        BY <1>0, <1>1, <2>3 DEF Acquired, Local
      <3> QED
        BY <2>1, <3>1 DEF Pipeline
    <2> QED
      BY <2>2, <2>3
  <1>2. CASE NoVm(t) \/ Resume(t) \/ WaitForWork(t) \/ HasWork(t) \/ Sleep(t) \/ Last(t)
    <2>1. th' = th /\ job' = job
      BY <1>2 DEF NoVm, Resume, WaitForWork, HasWork, Sleep, Last, Others
    <2>2. \/ pc'[t] \in {"top", "look", "probe", "drowsy", "asleep"}
          \/ pc[t] = "yield" /\ pc'[t] = "again"
          \/ pc[t] \in {"acquire", "again"} /\ pc'[t] = "leave"
          \/ pc[t] = "last" /\ pc'[t] = "exit"
      BY <1>0, <1>2 DEF NoVm, Resume, WaitForWork, HasWork, Sleep, Last, Goto
    <2> QED
      BY <2>1, <2>2 DEF Pipeline
  <1>3. CASE Quit(t) \/ Yield(t) \/ Outdated(t) \/ NoNonce(t) \/ NoRange(t)
    BY <1>3, PipelineFlushed DEF Quit, Yield, Outdated, NoNonce, NoRange
  <1>4. CASE Copy(t)
    <2>1. pc[t] = "copy" /\ pc'[t] = "nonce" /\ job' = job
      BY <1>0, <1>4 DEF Copy, Goto, Others
    <2>2. /\ th'[t].blob = job.blob /\ th'[t].ver = job.version
          /\ th'[t].is_first = th[t].is_first
      BY <1>0, <1>4 DEF Copy, Local
    <2>3. job.blob = job.version
      BY <1>0, <1>4 DEF Copy, JobFree, VersionsAgree
    <2> QED
      BY <1>0, <2>1, <2>2, <2>3 DEF Pipeline
  <1>5. CASE Current(t)
    <2>1. th' = th /\ job' = job /\ pc'[t] = "nonce" /\ th[t].ver = job.version
      BY <1>0, <1>5 DEF Current, Goto, Others
    <2> QED
      BY <1>0, <2>1 DEF Pipeline
  <1>6. CASE Take(t)
    <2>1. pc[t] \in {"nonce", "take"} /\ pc'[t] = "hash" /\ job' = job
      BY <1>0, <1>6 DEF Take, Asks, Goto, Others
    <2>2. /\ th'[t].got.blob = th[t].blob
          /\ th'[t].blob = th[t].blob /\ th'[t].ver = th[t].ver
          /\ th'[t].cur = th[t].cur /\ th'[t].vm = th[t].vm /\ th'[t].is_first = th[t].is_first
      BY <1>0, <1>6 DEF Take, Local
    <2> QED
      BY <2>1, <2>2 DEF Pipeline
  <1>7. CASE Exhausted(t) \/ AdvanceRange(t)
    <2>1. /\ pc[t] \in {"nonce", "take", "advance"} /\ pc'[t] \in {"advance", "take"}
          /\ job' = job
      BY <1>0, <1>7 DEF Exhausted, AdvanceRange, Asks, Goto, Others
    <2>2. /\ th'[t].blob = th[t].blob /\ th'[t].ver = th[t].ver
          /\ th'[t].cur = th[t].cur /\ th'[t].vm = th[t].vm /\ th'[t].is_first = th[t].is_first
      BY <1>0, <1>7 DEF Exhausted, AdvanceRange, Local
    <2> QED
      BY <2>1, <2>2 DEF Pipeline
  <1>8. CASE Hash(t)
    <2>1. pc[t] = "hash" /\ pc'[t] = "top" /\ job' = job
      BY <1>0, <1>8 DEF Hash, Goto, Others
    <2>2. /\ th'[t].blob = th[t].blob /\ th'[t].ver = th[t].ver
          /\ th'[t].cur = th[t].got /\ th'[t].vm = th[t].got
      BY <1>0, <1>8 DEF Hash, Local
    <2> QED
      BY <2>1, <2>2 DEF Pipeline
  <1>9. CASE Leave(t)
    <2>1. th'[t] = Idle /\ job' = job /\ pc'[t] \in {"last", "exit"}
      BY <1>0, <1>9 DEF Leave, Goto, Others
    <2> QED
      BY <1>0, <2>1 DEF Pipeline, Idle
  <1> QED
    BY <1>1, <1>2, <1>3, <1>4, <1>5, <1>6, <1>7, <1>8, <1>9 DEF Thread

\* A step of one thread is no step of another.
LEMMA OthersKept ==
  ASSUME Shapes, NEW t \in Threads, Thread(t)
  PROVE  job' = job /\ \A u \in Threads \ {t} : th'[u] = th[u] /\ pc'[u] = pc[u]
  BY DEF Shapes, Thread, Acquired, NoVm, Quit, Yield, Resume, Outdated, Copy, Current, NoNonce,
         Take, Exhausted, AdvanceRange, NoRange, Hash, WaitForWork, HasWork, Sleep, Leave, Last,
         FlushTo, Others, Goto

LEMMA StepPipeline ==
  Shapes /\ Shapes' /\ VersionsAgree /\ (\A t \in Threads : Pipeline(t)) /\ [Next]_vars
    => \A t \in Threads : Pipeline(t)'
  <1> SUFFICES ASSUME Shapes, Shapes', VersionsAgree, \A t \in Threads : Pipeline(t), [Next]_vars,
                      NEW t \in Threads
               PROVE  Pipeline(t)'
    OBVIOUS
  <1>0. job.version \in Nat /\ pc \in [Threads -> Places]
    BY DEF Shapes
  <1>1. CASE UNCHANGED <<pc, th>> /\ job'.version >= job.version
    BY <1>1, PipelineKept
  <1>2. CASE UNCHANGED vars
    BY <1>0, <1>1, <1>2 DEF vars, threads
  <1>3. ASSUME NEW ranged \in BOOLEAN, SendBlob(ranged)
        PROVE  UNCHANGED <<pc, th>> /\ job'.version >= job.version
    BY <1>0, <1>3 DEF SendBlob, Shapes, threads
  <1>4. CASE \/ SendRange \/ SendKeep \/ SendClamp \/ Unpause \/ Pause \/ StopLoop
             \/ Stop \/ RunCall \/ Update
    <2>1. pc' = pc /\ th' = th /\ job' = job
      BY <1>4 DEF SendRange, SendKeep, SendClamp, StoreRange, Unpause, Pause, StopLoop, Stop,
                  RunCall, Update, threads
    <2> QED
      BY <1>0, <1>1, <2>1
  <1>5. CASE SendVersion
    BY <1>0, <1>1, <1>5 DEF SendVersion, Shapes, threads
  <1>6. CASE Wake
    <2>1. th' = th /\ job' = job /\ (pc'[t] = pc[t] \/ pc'[t] = "wait")
      BY <1>0, <1>6 DEF Wake
    <2> QED
      BY <1>0, <2>1, PipelineKept
  <1>7. ASSUME NEW r \in Grants, QueueRange(r)
        PROVE  UNCHANGED <<pc, th>> /\ job'.version >= job.version
    BY <1>0, <1>7 DEF QueueRange, threads
  <1>8. CASE Start
    <2>1. th'[t] = Idle /\ pc'[t] = "acquire" /\ job' = job
      BY <1>8 DEF Start
    <2> QED
      BY <1>0, <2>1 DEF Pipeline, Idle
  <1>9. ASSUME NEW u \in Threads, Thread(u) PROVE Pipeline(t)'
    <2>1. CASE u = t
      BY <1>9, <2>1, StepOwnPipeline
    <2>2. CASE u # t
      BY <1>0, <1>9, <2>2, OthersKept, PipelineKept
    <2> QED
      BY <2>1, <2>2
  <1> QED
    BY <1>1, <1>2, <1>3, <1>4, <1>5, <1>6, <1>7, <1>8, <1>9 DEF Next, Js

-----------------------------------------------------------------------------
(* Shares and nonces.                                                      *)

\* A call, if it reports a share, reports it right.
Right(c) == c.kind = "share" => c.of = c.hash /\ c.ver = c.hash.blob

LEMMA ShareTrueIsRight ==
  ASSUME Shapes
  PROVE  ShareTrue <=> \A i \in 1 .. Len(out.calls) : Right(out.calls[i])
  <1>1. out.calls \in Seq(Call)
    BY DEF Shapes, Out
  <1>2. DOMAIN out.calls = 1 .. Len(out.calls)
    BY <1>1
  <1> QED
    BY <1>2 DEF ShareTrue, Shares, Right

LEMMA PrimedShareTrue ==
  ASSUME Shapes'
  PROVE  ShareTrue' <=> \A i \in 1 .. Len(out'.calls) : Right(out'.calls[i])
  <1>1. out'.calls \in Seq(Call)
    BY DEF Shapes, Out
  <1>2. DOMAIN out'.calls = 1 .. Len(out'.calls)
    BY <1>1
  <1> QED
    BY <1>2 DEF ShareTrue, Shares, Right

LEMMA AppendRight ==
  ASSUME NEW s \in Seq(Call), NEW c \in Call, Right(c), \A i \in 1 .. Len(s) : Right(s[i])
  PROVE  \A i \in 1 .. Len(Append(s, c)) : Right(Append(s, c)[i])
  OBVIOUS

LEMMA TailRight ==
  ASSUME NEW s \in Seq(Call), s # <<>>, \A i \in 1 .. Len(s) : Right(s[i])
  PROVE  \A i \in 1 .. Len(Tail(s)) : Right(Tail(s)[i])
  OBVIOUS

LEMMA FlushRight ==
  ASSUME Shapes, NEW t \in Threads, Pipeline(t), FlushHash(t),
         \A i \in 1 .. Len(out.calls) : Right(out.calls[i])
  PROVE  \A i \in 1 .. Len(out'.calls) : Right(out'.calls[i])
  <1>1. CASE UNCHANGED out
    BY <1>1
  <1>2. CASE ~ th[t].is_first /\ SubmitShare(t)
    <2>1. Right(Share(t))
      BY <1>2 DEF Right, Share, Pipeline
    <2>2. out.calls \in Seq(Call) /\ Share(t) \in Call
      BY ShareShape DEF Shapes, Out
    <2>3. out'.calls = Append(out.calls, Share(t))
      BY <1>2 DEF SubmitShare, Shapes, Out
    <2> QED
      BY <2>1, <2>2, <2>3, AppendRight
  <1> QED
    BY <1>1, <1>2 DEF FlushHash, Examine, NoResult

LEMMA StepShareTrue ==
  Shapes /\ Shapes' /\ (\A t \in Threads : Pipeline(t)) /\ ShareTrue /\ [Next]_vars => ShareTrue'
  <1> SUFFICES ASSUME Shapes, Shapes', \A t \in Threads : Pipeline(t), ShareTrue, [Next]_vars
               PROVE  \A i \in 1 .. Len(out'.calls) : Right(out'.calls[i])
    BY PrimedShareTrue
  <1>0. \A i \in 1 .. Len(out.calls) : Right(out.calls[i])
    BY ShareTrueIsRight
  <1>1. out \in Out /\ out.calls \in Seq(Call)
    BY DEF Shapes, Out
  <1>2. CASE out'.calls = out.calls
    BY <1>0, <1>2
  <1>3. CASE Stop \/ Start
    BY <1>1, <1>2, <1>3 DEF Stop, Start, Out
  <1>4. CASE RunCall
    <2>1. out.calls # <<>> /\ out'.calls = Tail(out.calls)
      BY <1>1, <1>4 DEF RunCall, Out
    <2> QED
      BY <1>0, <1>1, <2>1, TailRight
  <1>5. ASSUME NEW t \in Threads, Thread(t)
        PROVE  \A i \in 1 .. Len(out'.calls) : Right(out'.calls[i])
    <2>1. CASE FlushHash(t)
      BY <1>0, <2>1, FlushRight
    <2>2. CASE Last(t) /\ m_active
      <3>1. out'.calls = Append(out.calls, [kind |-> "unref"])
        BY <1>1, <2>2 DEF Last, Out
      <3>2. [kind |-> "unref"] \in Call /\ Right([kind |-> "unref"])
        BY DEF Call, Right
      <3> QED
        BY <1>0, <1>1, <3>1, <3>2, AppendRight
    <2> QED
      BY <1>2, <1>5, <2>1, <2>2
         DEF Thread, Acquired, NoVm, Quit, Yield, Resume, Outdated, Copy, Current, NoNonce,
             Take, Exhausted, AdvanceRange, NoRange, Hash, WaitForWork, HasWork, Sleep, Leave, Last,
             FlushTo, NoResult
  <1>6. CASE Js /\ ~ Stop /\ ~ Start /\ ~ RunCall
    BY <1>2, <1>6 DEF Js, SendBlob, SendRange, SendKeep, SendClamp, StoreRange, SendVersion, Wake,
                      QueueRange, Unpause, Pause, StopLoop, Update
  <1> QED
    BY <1>2, <1>3, <1>4, <1>5, <1>6 DEF Next, vars

LEMMA StepStaleNonce ==
  Shapes /\ VersionsAgree /\ (\A t \in Threads : Pipeline(t)) /\ NeverStaleNonce /\ [Next]_vars
    => NeverStaleNonce'
  <1> SUFFICES ASSUME Shapes, VersionsAgree, \A t \in Threads : Pipeline(t), NeverStaleNonce,
                      [Next]_vars
               PROVE  NeverStaleNonce'
    OBVIOUS
  <1>1. CASE taken' = taken
    BY <1>1 DEF NeverStaleNonce
  <1>2. ASSUME NEW t \in Threads, Take(t) PROVE NeverStaleNonce'
    <2>1. th[t].blob <= job.version
      BY DEF Pipeline
    <2>2. job.version <= gen /\ th[t].blob \in Nat /\ job.version \in Nat /\ gen \in Nat
      BY DEF VersionsAgree, Shapes, Local
    <2>3. taken' = taken \union {[blob |-> th[t].blob, nonce |-> m_range.start, gen |-> gen]}
      BY <1>2 DEF Take
    <2> QED
      BY <2>1, <2>2, <2>3 DEF NeverStaleNonce
  <1>3. ASSUME NEW t \in Threads, Thread(t), ~ Take(t) PROVE taken' = taken
    BY <1>3 DEF Thread, Acquired, NoVm, Quit, Yield, Resume, Outdated, Copy, Current, NoNonce,
                Exhausted, AdvanceRange, NoRange, Hash, WaitForWork, HasWork, Sleep, Leave, Last,
                FlushTo, NoTaking
  <1>4. CASE Js
    BY <1>1, <1>4 DEF Js, SendBlob, SendRange, SendKeep, SendClamp, StoreRange, SendVersion, Wake,
                      QueueRange, Unpause, Pause, StopLoop, Stop, Start, RunCall, Update, threads
  <1> QED
    BY <1>1, <1>2, <1>3, <1>4 DEF Next, vars, threads

LEMMA StepPipelineInv == PipelineInv /\ [Next]_vars => PipelineInv'
  <1> SUFFICES ASSUME PipelineInv, [Next]_vars PROVE PipelineInv'
    OBVIOUS
  <1>1. Shapes' /\ VersionsAgree'
    BY StepShapes, StepVersions DEF PipelineInv
  <1>2. \A t \in Threads : Pipeline(t)'
    BY <1>1, StepPipeline DEF PipelineInv
  <1>3. ShareTrue' /\ NeverStaleNonce'
    BY <1>1, StepShareTrue, StepStaleNonce DEF PipelineInv
  <1> QED
    BY <1>1, <1>2, <1>3 DEF PipelineInv

-----------------------------------------------------------------------------
\* A share is reported with the nonce and the version of the input whose hash it
\* is, and no blob is hashed with a nonce of a range older than itself, however
\* many threads there are and whenever jobs, pauses, stops and updates come
\* (Loop, FlushHash, SubmitShare, SendJob).
THEOREM SharesCorrect == Spec => []SharesTrue
  <1>1. PipelineInv => SharesTrue
    BY DEF PipelineInv, SharesTrue
  <1> QED
    BY <1>1, InitPipeline, StepPipelineInv, PTL DEF Spec

-----------------------------------------------------------------------------
(* Nonces.                                                                 *)

\* What is ahead does not overlap, a thread goes on to the next range only from
\* one that is used up, and nothing is taken from a range still to come.
Apart ==
    /\ \A i \in 1 .. Len(m_queued) : Nonces(m_range) \intersect Nonces(m_queued[i]) = {}
    /\ \A i, j \in 1 .. Len(m_queued) :
           i # j => Nonces(m_queued[i]) \intersect Nonces(m_queued[j]) = {}
    /\ \A t \in Threads : pc[t] = "advance" => th[t].seen.start >= th[t].seen.limit
    /\ \A x \in taken : x.gen <= gen

Ahead == Nonces(m_range) \union Queued
Used  == {x.nonce : x \in {x \in taken : x.gen = gen}}

\* What threads have in hand is taken and theirs alone, the rest is examined.
Account(hands, all, done) ==
    /\ \A t \in Threads : hands[t] \subseteq all
    /\ \A t, u \in Threads : t # u => hands[t] \intersect hands[u] = {}
    /\ done = all \ UNION {hands[t] : t \in Threads}

Hands == [t \in Threads |-> InHand(t)]

NoncesInv ==
    /\ Shapes /\ VersionsAgree /\ \A t \in Threads : Pipeline(t)
    /\ Apart /\ HandedOnce
    /\ Account(Hands, taken, examined)
    /\ \A t \in Threads : pc[t] = "hash" /\ ~ th[t].is_first => th[t].got # th[t].vm

\* One thread takes what nobody had and ends some of what it has.
LEMMA AccountKept ==
  ASSUME NEW hands, NEW all, NEW done, Account(hands, all, done), NEW t \in Threads,
         NEW new, NEW ended, new \intersect all = {}, ended \subseteq hands[t],
         NEW after, after[t] = (hands[t] \ ended) \union new,
         \A u \in Threads \ {t} : after[u] = hands[u]
  PROVE  Account(after, all \union new, done \union ended)
  <1>1. \A u \in Threads : after[u] \subseteq all \union new
    BY DEF Account
  <1>2. \A u, v \in Threads : u # v => after[u] \intersect after[v] = {}
    BY DEF Account
  <1>3. done \union ended = (all \union new) \ UNION {after[u] : u \in Threads}
    <2>1. ASSUME NEW x \in done \union ended
          PROVE  x \in all \union new /\ \A u \in Threads : x \notin after[u]
      BY DEF Account
    <2>2. ASSUME NEW x \in all \union new, \A u \in Threads : x \notin after[u]
          PROVE  x \in done \union ended
      <3>1. CASE x \in hands[t]
        BY <2>2, <3>1
      <3>2. CASE x \notin hands[t]
        <4>1. x \notin new /\ x \in all
          BY <2>2
        <4>2. \A u \in Threads : x \notin hands[u]
          BY <2>2, <3>2
        <4> QED
          BY <4>1, <4>2 DEF Account
      <3> QED
        BY <3>1, <3>2
    <2> QED
      BY <2>1, <2>2
  <1> QED
    BY <1>1, <1>2, <1>3 DEF Account

LEMMA InitNonces == Init => NoncesInv
  <1> SUFFICES ASSUME Init PROVE NoncesInv
    OBVIOUS
  <1>1. Shapes /\ VersionsAgree /\ \A t \in Threads : Pipeline(t)
    BY InitPipeline DEF PipelineInv
  <1>2. Apart
    BY DEF Init, Apart
  <1>3. HandedOnce
    BY DEF Init, HandedOnce, Queued
  <1>4. Account(Hands, taken, examined)
    BY DEF Init, Account, Hands, InHand, Idle
  <1>5. \A t \in Threads : pc[t] # "hash"
    BY DEF Init
  <1> QED
    BY <1>1, <1>2, <1>3, <1>4, <1>5 DEF NoncesInv

-----------------------------------------------------------------------------
(* Ranges.                                                                 *)

\* Who changes ranges, and when a thread may be about to.
LEMMA RangesKept ==
  ASSUME Apart, HandedOnce, UNCHANGED <<ranges, taken>>,
         \A t \in Threads : pc'[t] = "advance" => pc[t] = "advance" /\ th'[t].seen = th[t].seen
  PROVE  Apart' /\ HandedOnce'
  <1>1. Apart'
    BY DEF Apart, ranges, Nonces
  <1>2. HandedOnce'
    BY DEF HandedOnce, ranges, Queued, Nonces
  <1> QED
    BY <1>1, <1>2

\* A range that takes the place of all there were.
LEMMA StoredRange ==
  ASSUME Shapes, Apart, NEW r \in RangeType, StoreRange(r)
  PROVE  Apart' /\ HandedOnce'
  <1>1. m_range' = r /\ m_queued' = <<>> /\ gen' = gen + 1 /\ given' = Nonces(r) /\ taken' = taken
    BY DEF StoreRange, threads
  <1>2. gen \in Nat /\ \A x \in taken : x.gen \in Nat /\ x.gen <= gen
    BY DEF Shapes, Apart, Input
  <1>3. Apart'
    BY <1>1, <1>2 DEF Apart, StoreRange, threads
  <1>4. Queued' = {}
    BY <1>1 DEF Queued
  <1>5. {x \in taken' : x.gen = gen'} = {}
    BY <1>1, <1>2
  <1> QED
    BY <1>1, <1>3, <1>4, <1>5 DEF HandedOnce, Nonces

LEMMA KeptRange ==
  ASSUME Shapes, Apart, HandedOnce, SendKeep PROVE Apart' /\ HandedOnce'
  <1>1. /\ m_range' = m_range /\ m_queued' = <<>> /\ gen' = gen /\ given' = given \ Queued
        /\ taken' = taken /\ pc' = pc /\ th' = th
    BY DEF SendKeep, threads
  <1>2. Apart'
    BY <1>1 DEF Apart
  <1>3. Queued' = {}
    BY <1>1 DEF Queued
  <1>4. Nonces(m_range) \intersect Queued = {}
    <2>1. DOMAIN m_queued = 1 .. Len(m_queued)
      BY DEF Shapes
    <2> QED
      BY <2>1 DEF Apart, Queued
  <1>5. Nonces(m_range)' = Nonces(m_range)
    BY <1>1 DEF Nonces
  <1> QED
    BY <1>1, <1>2, <1>3, <1>4, <1>5 DEF HandedOnce

LEMMA QueuedRange ==
  ASSUME Shapes, Apart, HandedOnce, NEW r \in Grants, QueueRange(r) PROVE Apart' /\ HandedOnce'
  <1>1. /\ m_range' = m_range /\ m_queued' = Append(m_queued, r) /\ gen' = gen
        /\ given' = given \union Nonces(r) /\ given \intersect Nonces(r) = {}
        /\ taken' = taken /\ pc' = pc /\ th' = th
    BY DEF QueueRange, threads
  <1>2. /\ m_queued \in Seq(RangeType) /\ r \in RangeType
        /\ DOMAIN m_queued = 1 .. Len(m_queued)
    BY JobAssumption DEF Shapes, RangeType
  <1>3. /\ Len(m_queued') = Len(m_queued) + 1 /\ Len(m_queued) \in Nat
        /\ DOMAIN m_queued' = 1 .. Len(m_queued) + 1
        /\ m_queued'[Len(m_queued) + 1] = r
        /\ \A i \in 1 .. Len(m_queued) : m_queued'[i] = m_queued[i]
    BY <1>1, <1>2
  <1>4. /\ Nonces(m_range) \subseteq given
        /\ \A i \in 1 .. Len(m_queued) : Nonces(m_queued[i]) \subseteq given
    BY <1>2 DEF HandedOnce, Queued
  <1>5. Apart'
    <2>1. ASSUME NEW i \in 1 .. Len(m_queued) + 1
          PROVE  (Nonces(m_range) \intersect Nonces(m_queued[i]) = {})'
      <3>1. CASE i = Len(m_queued) + 1
        BY <1>1, <1>3, <1>4, <3>1 DEF Nonces
      <3>2. CASE i \in 1 .. Len(m_queued)
        BY <1>1, <1>3, <3>2 DEF Apart, Nonces
      <3> QED
        BY <1>3, <3>1, <3>2
    <2>2. ASSUME NEW i \in 1 .. Len(m_queued) + 1, NEW j \in 1 .. Len(m_queued) + 1, i # j
          PROVE  (Nonces(m_queued[i]) \intersect Nonces(m_queued[j]) = {})'
      <3>1. CASE i = Len(m_queued) + 1 /\ j \in 1 .. Len(m_queued)
        BY <1>1, <1>3, <1>4, <3>1 DEF Nonces
      <3>2. CASE j = Len(m_queued) + 1 /\ i \in 1 .. Len(m_queued)
        BY <1>1, <1>3, <1>4, <3>2 DEF Nonces
      <3>3. CASE i \in 1 .. Len(m_queued) /\ j \in 1 .. Len(m_queued)
        BY <1>3, <2>2, <3>3 DEF Apart, Nonces
      <3> QED
        BY <1>3, <2>2, <3>1, <3>2, <3>3
    <2>3. \A t \in Threads : (pc[t] = "advance" => th[t].seen.start >= th[t].seen.limit)'
      BY <1>1 DEF Apart
    <2>4. \A x \in taken' : x.gen <= gen'
      BY <1>1 DEF Apart
    <2> QED
      BY <1>3, <2>1, <2>2, <2>3, <2>4 DEF Apart
  <1>6. Queued' = Queued \union Nonces(r)
    <2>1. ASSUME NEW x \in Queued' PROVE x \in Queued \union Nonces(r)
      <3>1. PICK i \in 1 .. Len(m_queued) + 1 : x \in Nonces(m_queued'[i])
        BY <1>3, <2>1 DEF Queued, Nonces
      <3> QED
        BY <1>2, <1>3, <3>1 DEF Queued
    <2>2. Queued \subseteq Queued'
      BY <1>2, <1>3 DEF Queued, Nonces
    <2>3. Nonces(r) \subseteq Queued'
      BY <1>3 DEF Queued, Nonces
    <2> QED
      BY <2>1, <2>2, <2>3
  <1>7. Nonces(m_range)' = Nonces(m_range)
    BY <1>1 DEF Nonces
  <1> QED
    BY <1>1, <1>4, <1>5, <1>6, <1>7 DEF HandedOnce

\* A nonce that is taken was ahead, and nobody has taken it.
LEMMA TakenNonce ==
  ASSUME Shapes, Apart, HandedOnce, NEW t \in Threads, Take(t)
  PROVE  /\ Apart' /\ HandedOnce'
         /\ [blob |-> th[t].blob, nonce |-> m_range.start, gen |-> gen] \notin taken
  <1> DEFINE input == [blob |-> th[t].blob, nonce |-> m_range.start, gen |-> gen]
  <1>0. /\ m_range.start \in Nat /\ m_range.limit \in Nat /\ m_range \in RangeType /\ gen \in Nat
        /\ DOMAIN m_queued = 1 .. Len(m_queued) /\ pc \in [Threads -> Places]
        /\ th \in [Threads -> Local]
    BY DEF Shapes, RangeType
  <1>1. /\ m_range.start < m_range.limit /\ m_queued' = m_queued /\ gen' = gen /\ given' = given
        /\ m_range' = [m_range EXCEPT !.start = @ + 1] /\ taken' = taken \union {input}
    BY DEF Take
  <1>2. m_range'.start = m_range.start + 1 /\ m_range'.limit = m_range.limit
    BY <1>0, <1>1 DEF RangeType
  <1>3. m_range.start \in Nonces(m_range)
    BY <1>0, <1>1 DEF Nonces
  <1>4. Nonces(m_range)' = Nonces(m_range) \ {m_range.start}
    BY <1>0, <1>1, <1>2 DEF Nonces
  <1>5. m_range.start \notin Queued
    BY <1>0, <1>3 DEF Apart, Queued
  <1>6. Apart'
    <2>1. \A i \in 1 .. Len(m_queued) : (Nonces(m_range) \intersect Nonces(m_queued[i]) = {})'
      <3> SUFFICES ASSUME NEW i \in 1 .. Len(m_queued)
                   PROVE  Nonces(m_range)' \intersect Nonces(m_queued'[i]) = {}
        BY <1>1
      <3>1. Nonces(m_queued'[i]) = Nonces(m_queued[i])
        BY <1>1
      <3> QED
        BY <1>4, <3>1 DEF Apart
    <2>2. \A i, j \in 1 .. Len(m_queued') :
              i # j => (Nonces(m_queued[i]) \intersect Nonces(m_queued[j]) = {})'
      BY <1>1 DEF Apart, Nonces
    <2>3. \A u \in Threads : (pc[u] = "advance" => th[u].seen.start >= th[u].seen.limit)'
      <3> SUFFICES ASSUME NEW u \in Threads, pc'[u] = "advance"
                   PROVE  th'[u].seen.start >= th'[u].seen.limit
        OBVIOUS
      <3>1. u # t /\ pc[u] = "advance" /\ th'[u] = th[u]
        BY <1>0 DEF Take, Goto
      <3> QED
        BY <3>1 DEF Apart
    <2>4. \A x \in taken' : x.gen <= gen'
      BY <1>0, <1>1 DEF Apart
    <2> QED
      BY <1>1, <2>1, <2>2, <2>3, <2>4 DEF Apart
  <1>7. Queued' = Queued
    BY <1>1 DEF Queued, Nonces
  <1>8. Used' = Used \union {m_range.start}
    <2>1. {x \in taken' : x.gen = gen'} = {x \in taken : x.gen = gen} \union {input}
      BY <1>1
    <2>2. input.nonce = m_range.start
      OBVIOUS
    <2> HIDE DEF input
    <2>3. Used' = {x.nonce : x \in {x \in taken : x.gen = gen} \union {input}}
      BY <2>1 DEF Used
    <2> QED
      BY <2>2, <2>3 DEF Used
  <1>9. HandedOnce'
    <2>1. Used = given \ (Nonces(m_range) \union Queued) /\ Nonces(m_range) \union Queued \subseteq given
      BY DEF HandedOnce, Used
    <2>2. Used' = given' \ (Nonces(m_range)' \union Queued')
      BY <1>1, <1>3, <1>4, <1>5, <1>7, <1>8, <2>1
    <2>3. Nonces(m_range)' \union Queued' \subseteq given'
      BY <1>1, <1>4, <1>7, <2>1
    <2> QED
      BY <2>2, <2>3 DEF HandedOnce, Used
  <1>10. input \notin taken
    <2> SUFFICES ASSUME input \in taken PROVE FALSE
      OBVIOUS
    <2>1. input \in {x \in taken : x.gen = gen} /\ input.nonce = m_range.start
      OBVIOUS
    <2> HIDE DEF input
    <2>2. m_range.start \in Used
      BY <2>1 DEF Used
    <2> QED
      BY <1>3, <2>2 DEF HandedOnce, Used
  <1> QED
    BY <1>6, <1>9, <1>10

\* The next range comes from the front of the queue, in place of one that is used up.
LEMMA AdvancedRange ==
  ASSUME Shapes, Apart, HandedOnce, NEW t \in Threads, AdvanceRange(t)
  PROVE  Apart' /\ HandedOnce'
  <1>0. /\ m_queued \in Seq(RangeType) /\ DOMAIN m_queued = 1 .. Len(m_queued)
        /\ m_range \in RangeType /\ pc \in [Threads -> Places] /\ th \in [Threads -> Local]
    BY DEF Shapes
  <1>1. gen' = gen /\ given' = given /\ taken' = taken
    BY DEF AdvanceRange
  <1>2. \A u \in Threads : (pc[u] = "advance" => th[u].seen.start >= th[u].seen.limit)'
    <2> SUFFICES ASSUME NEW u \in Threads, pc'[u] = "advance"
                 PROVE  th'[u].seen.start >= th'[u].seen.limit
      OBVIOUS
    <2>1. u # t /\ pc[u] = "advance" /\ th'[u] = th[u]
      BY <1>0 DEF AdvanceRange, Goto
    <2> QED
      BY <2>1 DEF Apart
  <1>3. CASE UNCHANGED <<m_range, m_queued>>
    <2>1. Apart'
      BY <1>1, <1>2, <1>3 DEF Apart, Nonces
    <2>2. HandedOnce'
      BY <1>1, <1>3 DEF HandedOnce, Queued, Nonces
    <2> QED
      BY <2>1, <2>2
  <1>4. CASE /\ m_range = th[t].seen /\ m_queued # <<>>
             /\ m_range' = Head(m_queued) /\ m_queued' = Tail(m_queued)
    <2>1. /\ Len(m_queued) \in Nat \ {0} /\ Len(m_queued') = Len(m_queued) - 1
          /\ m_range' = m_queued[1] /\ DOMAIN m_queued' = 1 .. Len(m_queued) - 1
          /\ \A i \in 1 .. Len(m_queued) - 1 : m_queued'[i] = m_queued[i + 1]
      BY <1>0, <1>4
    <2>2. Nonces(m_range) = {}
      <3>1. pc[t] = "advance"
        BY DEF AdvanceRange
      <3>2. m_range.start >= m_range.limit /\ m_range.start \in Nat /\ m_range.limit \in Nat
        BY <1>0, <1>4, <3>1 DEF Apart, RangeType
      <3> QED
        BY <3>2 DEF Nonces
    <2>3. Nonces(m_range)' = Nonces(m_queued[1])
      BY <2>1 DEF Nonces
    <2>4. \A i \in 1 .. Len(m_queued) - 1 :
              Nonces(m_queued[i])' = Nonces(m_queued[i + 1])
                /\ i + 1 \in 1 .. Len(m_queued) /\ i + 1 # 1
      BY <2>1 DEF Nonces
    <2>5. Apart'
      <3>1. ASSUME NEW i \in 1 .. Len(m_queued')
            PROVE  (Nonces(m_range) \intersect Nonces(m_queued[i]) = {})'
        <4>1. i \in 1 .. Len(m_queued) - 1 /\ 1 \in 1 .. Len(m_queued)
          BY <2>1
        <4>2. Nonces(m_queued[1]) \intersect Nonces(m_queued[i + 1]) = {}
          BY <2>4, <4>1 DEF Apart
        <4> QED
          BY <2>3, <2>4, <4>1, <4>2
      <3>2. ASSUME NEW i \in 1 .. Len(m_queued'), NEW j \in 1 .. Len(m_queued'), i # j
            PROVE  (Nonces(m_queued[i]) \intersect Nonces(m_queued[j]) = {})'
        <4>1. /\ i \in 1 .. Len(m_queued) - 1 /\ j \in 1 .. Len(m_queued) - 1
              /\ i + 1 # j + 1
          BY <2>1, <3>2
        <4>2. Nonces(m_queued[i + 1]) \intersect Nonces(m_queued[j + 1]) = {}
          BY <2>4, <4>1 DEF Apart
        <4> QED
          BY <2>4, <4>1, <4>2
      <3>3. \A x \in taken' : x.gen <= gen'
        BY <1>1 DEF Apart
      <3> QED
        BY <1>2, <3>1, <3>2, <3>3 DEF Apart
    <2>6. Nonces(m_range)' \union Queued' = Queued
      <3>1. Queued = UNION {Nonces(m_queued[i]) : i \in 1 .. Len(m_queued)}
        BY <1>0 DEF Queued
      <3>2. Queued' = UNION {Nonces(m_queued[i])' : i \in 1 .. Len(m_queued) - 1}
        BY <2>1 DEF Queued, Nonces
      <3>3. ASSUME NEW x \in Queued PROVE x \in Nonces(m_range)' \union Queued'
        <4>1. PICK i \in 1 .. Len(m_queued) : x \in Nonces(m_queued[i])
          BY <3>1, <3>3
        <4>2. CASE i = 1
          BY <2>3, <4>1, <4>2
        <4>3. CASE i # 1
          <5>1. i - 1 \in 1 .. Len(m_queued) - 1 /\ (i - 1) + 1 = i
            BY <2>1, <4>3
          <5>2. x \in Nonces(m_queued[i - 1])'
            BY <2>4, <4>1, <5>1
          <5> QED
            BY <3>2, <5>1, <5>2
        <4> QED
          BY <4>2, <4>3
      <3>4. Queued' \subseteq Queued
        BY <2>4, <3>1, <3>2
      <3>5. Nonces(m_range)' \subseteq Queued
        BY <2>1, <2>3, <3>1
      <3> QED
        BY <3>3, <3>4, <3>5
    <2>7. Used' = Used
      BY <1>1 DEF Used
    <2>8. HandedOnce'
      <3>1. Used = given \ Queued /\ Queued \subseteq given
        BY <2>2 DEF HandedOnce, Used
      <3>2. Used' = given' \ (Nonces(m_range)' \union Queued')
        BY <1>1, <2>6, <2>7, <3>1
      <3>3. Nonces(m_range)' \union Queued' \subseteq given'
        BY <1>1, <2>6, <3>1
      <3> QED
        BY <3>2, <3>3 DEF HandedOnce, Used
    <2> QED
      BY <2>5, <2>8
  <1> QED
    BY <1>3, <1>4 DEF AdvanceRange, StillSeen

LEMMA ExhaustedRange ==
  ASSUME Shapes, Apart, HandedOnce, NEW t \in Threads, Exhausted(t)
  PROVE  Apart' /\ HandedOnce'
  <1>0. pc \in [Threads -> Places] /\ th \in [Threads -> Local]
    BY DEF Shapes
  <1>1. UNCHANGED <<m_range, m_queued, read, gen, given, taken>>
    BY DEF Exhausted, NoTaking, ranges
  <1>2. \A u \in Threads : (pc[u] = "advance" => th[u].seen.start >= th[u].seen.limit)'
    <2> SUFFICES ASSUME NEW u \in Threads, pc'[u] = "advance"
                 PROVE  th'[u].seen.start >= th'[u].seen.limit
      OBVIOUS
    <2>1. CASE u = t
      <3>1. th'[t].seen = m_range /\ m_range.start >= m_range.limit
        BY <1>0 DEF Exhausted, Local
      <3> QED
        BY <2>1, <3>1
    <2>2. CASE u # t
      <3>1. pc[u] = "advance" /\ th'[u] = th[u]
        BY <1>0, <2>2 DEF Exhausted, Goto
      <3> QED
        BY <3>1 DEF Apart
    <2> QED
      BY <2>1, <2>2
  <1>3. Apart'
    BY <1>1, <1>2 DEF Apart, Nonces
  <1>4. HandedOnce'
    BY <1>1 DEF HandedOnce, Queued, Nonces
  <1> QED
    BY <1>3, <1>4

LEMMA StepRanges ==
  Shapes /\ Apart /\ HandedOnce /\ [Next]_vars => Apart' /\ HandedOnce'
  <1> SUFFICES ASSUME Shapes, Apart, HandedOnce, [Next]_vars PROVE Apart' /\ HandedOnce'
    OBVIOUS
  <1>0. pc \in [Threads -> Places]
    BY DEF Shapes
  <1>1. CASE UNCHANGED <<ranges, taken, pc, th>>
    BY <1>1, RangesKept
  <1>2. CASE UNCHANGED vars
    BY <1>1, <1>2 DEF vars, threads
  <1>3. CASE SendRange
    <2>1. PICK r \in RangeType : StoreRange(r)
      BY <1>3, JobAssumption DEF SendRange, RangeType
    <2> QED
      BY <2>1, StoredRange
  <1>4. CASE SendKeep
    BY <1>4, KeptRange
  <1>5. CASE SendClamp
    <2>1. [start |-> IF read.start < End THEN read.start ELSE End, limit |-> End] \in RangeType
      BY JobAssumption DEF Shapes, RangeType
    <2> QED
      BY <1>5, <2>1, StoredRange DEF SendClamp
  <1>6. ASSUME NEW r \in Grants, QueueRange(r) PROVE Apart' /\ HandedOnce'
    BY <1>6, QueuedRange
  <1>7. ASSUME NEW ranged \in BOOLEAN, SendBlob(ranged) PROVE Apart' /\ HandedOnce'
    BY <1>1, <1>7 DEF SendBlob, threads
  <1>8. CASE SendVersion \/ Unpause \/ Pause \/ StopLoop \/ Stop \/ RunCall \/ Update
    BY <1>1, <1>8 DEF SendVersion, Unpause, Pause, StopLoop, Stop, RunCall, Update, threads
  <1>9. CASE Wake
    <2>1. UNCHANGED <<ranges, taken, th>> /\ \A t \in Threads : pc'[t] = "advance" => pc[t] = "advance"
      BY <1>0, <1>9 DEF Wake
    <2> QED
      BY <2>1, RangesKept
  <1>10. CASE Start
    <2>1. UNCHANGED <<ranges, taken>> /\ \A t \in Threads : pc'[t] # "advance"
      BY <1>10 DEF Start
    <2> QED
      BY <2>1, RangesKept
  <1>11. ASSUME NEW t \in Threads, Thread(t) PROVE Apart' /\ HandedOnce'
    <2>1. CASE Take(t)
      BY <2>1, TakenNonce
    <2>2. CASE AdvanceRange(t)
      BY <2>2, AdvancedRange
    <2>3. CASE Exhausted(t)
      BY <2>3, ExhaustedRange
    <2>4. CASE ~ Take(t) /\ ~ AdvanceRange(t) /\ ~ Exhausted(t)
      <3>1. UNCHANGED <<ranges, taken>>
        BY <1>11, <2>4 DEF Thread, Acquired, NoVm, Quit, Yield, Resume, Outdated, Copy, Current,
             NoNonce, NoRange, Hash, WaitForWork, HasWork, Sleep, Leave, Last, FlushTo, NoTaking
      <3>2. pc'[t] # "advance"
        BY <1>0, <1>11, <2>4 DEF Thread, Acquired, NoVm, Quit, Yield, Resume, Outdated, Copy,
             Current, NoNonce, NoRange, Hash, WaitForWork, HasWork, Sleep, Leave, Last, FlushTo, Goto
      <3> QED
        BY <1>11, <3>1, <3>2, OthersKept, RangesKept
    <2> QED
      BY <2>1, <2>2, <2>3, <2>4
  <1> QED
    BY <1>2, <1>3, <1>4, <1>5, <1>6, <1>7, <1>8, <1>9, <1>10, <1>11 DEF Next, Js

-----------------------------------------------------------------------------
(* Inputs in hand.                                                         *)

Ready(t) == pc[t] = "hash" /\ ~ th[t].is_first => th[t].got # th[t].vm

\* What FlushHash ends is examined.
Ended(t) == IF th[t].is_first THEN {} ELSE {th[t].vm}

LEMMA FlushExamines ==
  ASSUME NEW t \in Threads, FlushHash(t) PROVE examined' = examined \union Ended(t)
  BY DEF FlushHash, Examine, NoResult, Ended

LEMMA SameHands ==
  ASSUME Account(Hands, taken, examined), UNCHANGED <<taken, examined>>,
         \A t \in Threads : InHand(t)' = InHand(t)
  PROVE  Account(Hands', taken', examined')
  <1>1. Hands' = Hands
    BY DEF Hands
  <1> QED
    BY <1>1

LEMMA MovedHands ==
  ASSUME Account(Hands, taken, examined), NEW t \in Threads,
         NEW new, NEW ended, new \intersect taken = {}, ended \subseteq InHand(t),
         taken' = taken \union new, examined' = examined \union ended,
         InHand(t)' = (InHand(t) \ ended) \union new,
         \A u \in Threads \ {t} : InHand(u)' = InHand(u)
  PROVE  Account(Hands', taken', examined')
  <1>1. \A u \in Threads : Hands[u] = InHand(u) /\ Hands'[u] = InHand(u)'
    BY DEF Hands
  <1>2. /\ ended \subseteq Hands[t] /\ Hands'[t] = (Hands[t] \ ended) \union new
        /\ \A u \in Threads \ {t} : Hands'[u] = Hands[u]
    BY <1>1
  <1>3. Account(Hands', taken \union new, examined \union ended)
    BY <1>2, AccountKept
  <1> QED
    BY <1>3

LEMMA OthersHands ==
  ASSUME Shapes, NEW t \in Threads, Thread(t)
  PROVE  \A u \in Threads \ {t} : InHand(u)' = InHand(u) /\ (Ready(u) => Ready(u)')
  BY OthersKept DEF InHand, Ready

LEMMA StepThreadHands ==
  ASSUME NoncesInv, NEW t \in Threads, Thread(t)
  PROVE  Account(Hands', taken', examined') /\ Ready(t)'
  <1>0. /\ Shapes /\ pc \in [Threads -> Places] /\ th \in [Threads -> Local] /\ th[t] \in Local
        /\ Account(Hands, taken, examined) /\ Pipeline(t) /\ Ready(t)
    BY DEF NoncesInv, Shapes, Ready
  <1>1. \A u \in Threads \ {t} : InHand(u)' = InHand(u)
    BY <1>0, OthersHands
  <1>2. ASSUME NEW place \in {"leave", "yield", "copy", "wait"}, FlushTo(t, place), pc[t] # "hash"
        PROVE  Account(Hands', taken', examined') /\ Ready(t)'
    <2>1. th'[t].is_first = TRUE /\ pc'[t] = place
      BY <1>0, <1>2 DEF FlushTo, Goto, Clean, Local
    <2>2. examined' = examined \union Ended(t) /\ taken' = taken
      BY <1>2, FlushExamines DEF FlushTo, NoTaking
    <2>3. InHand(t) = Ended(t) /\ InHand(t)' = {}
      BY <1>2, <2>1 DEF InHand, Ended
    <2>4. Ready(t)'
      BY <2>1 DEF Ready
    <2>5. /\ {} \intersect taken = {} /\ Ended(t) \subseteq InHand(t)
          /\ taken' = taken \union {} /\ InHand(t)' = (InHand(t) \ Ended(t)) \union {}
      BY <2>2, <2>3
    <2>6. Account(Hands', taken', examined')
      BY <1>0, <1>1, <2>2, <2>5, MovedHands
    <2> QED
      BY <2>4, <2>6
  <1>3. CASE Quit(t) \/ Yield(t) \/ Outdated(t) \/ NoNonce(t) \/ NoRange(t)
    BY <1>2, <1>3 DEF Quit, Yield, Outdated, NoNonce, NoRange
  <1>4. CASE Take(t)
    <2> DEFINE input == [blob |-> th[t].blob, nonce |-> m_range.start, gen |-> gen]
    <2>1. input \notin taken
      BY <1>4, TakenNonce DEF NoncesInv
    <2>2. /\ pc[t] # "hash" /\ pc'[t] = "hash" /\ th'[t].got = input
          /\ th'[t].vm = th[t].vm /\ th'[t].is_first = th[t].is_first
          /\ taken' = taken \union {input} /\ examined' = examined
      BY <1>0, <1>4 DEF Take, Asks, Goto, NoResult, Local
    <2> HIDE DEF input
    <2>3. InHand(t)' = InHand(t) \union {input}
      BY <2>2 DEF InHand
    <2>4. Account(Hands', taken', examined')
      <3>1. /\ examined' = examined \union {} /\ InHand(t)' = (InHand(t) \ {}) \union {input}
            /\ {input} \intersect taken = {} /\ {} \subseteq InHand(t)
        BY <2>1, <2>2, <2>3
      <3> QED
        BY <1>0, <1>1, <2>2, <3>1, MovedHands
    <2>5. Ready(t)'
      <3>1. ~ th[t].is_first => th[t].vm \in taken
        BY <1>0 DEF Account, Hands, InHand
      <3> QED
        BY <2>1, <2>2, <3>1 DEF Ready
    <2> QED
      BY <2>4, <2>5
  <1>5. CASE Hash(t)
    <2>1. /\ pc[t] = "hash" /\ pc'[t] = "top" /\ taken' = taken
          /\ th'[t].vm = th[t].got /\ th'[t].is_first = FALSE
      BY <1>0, <1>5 DEF Hash, Goto, NoTaking, Local
    <2>2. examined' = examined \union Ended(t)
      BY <1>5, FlushExamines DEF Hash
    <2>3. InHand(t) = {th[t].got} \union Ended(t) /\ InHand(t)' = {th[t].got}
      BY <2>1 DEF InHand, Ended
    <2>4. th[t].got \notin Ended(t)
      BY <1>0, <2>1 DEF Ready, Ended
    <2>5. Ready(t)'
      BY <2>1 DEF Ready
    <2>6. InHand(t)' = (InHand(t) \ Ended(t)) \union {} /\ taken' = taken \union {}
      BY <2>1, <2>3, <2>4
    <2>7. {} \intersect taken = {} /\ Ended(t) \subseteq InHand(t)
      BY <2>3
    <2>8. Account(Hands', taken', examined')
      BY <1>0, <1>1, <2>2, <2>6, <2>7, MovedHands
    <2> QED
      BY <2>5, <2>8
  <1>6. ASSUME UNCHANGED <<taken, examined>>, InHand(t)' = InHand(t), pc'[t] # "hash"
        PROVE  Account(Hands', taken', examined') /\ Ready(t)'
    BY <1>0, <1>1, <1>6, SameHands DEF Ready
  <1>7. CASE Leave(t)
    <2>1. /\ UNCHANGED <<taken, examined>> /\ pc[t] = "leave" /\ pc'[t] \in {"last", "exit"}
          /\ th'[t] = Idle
      BY <1>0, <1>7 DEF Leave, Goto, NoTaking, NoResult
    <2>2. InHand(t)' = InHand(t)
      BY <1>0, <2>1 DEF InHand, Pipeline, Idle
    <2> QED
      BY <1>6, <2>1, <2>2
  <1>8. CASE Acquired(t) \/ Copy(t) \/ Exhausted(t) \/ AdvanceRange(t)
    <2>1. /\ UNCHANGED <<taken, examined>> /\ pc[t] # "hash" /\ pc'[t] # "hash"
      BY <1>0, <1>8 DEF Acquired, Copy, Exhausted, AdvanceRange, Asks, Goto, NoTaking, NoResult
    <2>2. th'[t].vm = th[t].vm /\ th'[t].is_first = th[t].is_first
      BY <1>0, <1>8 DEF Acquired, Copy, Exhausted, AdvanceRange, Local
    <2>3. InHand(t)' = InHand(t)
      BY <2>1, <2>2 DEF InHand
    <2> QED
      BY <1>6, <2>1, <2>3
  <1>9. CASE NoVm(t) \/ Resume(t) \/ Current(t) \/ WaitForWork(t) \/ HasWork(t) \/ Sleep(t) \/ Last(t)
    <2>1. /\ UNCHANGED <<taken, examined, th>> /\ pc[t] # "hash" /\ pc'[t] # "hash"
      BY <1>0, <1>9 DEF NoVm, Resume, Current, WaitForWork, HasWork, Sleep, Last, Goto, NoTaking, NoResult
    <2>2. InHand(t)' = InHand(t)
      BY <2>1 DEF InHand
    <2> QED
      BY <1>6, <2>1, <2>2
  <1> QED
    BY <1>3, <1>4, <1>5, <1>7, <1>8, <1>9 DEF Thread

LEMMA StepHands ==
  NoncesInv /\ [Next]_vars => Account(Hands', taken', examined') /\ \A t \in Threads : Ready(t)'
  <1> SUFFICES ASSUME NoncesInv, [Next]_vars
               PROVE  Account(Hands', taken', examined') /\ \A t \in Threads : Ready(t)'
    OBVIOUS
  <1>0. /\ Shapes /\ pc \in [Threads -> Places] /\ Account(Hands, taken, examined)
        /\ \A t \in Threads : Pipeline(t) /\ Ready(t)
    BY DEF NoncesInv, Shapes, Ready
  <1>1. CASE UNCHANGED <<taken, examined, pc, th>>
    <2>1. \A t \in Threads : InHand(t)' = InHand(t) /\ Ready(t)'
      BY <1>0, <1>1 DEF InHand, Ready
    <2> QED
      BY <1>0, <1>1, <2>1, SameHands
  <1>2. CASE UNCHANGED vars
    BY <1>1, <1>2 DEF vars, threads
  <1>3. CASE Js /\ ~ Wake /\ ~ Start
    BY <1>1, <1>3 DEF Js, SendBlob, SendRange, SendKeep, SendClamp, StoreRange, SendVersion,
                      QueueRange, Unpause, Pause, StopLoop, Stop, RunCall, Update, threads
  <1>4. CASE Wake
    <2>1. UNCHANGED <<taken, examined, th>> /\ \A t \in Threads : pc'[t] = "hash" <=> pc[t] = "hash"
      BY <1>0, <1>4 DEF Wake
    <2>2. \A t \in Threads : InHand(t)' = InHand(t) /\ Ready(t)'
      BY <1>0, <2>1 DEF InHand, Ready
    <2> QED
      BY <1>0, <2>1, <2>2, SameHands
  <1>5. CASE Start
    <2>1. /\ UNCHANGED <<taken, examined>>
          /\ \A t \in Threads : /\ pc[t] \in {"off", "exit"}
                                /\ pc'[t] = "acquire" /\ th'[t] = Idle
      BY <1>5 DEF Start, Joined
    <2>2. \A t \in Threads : InHand(t)' = InHand(t) /\ Ready(t)'
      BY <1>0, <2>1 DEF InHand, Ready, Pipeline, Idle
    <2> QED
      BY <1>0, <2>1, <2>2, SameHands
  <1>6. ASSUME NEW t \in Threads, Thread(t)
        PROVE  Account(Hands', taken', examined') /\ \A u \in Threads : Ready(u)'
    <2>1. Account(Hands', taken', examined') /\ Ready(t)'
      BY <1>6, StepThreadHands
    <2>2. \A u \in Threads \ {t} : Ready(u)'
      BY <1>0, <1>6, OthersHands
    <2> QED
      BY <2>1, <2>2
  <1> QED
    BY <1>2, <1>3, <1>4, <1>5, <1>6 DEF Next

LEMMA StepNonces == NoncesInv /\ [Next]_vars => NoncesInv'
  <1> SUFFICES ASSUME NoncesInv, [Next]_vars PROVE NoncesInv'
    OBVIOUS
  <1>1. Shapes' /\ VersionsAgree'
    BY StepShapes, StepVersions DEF NoncesInv
  <1>2. \A t \in Threads : Pipeline(t)'
    BY <1>1, StepPipeline DEF NoncesInv
  <1>3. Apart' /\ HandedOnce'
    BY StepRanges DEF NoncesInv
  <1>4. Account(Hands, taken, examined)' /\ \A t \in Threads : Ready(t)'
    BY StepHands DEF Account
  <1> QED
    BY <1>1, <1>2, <1>3, <1>4 DEF NoncesInv, Ready

-----------------------------------------------------------------------------
\* No nonce is handed out twice or skipped, and each that was taken is examined
\* or in the hands of one thread, whichever threads race for the end of a range
\* and whenever they change jobs, run dry, are paused or stopped, or give their
\* VMs away (NextNonce, AdvanceRange, QueueRange, SendJob, FlushHash).
THEOREM NoncesCorrect == Spec => []NoncesOnce
  <1>1. NoncesInv => NoncesOnce
    <2> SUFFICES ASSUME NoncesInv PROVE NoncesOnce
      OBVIOUS
    <2>1. UNION {InHand(t) : t \in Threads} = UNION {Hands[t] : t \in Threads}
      BY DEF Hands
    <2>2. /\ examined = taken \ UNION {Hands[t] : t \in Threads}
          /\ \A t \in Threads : Hands[t] \subseteq taken
      BY DEF NoncesInv, Account
    <2>3. NoHashLost
      BY <2>1, <2>2 DEF NoHashLost
    <2> QED
      BY <2>3 DEF NoncesInv, NoncesOnce
  <1> QED
    BY <1>1, InitNonces, StepNonces, PTL DEF Spec

-----------------------------------------------------------------------------
(* Waking.                                                                 *)

\* StopLoop has cleared m_active, and waits for the threads.
Halting == {"halt start", "halt stop", "start", "stop"}

\* The last thread is the last; without m_active there are threads only while
\* they are waited for.
Alone ==
    /\ \A t \in Threads : pc[t] = "last" => \A u \in Threads \ {t} : pc[u] \in {"off", "exit"}
    /\ ~ Joined /\ ~ m_active => js \in Halting

\* At rest: it has looked for what there is to do, or is about to.
Resting(t) == pc[t] \in {"look", "probe", "drowsy", "asleep"}

\* Somebody works on the range there is, if it has any nonce left.
Manned == InRange => \E u \in Threads : Working(u) \/ Gone(u)

\* What a thread at rest has found, and nobody is about to tell it.
Rests(t) ==
    /\ ~ Wanted(t)
    /\ Mines(t) => /\ pc[t] # "look" => Manned
                   /\ pc[t] \in {"drowsy", "asleep"} => m_queued = <<>>

\* Whoever rests has missed nothing, unless Wake is still to come.
Awake == \A t \in Threads : Resting(t) /\ js \notin Telling => Rests(t)

\* On the way from one nonce to the next there is a blob, and a range that has
\* been found exhausted.
Asking(t) ==
    /\ pc[t] \in {"take", "advance", "hash"} => th[t].blob # 0
    /\ pc[t] = "advance" => th[t].seen.start >= th[t].seen.limit

WakeInv == Alone /\ Awake /\ \A t \in Threads : Asking(t)

\* A step of a thread moves nobody else, and is one of those that stay.
LEMMA ThreadPlaces ==
  ASSUME Shapes, NEW t \in Threads, Thread(t)
  PROVE  /\ \A u \in Threads \ {t} : pc'[u] = pc[u] /\ th'[u] = th[u]
         /\ pc[t] \notin {"off", "exit"}
         /\ pc'[t] # "off"
         /\ pc'[t] = "last" => Leave(t) /\ Live = {t}
         /\ pc'[t] = "exit" => Last(t) \/ (Leave(t) /\ Live # {t})
         /\ m_paused' = m_paused /\ js' = js /\ job' = job
         /\ m_active' = m_active \/ (Last(t) /\ pc[t] = "last" /\ pc'[t] = "exit" /\ m_active' = FALSE)
  <1>0. pc \in [Threads -> Places] /\ th \in [Threads -> Local]
    BY DEF Shapes
  <1> USE DEF Goto, Others, control, Places
  <1>1. \A u \in Threads \ {t} : pc'[u] = pc[u] /\ th'[u] = th[u]
    BY OthersKept
  <1>2. m_paused' = m_paused /\ js' = js /\ job' = job
    BY DEF Thread, Acquired, NoVm, Quit, Yield, Resume, Outdated, Copy, Current, NoNonce, Take,
           Exhausted, AdvanceRange, NoRange, Hash, WaitForWork, HasWork, Sleep, Leave, Last, FlushTo
  <1>3. pc[t] \notin {"off", "exit"}
    BY DEF Thread, Acquired, NoVm, Quit, Yield, Resume, Outdated, Copy, Current, NoNonce, Take, Asks,
           Exhausted, AdvanceRange, NoRange, Hash, WaitForWork, HasWork, Sleep, Leave, Last
  <1>4. CASE Quit(t) \/ Yield(t) \/ Outdated(t) \/ NoNonce(t) \/ NoRange(t)
    <2>1. pc'[t] \in {"leave", "yield", "copy", "wait"} /\ m_active' = m_active
      BY <1>0, <1>4 DEF Quit, Yield, Outdated, NoNonce, NoRange, FlushTo
    <2> QED
      BY <1>1, <1>2, <1>3, <2>1
  <1>5. CASE \/ Acquired(t) \/ NoVm(t) \/ Resume(t) \/ Copy(t) \/ Current(t) \/ Take(t)
             \/ Exhausted(t) \/ AdvanceRange(t) \/ Hash(t)
    <2>1. /\ pc'[t] \in {"top", "leave", "again", "nonce", "hash", "advance", "take"}
          /\ m_active' = m_active
      BY <1>0, <1>5 DEF Acquired, NoVm, Resume, Copy, Current, Take, Exhausted, AdvanceRange, Hash
    <2> QED
      BY <1>1, <1>2, <1>3, <2>1
  <1>6. CASE WaitForWork(t) \/ HasWork(t) \/ Sleep(t)
    <2>1. /\ pc'[t] \in {"top", "look", "probe", "drowsy", "asleep"} /\ m_active' = m_active /\ th' = th
      BY <1>0, <1>6 DEF WaitForWork, HasWork, Sleep
    <2> QED
      BY <1>1, <1>2, <1>3, <2>1
  <1>7. CASE Leave(t)
    <2>1. pc'[t] = (IF Live = {t} THEN "last" ELSE "exit") /\ m_active' = m_active
      BY <1>0, <1>7 DEF Leave
    <2> QED
      BY <1>1, <1>2, <1>3, <1>7, <2>1
  <1>8. CASE Last(t)
    <2>1. pc[t] = "last" /\ pc'[t] = "exit" /\ m_active' = FALSE
      BY <1>0, <1>8 DEF Last
    <2> QED
      BY <1>1, <1>2, <1>3, <1>8, <2>1
  <1> QED
    BY <1>4, <1>5, <1>6, <1>7, <1>8 DEF Thread

LEMMA InitWake == Init => WakeInv
  BY DEF Init, WakeInv, Alone, Awake, Joined, Resting, Asking

LEMMA StepAlone == Shapes /\ Alone /\ [Next]_vars => Alone'
  <1> SUFFICES ASSUME Shapes, Alone, [Next]_vars PROVE Alone'
    OBVIOUS
  <1>0. pc \in [Threads -> Places]
    BY DEF Shapes
  <1>1. CASE UNCHANGED <<pc, m_active>> /\ (js' \in Halting \/ js \notin Halting)
    BY <1>1 DEF Alone, Joined
  <1>2. CASE UNCHANGED vars
    BY <1>2 DEF vars, threads, control, Alone, Joined
  <1>3. ASSUME NEW ranged \in BOOLEAN, SendBlob(ranged) PROVE Alone'
    BY <1>1, <1>3 DEF SendBlob, threads, control, Halting
  <1>4. CASE SendRange \/ SendKeep \/ SendClamp \/ SendVersion
    BY <1>1, <1>4 DEF SendRange, SendKeep, SendClamp, SendVersion, StoreRange, threads, control, Halting
  <1>5. ASSUME NEW r \in Grants, QueueRange(r) PROVE Alone'
    BY <1>1, <1>5 DEF QueueRange, threads, control, Halting
  <1>6. CASE Unpause \/ Pause \/ RunCall \/ Update
    BY <1>1, <1>6 DEF Unpause, Pause, RunCall, Update, threads, control, Halting
  <1>7. CASE StopLoop
    <2>1. js' \in Halting /\ pc' = pc
      BY <1>7 DEF StopLoop, threads, Halting
    <2> QED
      BY <2>1 DEF Alone
  <1>8. CASE Stop \/ Start
    <2>1. \/ pc' = pc /\ Joined
          \/ m_active' = TRUE /\ \A t \in Threads : pc'[t] = "acquire"
      BY <1>8 DEF Stop, Start, threads
    <2> QED
      BY <2>1 DEF Alone, Joined
  <1>9. CASE Wake
    <2>1. /\ \A t \in Threads : /\ pc'[t] \in {"off", "exit"} <=> pc[t] \in {"off", "exit"}
                                /\ pc'[t] = "last" <=> pc[t] = "last"
          /\ m_active' = m_active /\ (js \in Halting => js' \in Halting)
      BY <1>0, <1>9 DEF Wake, control, Halting
    <2> QED
      BY <2>1 DEF Alone, Joined
  <1>10. ASSUME NEW t \in Threads, Thread(t) PROVE Alone'
    <2>1. /\ \A u \in Threads \ {t} : pc'[u] = pc[u] /\ th'[u] = th[u]
          /\ pc[t] \notin {"off", "exit"}
          /\ pc'[t] # "off"
          /\ pc'[t] = "last" => Leave(t) /\ Live = {t}
          /\ pc'[t] = "exit" => Last(t) \/ (Leave(t) /\ Live # {t})
          /\ m_paused' = m_paused /\ js' = js /\ job' = job
          /\ m_active' = m_active \/ (Last(t) /\ pc[t] = "last" /\ pc'[t] = "exit" /\ m_active' = FALSE)
      BY <1>10, ThreadPlaces
    <2>2. \A u \in Threads \ {t} : pc[u] # "last"
      BY <2>1 DEF Alone
    <2>3. ASSUME pc'[t] = "last" PROVE \A u \in Threads \ {t} : pc'[u] \in {"off", "exit"}
      <3>1. \A u \in Threads \ {t} : u \notin Live
        BY <2>1, <2>3
      <3> QED
        BY <2>1, <2>2, <3>1 DEF Live
    <2>4. \A u \in Threads : pc'[u] = "last" => \A w \in Threads \ {u} : pc'[w] \in {"off", "exit"}
      BY <2>1, <2>2, <2>3
    <2>5. ASSUME ~ Joined', ~ m_active' PROVE js' \in Halting
      <3>1. ~ Joined
        BY <2>1 DEF Joined
      <3>2. CASE m_active' = m_active
        BY <2>1, <2>5, <3>1, <3>2 DEF Alone
      <3>3. CASE pc[t] = "last" /\ pc'[t] = "exit"
        <4>1. \A u \in Threads \ {t} : pc[u] \in {"off", "exit"}
          BY <3>3 DEF Alone
        <4>2. Joined'
          BY <2>1, <3>3, <4>1 DEF Joined
        <4> QED
          BY <2>5, <4>2
      <3> QED
        BY <2>1, <3>2, <3>3
    <2> QED
      BY <2>4, <2>5 DEF Alone
  <1> QED
    BY <1>2, <1>3, <1>4, <1>5, <1>6, <1>7, <1>8, <1>9, <1>10 DEF Next, Js

LEMMA StepAsking ==
  Shapes /\ (\A t \in Threads : Asking(t)) /\ [Next]_vars => \A t \in Threads : Asking(t)'
  <1> SUFFICES ASSUME Shapes, \A t \in Threads : Asking(t), [Next]_vars, NEW u \in Threads
               PROVE  Asking(u)'
    OBVIOUS
  <1>0. pc \in [Threads -> Places] /\ th \in [Threads -> Local] /\ th[u] \in Local
    BY DEF Shapes
  <1>1. ASSUME th'[u] = th[u], pc'[u] = pc[u] \/ pc'[u] \notin {"take", "advance", "hash"}
        PROVE  Asking(u)'
    BY <1>1 DEF Asking
  <1>2. CASE UNCHANGED vars
    BY <1>1, <1>2 DEF vars, threads
  <1>3. CASE Js
    <2>1. CASE Start
      BY <2>1 DEF Start, Asking
    <2>2. CASE Wake
      BY <1>0, <1>1, <2>2 DEF Wake
    <2>3. CASE ~ Start /\ ~ Wake
      BY <1>1, <1>3, <2>3 DEF Js, SendBlob, SendRange, SendKeep, SendClamp, SendVersion, StoreRange,
         QueueRange, Unpause, Pause, StopLoop, Stop, RunCall, Update, threads
    <2> QED
      BY <2>1, <2>2, <2>3
  <1>4. ASSUME NEW t \in Threads, Thread(t) PROVE Asking(u)'
    <2>1. CASE u # t
      BY <1>1, <1>4, <2>1, ThreadPlaces
    <2>2. CASE u = t
      <3> USE DEF Goto
      <3>1. CASE Quit(u) \/ Yield(u) \/ Outdated(u) \/ NoNonce(u) \/ NoRange(u)
        BY <1>0, <3>1 DEF Quit, Yield, Outdated, NoNonce, NoRange, FlushTo, Asking
      <3>2. CASE \/ Acquired(u) \/ NoVm(u) \/ Resume(u) \/ Copy(u) \/ Current(u) \/ Hash(u)
                 \/ WaitForWork(u) \/ HasWork(u) \/ Sleep(u) \/ Leave(u) \/ Last(u)
        <4>1. pc'[u] \notin {"take", "advance", "hash"}
          BY <1>0, <3>2 DEF Acquired, NoVm, Resume, Copy, Current, Hash, WaitForWork, HasWork, Sleep,
                            Leave, Last
        <4> QED
          BY <4>1 DEF Asking
      <3>3. CASE Take(u)
        <4>1. pc[u] = "take" \/ th[u].blob # 0
          BY <3>3 DEF Take, Asks
        <4>2. pc'[u] = "hash" /\ th'[u].blob = th[u].blob
          BY <1>0, <3>3 DEF Take, Local
        <4> QED
          BY <4>1, <4>2 DEF Asking
      <3>4. CASE Exhausted(u)
        <4>1. pc[u] = "take" \/ th[u].blob # 0
          BY <3>4 DEF Exhausted, Asks
        <4>2. pc'[u] = "advance" /\ th'[u].blob = th[u].blob /\ th'[u].seen = m_range
          BY <1>0, <3>4 DEF Exhausted, Local
        <4>3. m_range.start >= m_range.limit
          BY <3>4 DEF Exhausted
        <4> QED
          BY <4>1, <4>2, <4>3 DEF Asking
      <3>5. CASE AdvanceRange(u)
        <4>1. pc[u] = "advance" /\ pc'[u] = "take" /\ th'[u].blob = th[u].blob
          BY <1>0, <3>5 DEF AdvanceRange, Local
        <4> QED
          BY <4>1 DEF Asking
      <3> QED
        BY <1>4, <2>2, <3>1, <3>2, <3>3, <3>4, <3>5 DEF Thread
    <2> QED
      BY <2>1, <2>2
  <1> QED
    BY <1>2, <1>3, <1>4 DEF Next

\* Only AdvanceRange brings nonces, and it shortens the queue.
LEMMA ThreadRange ==
  ASSUME Shapes, NEW t \in Threads, Thread(t)
  PROVE  /\ m_queued = <<>> => m_queued' = <<>>
         /\ ~ AdvanceRange(t) /\ InRange' => InRange
  <1>1. CASE UNCHANGED <<m_range, m_queued>>
    BY <1>1 DEF InRange
  <1>2. CASE Take(t)
    BY <1>2 DEF Take, InRange
  <1>3. CASE AdvanceRange(t)
    BY <1>3 DEF AdvanceRange
  <1> QED
    BY <1>1, <1>2, <1>3 DEF Thread, Acquired, NoVm, Quit, Yield, Resume, Outdated, Copy, Current,
       NoNonce, Exhausted, NoRange, Hash, WaitForWork, HasWork, Sleep, Leave, Last, FlushTo,
       NoTaking, ranges

\* Whoever works on a range goes on until it is exhausted, or leaves.
LEMMA KeepsWorking ==
  ASSUME Shapes, VersionsAgree, NEW t \in Threads, Pipeline(t), Asking(t), Thread(t),
         m_active, ~ m_paused, Working(t) \/ Gone(t)
  PROVE  Working(t)' \/ Gone(t)' \/ ~ InRange'
  <1>0. /\ pc \in [Threads -> Places] /\ th \in [Threads -> Local] /\ th[t] \in Local
        /\ job.version \in Nat /\ job.blob \in Nat /\ th[t].blob \in Nat
    BY DEF Shapes, Local
  <1> USE DEF Goto
  <1>1. CASE Quit(t) \/ NoNonce(t) \/ WaitForWork(t) \/ HasWork(t) \/ Sleep(t)
    BY <1>1 DEF Quit, NoNonce, WaitForWork, HasWork, Sleep, Working, Gone
  <1>2. CASE NoVm(t) \/ Leave(t) \/ Last(t)
    BY <1>0, <1>2 DEF NoVm, Leave, Last, Gone
  <1>3. CASE Yield(t) \/ Outdated(t)
    <2>1. pc[t] = "top" /\ pc'[t] \in {"yield", "copy"} /\ th'[t] = Clean(t)
      BY <1>0, <1>3 DEF Yield, Outdated, FlushTo
    <2>2. th'[t].blob = th[t].blob
      BY <1>0, <2>1 DEF Clean, Local
    <2> QED
      BY <2>1, <2>2 DEF Working, Gone
  <1>4. CASE NoRange(t)
    <2>1. pc[t] = "advance" /\ m_range = th[t].seen /\ m_range' = m_range
      BY <1>4 DEF NoRange, StillSeen, FlushTo, NoTaking, ranges
    <2>2. m_range.start >= m_range.limit /\ m_range.start \in Nat /\ m_range.limit \in Nat
      BY <2>1 DEF Asking, Shapes, RangeType
    <2> QED
      BY <2>1, <2>2 DEF InRange
  <1>5. CASE Resume(t) \/ Current(t)
    BY <1>0, <1>5 DEF Resume, Current, Working, Gone
  <1>6. CASE Copy(t)
    <2>1. pc[t] = "copy" /\ pc'[t] = "nonce" /\ th'[t].blob = job.blob
      BY <1>0, <1>6 DEF Copy, Local
    <2>2. job.blob >= job.version /\ th[t].blob <= job.version /\ th[t].blob # 0
      BY <1>0, <2>1 DEF VersionsAgree, Pipeline, Working, Gone
    <2> QED
      BY <1>0, <2>1, <2>2 DEF Working
  <1>7. CASE Acquired(t) \/ Take(t) \/ Exhausted(t) \/ AdvanceRange(t) \/ Hash(t)
    <2>1. th'[t].blob = th[t].blob
      BY <1>0, <1>7 DEF Acquired, Take, Exhausted, AdvanceRange, Hash, Local
    <2>2. /\ pc[t] \notin {"leave", "last", "exit"}
          /\ pc'[t] \in {"top", "hash", "advance", "take"}
      BY <1>0, <1>7 DEF Acquired, Take, Asks, Exhausted, AdvanceRange, Hash
    <2> QED
      BY <2>1, <2>2 DEF Working, Gone
  <1> QED
    BY <1>1, <1>2, <1>3, <1>4, <1>5, <1>6, <1>7 DEF Thread

LEMMA StepManned ==
  ASSUME Shapes, VersionsAgree, NEW t \in Threads, Pipeline(t), Asking(t), Thread(t),
         m_active, ~ m_paused, Manned
  PROVE  Manned'
  <1>0. pc \in [Threads -> Places] /\ th \in [Threads -> Local] /\ th[t] \in Local
    BY DEF Shapes
  <1>1. CASE AdvanceRange(t)
    <2>1. pc[t] = "advance" /\ pc'[t] = "take" /\ th'[t].blob = th[t].blob
      BY <1>0, <1>1 DEF AdvanceRange, Goto, Local
    <2>2. Working(t)'
      BY <2>1 DEF Asking, Working
    <2> QED
      BY <2>2 DEF Manned
  <1>2. CASE ~ AdvanceRange(t)
    <2> SUFFICES ASSUME InRange' PROVE \E u \in Threads : Working(u)' \/ Gone(u)'
      BY DEF Manned
    <2>1. PICK u \in Threads : Working(u) \/ Gone(u)
      BY <1>2, ThreadRange DEF Manned
    <2>2. CASE u = t
      BY <2>1, <2>2, KeepsWorking
    <2>3. CASE u # t
      <3>1. pc'[u] = pc[u] /\ th'[u] = th[u]
        BY <2>3, ThreadPlaces
      <3> QED
        BY <2>1, <3>1 DEF Working, Gone
    <2> QED
      BY <2>2, <2>3
  <1> QED
    BY <1>1, <1>2

\* What a thread finds itself before it rests.
LEMMA FoundNothing ==
  ASSUME Shapes, NEW t \in Threads, Thread(t), Resting(t)', Resting(t) => Rests(t)
  PROVE  Rests(t)'
  <1>0. pc \in [Threads -> Places]
    BY DEF Shapes
  <1> USE DEF Goto
  <1>1. WaitForWork(t) \/ HasWork(t) \/ Sleep(t)
    BY <1>0 DEF Thread, Resting, Acquired, NoVm, Quit, Yield, Resume, Outdated, Copy, Current,
       NoNonce, Take, Exhausted, AdvanceRange, NoRange, Hash, Leave, Last, FlushTo
  <1>2. /\ UNCHANGED <<th, job, m_active, m_paused, m_range, m_queued>>
        /\ (Wanted(t)' <=> Wanted(t)) /\ (Mines(t)' <=> Mines(t)) /\ (InRange' <=> InRange)
    BY <1>1 DEF WaitForWork, HasWork, Sleep, Others, NoTaking, control, ranges, Wanted, Mines, InRange
  <1>3. CASE WaitForWork(t)
    <2>1. /\ pc[t] = "wait" /\ ~ Wanted(t)
          /\ pc'[t] = IF Mines(t) THEN "look" ELSE "drowsy"
      BY <1>0, <1>3 DEF WaitForWork, Resting
    <2> QED
      BY <1>2, <2>1 DEF Rests
  <1>4. CASE HasWork(t)
    <2>1. CASE pc[t] = "look"
      <3>1. pc'[t] = "probe" /\ ~ InRange
        BY <1>0, <1>4, <2>1 DEF HasWork, Resting
      <3> QED
        BY <1>2, <2>1, <3>1 DEF Rests, Manned, Resting
    <2>2. CASE pc[t] = "probe"
      <3>1. pc'[t] = "drowsy" /\ m_queued = <<>>
        BY <1>0, <1>4, <2>2 DEF HasWork, Resting
      <3>2. Mines(t) => Manned'
        <4> SUFFICES ASSUME Mines(t), InRange PROVE \E u \in Threads : (Working(u) \/ Gone(u))'
          BY <1>2 DEF Manned
        <4>1. PICK u \in Threads : Working(u) \/ Gone(u)
          BY <2>2 DEF Rests, Resting, Manned
        <4>2. u # t
          BY <2>2, <4>1 DEF Working, Gone
        <4>3. pc'[u] = pc[u] /\ th'[u] = th[u]
          BY <4>2, ThreadPlaces
        <4> QED
          BY <4>1, <4>3 DEF Working, Gone
      <3> QED
        BY <1>2, <2>2, <3>1, <3>2 DEF Rests, Resting
    <2> QED
      BY <1>4, <2>1, <2>2 DEF HasWork
  <1>5. CASE Sleep(t)
    <2>1. pc[t] = "drowsy" /\ pc'[t] = "asleep"
      BY <1>0, <1>5 DEF Sleep, Resting
    <2>2. Mines(t) => Manned'
      <3> SUFFICES ASSUME Mines(t), InRange PROVE \E u \in Threads : (Working(u) \/ Gone(u))'
        BY <1>2 DEF Manned
      <3>1. PICK u \in Threads : Working(u) \/ Gone(u)
        BY <2>1 DEF Rests, Resting, Manned
      <3>2. u # t
        BY <2>1, <3>1 DEF Working, Gone
      <3>3. pc'[u] = pc[u] /\ th'[u] = th[u]
        BY <3>2, ThreadPlaces
      <3> QED
        BY <3>1, <3>3 DEF Working, Gone
    <2> QED
      BY <1>2, <2>1, <2>2 DEF Rests, Resting
  <1> QED
    BY <1>1, <1>3, <1>4, <1>5

LEMMA StepAwake == PipelineInv /\ WakeInv /\ [Next]_vars => Awake'
  <1> SUFFICES ASSUME PipelineInv, WakeInv, [Next]_vars PROVE Awake'
    OBVIOUS
  <1>0. /\ Shapes /\ VersionsAgree /\ Alone /\ Awake
        /\ \A t \in Threads : Pipeline(t) /\ Asking(t)
        /\ pc \in [Threads -> Places]
    BY DEF PipelineInv, WakeInv, Shapes
  <1>1. ASSUME js' \in Telling PROVE Awake'
    BY <1>1 DEF Awake
  <1>2. ASSUME UNCHANGED <<pc, th, m_active, m_paused, m_range>>, job'.version = job.version,
               m_queued' \in {m_queued, <<>>}, js \notin Telling
        PROVE  Awake'
    <2>1. ASSUME NEW t \in Threads, Resting(t)' PROVE Rests(t)'
      <3>1. Rests(t)
        BY <1>0, <1>2, <2>1 DEF Awake, Resting
      <3>2. Manned => Manned'
        BY <1>2 DEF Manned, InRange, Working, Gone
      <3> QED
        BY <1>2, <3>1, <3>2 DEF Rests, Wanted, Mines
    <2> QED
      BY <2>1 DEF Awake
  <1>3. CASE UNCHANGED vars
    <2>1. CASE js \in Telling
      BY <1>1, <1>3, <2>1 DEF vars
    <2>2. CASE js \notin Telling
      BY <1>2, <1>3, <2>2 DEF vars, threads, control, ranges
    <2> QED
      BY <2>1, <2>2
  <1>4. ASSUME NEW ranged \in BOOLEAN, SendBlob(ranged) PROVE Awake'
    <2>1. job'.version = job.version
      BY <1>0, <1>4 DEF SendBlob, Shapes
    <2> QED
      BY <1>2, <1>4, <2>1 DEF SendBlob, threads, control, ranges, Telling
  <1>5. CASE SendRange \/ SendClamp \/ SendVersion
    BY <1>1, <1>5 DEF SendRange, SendClamp, SendVersion, StoreRange, Telling
  <1>6. CASE SendKeep
    BY <1>2, <1>6 DEF SendKeep, threads, control, Telling
  <1>7. ASSUME NEW r \in Grants, QueueRange(r) PROVE Awake'
    BY <1>1, <1>7 DEF QueueRange, QueuedThen, Telling
  <1>8. CASE Pause \/ StopLoop
    BY <1>1, <1>8 DEF Pause, StopLoop, Telling
  <1>9. CASE Unpause
    <2>1. CASE m_paused = TRUE
      BY <1>1, <1>9, <2>1 DEF Unpause, Telling
    <2>2. CASE m_paused # TRUE
      <3>1. ASSUME NEW t \in Threads, Resting(t)' PROVE Rests(t)'
        <4>1. Rests(t)
          BY <1>0, <1>9, <3>1 DEF Awake, Resting, Unpause, Telling, threads
        <4>2. Manned => Manned'
          BY <1>9 DEF Unpause, ranges, threads, Manned, InRange, Working, Gone
        <4> QED
          BY <1>9, <2>2, <4>1, <4>2 DEF Unpause, ranges, threads, Rests, Wanted, Mines
      <3> QED
        BY <3>1 DEF Awake
    <2> QED
      BY <2>1, <2>2
  <1>10. CASE RunCall \/ Update
    BY <1>2, <1>10 DEF RunCall, Update, threads, control, ranges, Telling
  <1>11. CASE Stop \/ Start
    <2>1. \A t \in Threads : ~ Resting(t)'
      BY <1>11 DEF Stop, Start, Joined, threads, Resting
    <2> QED
      BY <2>1 DEF Awake
  <1>12. CASE Wake
    <2>1. \A t \in Threads : ~ Resting(t)'
      BY <1>0, <1>12 DEF Wake, CvFree, Resting
    <2> QED
      BY <2>1 DEF Awake
  <1>13. ASSUME NEW t \in Threads, Thread(t) PROVE Awake'
    <2>1. /\ \A u \in Threads \ {t} : pc'[u] = pc[u] /\ th'[u] = th[u]
          /\ m_paused' = m_paused /\ js' = js /\ job' = job
          /\ m_active' = m_active \/ (pc[t] = "last" /\ pc'[t] = "exit")
      BY <1>0, <1>13, ThreadPlaces
    <2>2. CASE js \in Telling
      BY <1>1, <2>1, <2>2
    <2>3. CASE js \notin Telling /\ m_active' = m_active
      <3>1. ASSUME NEW u \in Threads, Resting(u)' PROVE Rests(u)'
        <4>1. Resting(t) => Rests(t)
          BY <1>0, <2>3 DEF Awake
        <4>2. CASE u = t
          BY <1>0, <1>13, <3>1, <4>1, <4>2, FoundNothing
        <4>3. CASE u # t
          <5>1. pc'[u] = pc[u] /\ th'[u] = th[u]
            BY <2>1, <4>3
          <5>2. Rests(u)
            BY <1>0, <2>3, <3>1, <5>1 DEF Awake, Resting
          <5>3. (Wanted(u)' <=> Wanted(u)) /\ (Mines(u)' <=> Mines(u))
            BY <2>1, <2>3, <5>1 DEF Wanted, Mines
          <5>4. Mines(u) /\ Manned => Manned'
            BY <1>0, <1>13, <5>2, StepManned DEF Rests, Wanted, Mines
          <5>5. m_queued = <<>> => m_queued' = <<>>
            BY <1>0, <1>13, ThreadRange
          <5> QED
            BY <5>1, <5>2, <5>3, <5>4, <5>5 DEF Rests
        <4> QED
          BY <4>2, <4>3
      <3> QED
        BY <3>1 DEF Awake
    <2>4. CASE pc[t] = "last" /\ pc'[t] = "exit"
      <3>1. \A u \in Threads \ {t} : pc[u] \in {"off", "exit"}
        BY <1>0, <2>4 DEF Alone
      <3>2. \A u \in Threads : ~ Resting(u)'
        BY <2>1, <2>4, <3>1 DEF Resting
      <3> QED
        BY <3>2 DEF Awake
    <2> QED
      BY <2>1, <2>2, <2>3, <2>4
  <1> QED
    BY <1>3, <1>4, <1>5, <1>6, <1>7, <1>8, <1>9, <1>10, <1>11, <1>12, <1>13 DEF Next, Js

\* Nobody sleeps through a stop, a job, the end of a pause or a range that is
\* queued, unless Wake is still to come; and over a range that has begun only
\* while another thread works on it or after one has left, however many threads
\* there are (WaitForWork, HasWork, AdvanceRange, Wake).
THEOREM WakeupsArrive == Spec => []NoLostWakeup
  <1>1. Init => PipelineInv /\ WakeInv
    BY InitPipeline, InitWake
  <1>2. PipelineInv /\ WakeInv /\ [Next]_vars => (PipelineInv /\ WakeInv)'
    <2>1. PipelineInv => Shapes
      BY DEF PipelineInv
    <2> QED
      BY <2>1, StepPipelineInv, StepAlone, StepAwake, StepAsking DEF WakeInv
  <1>3. PipelineInv /\ WakeInv => NoLostWakeup
    BY DEF WakeInv, Awake, Resting, Rests, Manned, NoLostWakeup
  <1> QED
    BY <1>1, <1>2, <1>3, PTL DEF Spec

-----------------------------------------------------------------------------
(* Types with their bounds.                                                *)

JsPlaces == {"run", "range", "clamp", "bump", "wake", "halt start", "halt stop", "start", "stop"}

Controls ==
    /\ js \in JsPlaces /\ turns \in 0 .. MaxTurns
    /\ m_active \in BOOLEAN /\ m_paused \in BOOLEAN /\ updating \in BOOLEAN /\ crossed \in BOOLEAN
    /\ job.blob <= MaxVersion

Inputs(t) ==
    /\ -1 <= th[t].ver
    /\ th[t].cur \in InputType /\ th[t].vm \in InputType /\ th[t].got \in InputType

Bounds == Controls /\ given \subseteq Nat /\ taken \subseteq InputType /\ \A t \in Threads : Inputs(t)

LEMMA NoInputType == NoInput \in InputType
  BY JobAssumption DEF NoInput, InputType

LEMMA InitBounds == Init => Bounds
  <1> SUFFICES ASSUME Init PROVE Bounds
    OBVIOUS
  <1>0. MaxTurns \in Nat /\ MaxVersion \in Nat
    BY JobAssumption
  <1>1. Controls
    <2>1. turns = 0 /\ job.blob = 0
      BY DEF Init
    <2>2. turns \in 0 .. MaxTurns /\ job.blob <= MaxVersion
      BY <1>0, <2>1
    <2>3. /\ js \in JsPlaces /\ m_active \in BOOLEAN /\ m_paused \in BOOLEAN
          /\ updating \in BOOLEAN /\ crossed \in BOOLEAN
      BY Zenon DEF Init, JsPlaces
    <2> QED
      BY <2>2, <2>3 DEF Controls
  <1>2. given \subseteq Nat /\ taken \subseteq InputType
    BY JobAssumption DEF Init, Nonces
  <1>3. \A t \in Threads : Inputs(t)
    BY NoInputType DEF Init, Inputs, Idle
  <1> QED
    BY <1>1, <1>2, <1>3 DEF Bounds

LEMMA TurnType ==
  ASSUME turns \in 0 .. MaxTurns, Turn
  PROVE  turns' \in 0 .. MaxTurns
  <1>1. MaxTurns \in Nat
    BY JobAssumption
  <1> QED
    BY <1>1 DEF Turn

LEMMA StepControls == Shapes /\ VersionsAgree /\ Controls /\ [Next]_vars => Controls'
  <1> SUFFICES ASSUME Shapes, VersionsAgree, Controls, [Next]_vars PROVE Controls'
    OBVIOUS
  <1>0. MaxTurns \in Nat /\ MaxVersion \in Nat /\ job.version \in Nat /\ job.blob \in Nat
    BY JobAssumption DEF Shapes
  <1> USE DEF Controls, JsPlaces
  <1>1. CASE UNCHANGED vars
    BY <1>1 DEF vars, control
  <1>2. ASSUME NEW ranged \in BOOLEAN, SendBlob(ranged) PROVE Controls'
    <2>1. job'.blob = job.blob + 1 /\ job.blob = job.version /\ job.version < MaxVersion
      BY <1>0, <1>2 DEF SendBlob, Shapes, VersionsAgree
    <2> QED
      BY <1>0, <1>2, <2>1 DEF SendBlob, control
  <1>3. CASE SendRange \/ SendKeep \/ SendClamp
    BY <1>3 DEF SendRange, SendKeep, SendClamp, StoreRange, control
  <1>4. CASE SendVersion
    <2>1. job'.blob = job.blob
      BY <1>4 DEF SendVersion, Shapes
    <2> QED
      BY <1>4, <2>1 DEF SendVersion, control
  <1>5. CASE Wake
    BY <1>5 DEF Wake, control
  <1>6. ASSUME NEW r \in Grants, QueueRange(r) PROVE Controls'
    BY <1>6 DEF QueueRange, QueuedThen, control
  <1>7. CASE Unpause \/ Stop \/ RunCall
    BY <1>7 DEF Unpause, Stop, RunCall, control
  <1>8. CASE Pause \/ StopLoop \/ Update
    <2>0. turns' = turns \/ Turn
      BY <1>8, Zenon DEF Pause, StopLoop, Update
    <2>1. turns' \in 0 .. MaxTurns
      BY <2>0, TurnType, Zenon
    <2>2. m_active' \in BOOLEAN /\ m_paused' \in BOOLEAN /\ updating' \in BOOLEAN
      BY <1>8, Zenon DEF Pause, StopLoop, Update
    <2>3. js' \in JsPlaces /\ job' = job /\ crossed' = crossed
      BY <1>8 DEF Pause, StopLoop, Update
    <2> QED
      BY <2>1, <2>2, <2>3
  <1>9. CASE Start
    BY <1>9 DEF Start
  <1>10. ASSUME NEW t \in Threads, Thread(t) PROVE Controls'
    <2>1. CASE Last(t)
      BY <2>1 DEF Last
    <2>2. CASE ~ Last(t)
      BY <1>10, <2>2 DEF Thread, Acquired, NoVm, Quit, Yield, Resume, Outdated, Copy, Current, NoNonce,
         Take, Exhausted, AdvanceRange, NoRange, Hash, WaitForWork, HasWork, Sleep, Leave, FlushTo, Others, control
    <2> QED
      BY <2>1, <2>2
  <1> QED
    BY <1>1, <1>2, <1>3, <1>4, <1>5, <1>6, <1>7, <1>8, <1>9, <1>10 DEF Next, Js

\* What a thread takes.
LEMMA TakenType ==
  ASSUME NoncesInv, Controls, NEW t \in Threads
  PROVE  [blob |-> th[t].blob, nonce |-> m_range.start, gen |-> gen] \in InputType
  <1>1. /\ MaxVersion \in Nat /\ job.version \in Nat /\ job.blob \in Nat /\ gen \in Nat
        /\ m_range.start \in Nat /\ th[t].blob \in Nat
    BY JobAssumption DEF NoncesInv, Shapes, RangeType, Local
  <1>2. th[t].blob <= job.version
    BY DEF NoncesInv, Pipeline
  <1>3. job.version <= job.blob /\ gen <= job.blob
    BY <1>1 DEF NoncesInv, VersionsAgree
  <1>4. job.blob <= MaxVersion
    BY DEF Controls
  <1> QED
    BY <1>1, <1>2, <1>3, <1>4 DEF InputType

LEMMA StepInputs ==
  ASSUME NoncesInv, Bounds, NEW t \in Threads, Thread(t)
  PROVE  Inputs(t)' /\ taken' \subseteq InputType
  <1>0. /\ th \in [Threads -> Local] /\ th[t] \in Local /\ job.version \in Nat
        /\ Inputs(t) /\ taken \subseteq InputType /\ NoInput \in InputType
    BY NoInputType DEF NoncesInv, Shapes, Bounds
  <1> USE DEF Inputs
  <1>1. CASE Quit(t) \/ Yield(t) \/ Outdated(t) \/ NoNonce(t) \/ NoRange(t)
    <2>1. th'[t] = Clean(t) /\ taken' = taken
      BY <1>0, <1>1 DEF Quit, Yield, Outdated, NoNonce, NoRange, FlushTo, NoTaking
    <2>2. th'[t].ver = th[t].ver /\ th'[t].got = th[t].got /\ th'[t].cur = NoInput /\ th'[t].vm = NoInput
      BY <1>0, <2>1 DEF Clean, Local
    <2> QED
      BY <1>0, <2>1, <2>2
  <1>2. CASE Acquired(t) \/ Copy(t) \/ Exhausted(t) \/ AdvanceRange(t)
    <2>1. /\ taken' = taken /\ th'[t].ver \in {th[t].ver, job.version, job.version - 1}
          /\ th'[t].got = th[t].got /\ th'[t].cur = th[t].cur /\ th'[t].vm = th[t].vm
      BY <1>0, <1>2 DEF Acquired, Copy, Exhausted, AdvanceRange, NoTaking, Local
    <2> QED
      BY <1>0, <2>1
  <1>3. CASE NoVm(t) \/ Resume(t) \/ Current(t) \/ WaitForWork(t) \/ HasWork(t) \/ Sleep(t) \/ Last(t)
    BY <1>0, <1>3 DEF NoVm, Resume, Current, WaitForWork, HasWork, Sleep, Last, NoTaking
  <1>4. CASE Take(t)
    <2>1. PICK i \in InputType : i = [blob |-> th[t].blob, nonce |-> m_range.start, gen |-> gen]
      BY TakenType DEF Bounds
    <2>2. th' = [th EXCEPT ![t].got = i] /\ taken' = taken \union {i}
      BY <1>4, <2>1 DEF Take
    <2>3. /\ th'[t].ver = th[t].ver /\ th'[t].got = i
          /\ th'[t].cur = th[t].cur /\ th'[t].vm = th[t].vm
      BY <1>0, <2>2 DEF Local
    <2> QED
      BY <1>0, <2>2, <2>3
  <1>5. CASE Hash(t)
    <2>1. /\ taken' = taken /\ th'[t].ver = th[t].ver /\ th'[t].got = NoInput
          /\ th'[t].cur = th[t].got /\ th'[t].vm = th[t].got
      BY <1>0, <1>5 DEF Hash, NoTaking, Local
    <2> QED
      BY <1>0, <2>1
  <1>6. CASE Leave(t)
    <2>1. taken' = taken /\ th'[t] = Idle
      BY <1>0, <1>6 DEF Leave, NoTaking
    <2> QED
      BY <1>0, <2>1 DEF Idle
  <1> QED
    BY <1>1, <1>2, <1>3, <1>4, <1>5, <1>6 DEF Thread

LEMMA StepBounds == NoncesInv /\ Bounds /\ [Next]_vars => Bounds'
  <1> SUFFICES ASSUME NoncesInv, Bounds, [Next]_vars PROVE Bounds'
    OBVIOUS
  <1>0. Controls'
    BY StepControls DEF NoncesInv, Bounds
  <1>1. \A r \in RangeType : Nonces(r) \subseteq Nat
    BY DEF RangeType, Nonces
  <1>2. ASSUME given' \subseteq given, taken' = taken, th' = th PROVE Bounds'
    BY <1>0, <1>2 DEF Bounds, Inputs
  <1>3. CASE UNCHANGED vars
    BY <1>2, <1>3 DEF vars, ranges, threads
  <1>4. CASE SendRange
    <2>1. PICK r \in RangeType : StoreRange(r)
      BY <1>4, JobAssumption DEF SendRange, RangeType
    <2> QED
      BY <1>0, <1>1, <2>1 DEF StoreRange, threads, Bounds, Inputs
  <1>5. CASE SendClamp
    <2>1. PICK r \in RangeType : StoreRange(r)
      <3>1. [start |-> IF read.start < End THEN read.start ELSE End, limit |-> End] \in RangeType
        BY JobAssumption DEF NoncesInv, Shapes, RangeType
      <3> QED
        BY <1>5, <3>1 DEF SendClamp
    <2> QED
      BY <1>0, <1>1, <2>1 DEF StoreRange, threads, Bounds, Inputs
  <1>6. ASSUME NEW r \in Grants, QueueRange(r) PROVE Bounds'
    <2>1. r \in RangeType
      BY JobAssumption DEF RangeType
    <2> QED
      BY <1>0, <1>1, <1>6, <2>1 DEF QueueRange, threads, Bounds, Inputs
  <1>7. CASE Start
    <2>1. \A t \in Threads : Inputs(t)'
      BY <1>7, NoInputType DEF Start, Inputs, Idle
    <2> QED
      BY <1>0, <1>7, <2>1 DEF Start, ranges, Bounds
  <1>8. CASE SendKeep \/ SendVersion \/ Wake \/ Unpause \/ Pause \/ StopLoop \/ Stop \/ RunCall \/ Update
    BY <1>2, <1>8 DEF SendKeep, SendVersion, Wake, Unpause, Pause, StopLoop, Stop, RunCall, Update,
                      ranges, threads
  <1>9. ASSUME NEW ranged \in BOOLEAN, SendBlob(ranged) PROVE Bounds'
    BY <1>2, <1>9 DEF SendBlob, ranges, threads
  <1>10. ASSUME NEW t \in Threads, Thread(t) PROVE Bounds'
    <2>1. Inputs(t)' /\ taken' \subseteq InputType
      BY <1>10, StepInputs
    <2>2. \A u \in Threads \ {t} : Inputs(u)'
      <3>1. \A u \in Threads \ {t} : th'[u] = th[u]
        BY <1>10, OthersKept DEF NoncesInv
      <3> QED
        BY <3>1 DEF Bounds, Inputs
    <2>3. given' = given
      BY <1>10 DEF Thread, Acquired, NoVm, Quit, Yield, Resume, Outdated, Copy, Current, NoNonce, Take,
         Exhausted, AdvanceRange, NoRange, Hash, WaitForWork, HasWork, Sleep, Leave, Last, FlushTo, NoTaking, ranges
    <2> QED
      BY <1>0, <2>1, <2>2, <2>3 DEF Bounds
  <1> QED
    BY <1>3, <1>4, <1>5, <1>6, <1>7, <1>8, <1>9, <1>10 DEF Next, Js

-----------------------------------------------------------------------------
(* The count of the shares under way, and the reference.                   *)

SharesOf(s) == {i \in DOMAIN s : s[i].kind = "share"}

LEMMA SharesFinite ==
  ASSUME NEW s \in Seq(Call)
  PROVE  IsFiniteSet(SharesOf(s)) /\ Cardinality(SharesOf(s)) \in Nat
  <1>1. SharesOf(s) \subseteq 1 .. Len(s) /\ Len(s) \in Nat
    BY DEF SharesOf
  <1>2. IsFiniteSet(1 .. Len(s))
    BY <1>1, FS_Interval
  <1>3. IsFiniteSet(SharesOf(s))
    BY <1>1, <1>2, FS_Subset
  <1> QED
    BY <1>3, FS_CardinalityType

LEMMA AppendShares ==
  ASSUME NEW s \in Seq(Call), NEW c \in Call
  PROVE  Cardinality(SharesOf(Append(s, c))) =
             Cardinality(SharesOf(s)) + (IF c.kind = "share" THEN 1 ELSE 0)
  <1>1. Len(s) \in Nat /\ DOMAIN s = 1 .. Len(s) /\ DOMAIN Append(s, c) = 1 .. Len(s) + 1
    OBVIOUS
  <1>2. /\ \A i \in 1 .. Len(s) : Append(s, c)[i] = s[i]
        /\ Append(s, c)[Len(s) + 1] = c
    OBVIOUS
  <1>3. PICK n : n = Len(s) + 1
    OBVIOUS
  <1>4. SharesOf(Append(s, c)) = SharesOf(s) \union (IF c.kind = "share" THEN {n} ELSE {})
    BY <1>1, <1>2, <1>3 DEF SharesOf
  <1>5. n \notin SharesOf(s)
    BY <1>1, <1>3 DEF SharesOf
  <1>6. IsFiniteSet(SharesOf(s)) /\ Cardinality(SharesOf(s)) \in Nat
    BY SharesFinite
  <1>7. Cardinality(SharesOf(s) \union {n}) = Cardinality(SharesOf(s)) + 1
    BY <1>5, <1>6, FS_AddElement
  <1>8. SharesOf(s) \union {} = SharesOf(s)
    OBVIOUS
  <1>9. CASE c.kind = "share"
    BY <1>4, <1>7, <1>9
  <1>10. CASE c.kind # "share"
    BY <1>4, <1>6, <1>8, <1>10
  <1> QED
    BY <1>9, <1>10

LEMMA TailShares ==
  ASSUME NEW s \in Seq(Call), s # <<>>
  PROVE  Cardinality(SharesOf(s)) =
             Cardinality(SharesOf(Tail(s))) + (IF Head(s).kind = "share" THEN 1 ELSE 0)
  <1>0. Tail(s) \in Seq(Call)
    OBVIOUS
  <1>1. PICK u \in Seq(Call) : u = Tail(s)
    BY <1>0
  <1>2. /\ Len(s) \in Nat /\ Len(s) # 0 /\ DOMAIN s = 1 .. Len(s) /\ DOMAIN u = 1 .. Len(s) - 1
        /\ Head(s) = s[1] /\ \A i \in DOMAIN u : u[i] = s[i + 1]
    BY <1>1
  <1> DEFINE S == SharesOf(u)
  <1> DEFINE T == SharesOf(s) \ {1}
  <1> DEFINE f == [i \in S |-> i + 1]
  <1>3. f \in [S -> T]
    BY <1>2 DEF SharesOf
  <1>4. \A i, j \in S : f[i] = f[j] => i = j
    BY <1>2 DEF SharesOf
  <1>5. \A k \in T : \E i \in S : f[i] = k
    <2> SUFFICES ASSUME NEW k \in T PROVE \E i \in S : f[i] = k
      OBVIOUS
    <2>1. k \in 1 .. Len(s) /\ k # 1 /\ s[k].kind = "share"
      BY <1>2 DEF SharesOf
    <2>2. k - 1 \in DOMAIN u /\ (k - 1) + 1 = k
      BY <1>2, <2>1
    <2>3. k - 1 \in S
      BY <1>2, <2>1, <2>2 DEF SharesOf
    <2> QED
      BY <2>2, <2>3
  <1> HIDE DEF f
  <1>6. ExistsBijection(S, T)
    BY <1>3, <1>4, <1>5 DEF ExistsBijection, Bijection, Injection, Surjection, IsInjective
  <1>7. /\ IsFiniteSet(S) /\ Cardinality(S) \in Nat
        /\ IsFiniteSet(SharesOf(s)) /\ Cardinality(SharesOf(s)) \in Nat
    BY SharesFinite
  <1>8. Cardinality(T) = Cardinality(S)
    BY <1>6, <1>7, FS_Bijection
  <1>9. Cardinality(T) = IF 1 \in SharesOf(s) THEN Cardinality(SharesOf(s)) - 1 ELSE Cardinality(SharesOf(s))
    BY <1>7, FS_RemoveElement
  <1>10. 1 \in SharesOf(s) <=> Head(s).kind = "share"
    BY <1>2 DEF SharesOf
  <1> QED
    BY <1>1, <1>7, <1>8, <1>9, <1>10

\* The shares under way are counted; an Unref that is queued for this run is the
\* last call of it; the function is referenced while threads mine or shares are
\* under way, and not when all is over.
HasUnref(calls)  == \E i \in 1 .. Len(calls) : calls[i].kind = "unref"
UnrefLast(calls) == \A i \in 1 .. Len(calls) : calls[i].kind = "unref" => i = Len(calls)

Over == js \notin Halting /\ ~ m_active /\ Joined

Refs ==
    /\ out.inflight = Cardinality(SharesOf(out.calls))
    /\ ~ crossed => UnrefLast(out.calls) /\ (HasUnref(out.calls) => Joined)
    /\ (Live # {} \/ out.inflight > 0) /\ ~ crossed => out.refd
    /\ Over /\ out.calls = <<>> => ~ out.refd

LEMMA NoShares == Cardinality(SharesOf(<<>>)) = 0
  <1>1. SharesOf(<<>>) = {}
    BY DEF SharesOf
  <1> QED
    BY <1>1, FS_EmptySet

LEMMA JoinedDead == Joined => Live = {}
  BY DEF Joined, Live

LEMMA InitRefs == Init => Refs
  <1> SUFFICES ASSUME Init PROVE Refs
    OBVIOUS
  <1>1. out.inflight = 0 /\ out.calls = <<>> /\ out.refd = FALSE
    BY DEF Init
  <1>2. Live = {}
    BY DEF Init, Live
  <1>3. out.inflight = Cardinality(SharesOf(out.calls))
    BY <1>1, NoShares
  <1>4. UnrefLast(out.calls) /\ ~ HasUnref(out.calls)
    BY <1>1 DEF UnrefLast, HasUnref
  <1> QED
    BY <1>1, <1>2, <1>3, <1>4 DEF Refs

\* A step that leaves the calls alone, ends no thread and starts none.
LEMMA RefsKept ==
  ASSUME Refs, UNCHANGED <<out, crossed>>, Joined => Joined', Live' # {} => Live # {}, Over' => Over
  PROVE  Refs'
  BY DEF Refs

LEMMA StopRefs ==
  ASSUME Shapes, Refs, Stop PROVE Refs'
  <1>1. /\ out' = [out EXCEPT !.refd = StopKeeps] /\ Joined /\ Live = {}
        /\ UNCHANGED <<crossed, pc>>
    BY JoinedDead DEF Stop, threads
  <1>2. out'.inflight = out.inflight /\ out'.calls = out.calls /\ out'.refd = StopKeeps
    BY <1>1 DEF Shapes, Out
  <1>3. Joined' /\ Live' = {}
    BY <1>1 DEF Joined, Live
  <1>5. out.inflight > 0 /\ ~ crossed => out'.refd
    <2>1. out.inflight > 0 => out.inflight # 0
      BY DEF Shapes, Out
    <2> QED
      BY <1>2, <2>1 DEF Refs, StopKeeps
  <1>6. out.calls = <<>> => ~ out'.refd
    BY <1>2, NoShares DEF Refs, StopKeeps
  <1> QED
    BY <1>1, <1>2, <1>3, <1>5, <1>6 DEF Refs

LEMMA StartRefs ==
  ASSUME Shapes, Refs, Start PROVE Refs'
  <1>1. out.calls \in Seq(Call)
    BY DEF Shapes, Out
  <1>2. out'.inflight = out.inflight /\ out'.calls = out.calls /\ out'.refd = TRUE
    BY DEF Start, Shapes, Out
  <1>3. m_active' = TRUE /\ crossed' = \E i \in DOMAIN out.calls : out.calls[i].kind = "unref"
    BY DEF Start
  <1>4. ~ crossed' => \A i \in 1 .. Len(out.calls) : out.calls[i].kind # "unref"
    BY <1>1, <1>3
  <1>5. ~ crossed' => UnrefLast(out'.calls) /\ ~ HasUnref(out'.calls)
    BY <1>2, <1>4 DEF UnrefLast, HasUnref
  <1> QED
    BY <1>2, <1>3, <1>5 DEF Refs, Over

\* What is left of the calls once the first is taken.
LEMMA Popped ==
  ASSUME NEW s \in Seq(Call), s # <<>>
  PROVE  \E u \in Seq(Call) :
            /\ u = Tail(s) /\ Len(s) \in Nat /\ Len(u) \in Nat /\ Len(s) = Len(u) + 1
            /\ Head(s) = s[1] /\ s[1] \in Call
            /\ \A i \in 1 .. Len(u) : u[i] = s[i + 1]
            /\ Len(u) = 0 => u = <<>>
  <1>1. Tail(s) \in Seq(Call)
    OBVIOUS
  <1>2. PICK u \in Seq(Call) : u = Tail(s)
    BY <1>1
  <1>3. /\ Len(s) \in Nat /\ Len(u) \in Nat /\ Len(s) = Len(u) + 1
        /\ Head(s) = s[1] /\ s[1] \in Call
        /\ \A i \in 1 .. Len(u) : u[i] = s[i + 1]
    BY <1>2
  <1>4. Len(u) = 0 => u = <<>>
    OBVIOUS
  <1> QED
    BY <1>2, <1>3, <1>4

LEMMA UnrefPopped ==
  ASSUME NEW s \in Seq(Call), NEW u \in Seq(Call), Len(s) \in Nat, Len(u) \in Nat, Len(s) = Len(u) + 1,
         \A i \in 1 .. Len(u) : u[i] = s[i + 1]
  PROVE  /\ UnrefLast(s) => UnrefLast(u)
         /\ HasUnref(u) => HasUnref(s)
         /\ s[1].kind = "unref" => HasUnref(s) /\ (UnrefLast(s) => Len(u) = 0)
  <1>1. ASSUME NEW i \in 1 .. Len(u)
        PROVE  i + 1 \in 1 .. Len(s) /\ u[i] = s[i + 1] /\ (i + 1 = Len(s) => i = Len(u))
    OBVIOUS
  <1>2. UnrefLast(s) => UnrefLast(u)
    BY <1>1 DEF UnrefLast
  <1>3. HasUnref(u) => HasUnref(s)
    BY <1>1 DEF HasUnref
  <1>4. 1 \in 1 .. Len(s) /\ (1 = Len(s) => Len(u) = 0)
    OBVIOUS
  <1>5. s[1].kind = "unref" => HasUnref(s) /\ (UnrefLast(s) => Len(u) = 0)
    BY <1>4 DEF HasUnref, UnrefLast
  <1> QED
    BY <1>2, <1>3, <1>5

LEMMA RunCallRefs ==
  ASSUME Shapes, Alone, Refs, RunCall PROVE Refs'
  <1>1. /\ out.calls \in Seq(Call) /\ out.calls # <<>> /\ out.inflight \in Int
        /\ js = "run" /\ UNCHANGED <<js, m_active, crossed, pc>>
    BY DEF Shapes, Out, RunCall, control, threads
  <1>2. PICK s \in Seq(Call) : s = out.calls /\ s # <<>>
    BY <1>1
  <1>3. PICK u \in Seq(Call) :
            /\ u = Tail(s) /\ Len(s) \in Nat /\ Len(u) \in Nat /\ Len(s) = Len(u) + 1
            /\ Head(s) = s[1] /\ s[1] \in Call
            /\ \A i \in 1 .. Len(u) : u[i] = s[i + 1]
            /\ Len(u) = 0 => u = <<>>
    BY <1>2, Popped
  <1>4. out'.calls = u
    BY <1>2, <1>3 DEF RunCall, Shapes, Out
  <1>5. Joined' = Joined /\ Live' = Live
    BY <1>1 DEF Joined, Live
  <1>6. /\ UnrefLast(s) => UnrefLast(u)
        /\ HasUnref(u) => HasUnref(s)
        /\ s[1].kind = "unref" => HasUnref(s) /\ (UnrefLast(s) => Len(u) = 0)
    BY <1>3, UnrefPopped
  <1>7. PICK n \in Nat : n = Cardinality(SharesOf(u))
    BY SharesFinite
  <1>8. out.inflight = n + (IF s[1].kind = "share" THEN 1 ELSE 0)
    <2>1. Cardinality(SharesOf(s)) = Cardinality(SharesOf(Tail(s))) + (IF Head(s).kind = "share" THEN 1 ELSE 0)
      BY <1>2, TailShares
    <2>2. out.inflight = Cardinality(SharesOf(s))
      BY <1>2 DEF Refs
    <2> QED
      BY <2>1, <2>2, <1>3, <1>7
  <1>9. u = <<>> => n = 0
    BY <1>7, NoShares
  <1>10. ~ crossed' => UnrefLast(u) /\ (HasUnref(u) => Joined')
    <2>1. ~ crossed => UnrefLast(s) /\ (HasUnref(s) => Joined)
      BY <1>2 DEF Refs
    <2> QED
      BY <1>1, <1>5, <1>6, <2>1
  <1>11. CASE s[1].kind = "share"
    <2>1. /\ out'.inflight = out.inflight - 1
          /\ out'.refd = (out.refd /\ (out.inflight > 1 \/ m_active))
      BY <1>2, <1>3, <1>11 DEF RunCall
    <2>2. out'.inflight = n /\ out.inflight = n + 1
      BY <1>8, <1>11, <2>1
    <2>3. out.inflight > 0 /\ (out'.inflight > 0 => out.inflight > 1) /\ (n = 0 => ~ (out.inflight > 1))
      BY <2>2
    <2>4. Live # {} => m_active
      BY <1>1, JoinedDead DEF Alone, Halting
    <2>5. (Live' # {} \/ out'.inflight > 0) /\ ~ crossed' => out'.refd
      BY <1>1, <1>5, <2>1, <2>3, <2>4 DEF Refs
    <2>6. Over' /\ out'.calls = <<>> => ~ out'.refd
      <3>1. Over' => ~ m_active
        BY <1>1 DEF Over
      <3> QED
        BY <1>4, <1>9, <2>1, <2>3, <3>1
    <2>7. out'.inflight = Cardinality(SharesOf(out'.calls))
      BY <1>4, <1>7, <2>2
    <2> QED
      BY <1>4, <1>10, <2>5, <2>6, <2>7 DEF Refs
  <1>12. CASE s[1].kind # "share"
    <2>1. out'.inflight = out.inflight /\ out'.refd = FALSE
      BY <1>2, <1>3, <1>12 DEF RunCall, Shapes, Out
    <2>2. out.inflight = n
      BY <1>8, <1>12
    <2>3. s[1].kind = "unref"
      BY <1>3, <1>12 DEF Call
    <2>4. ~ crossed => Live = {} /\ ~ (out.inflight > 0)
      <3>1. ~ crossed => UnrefLast(s) /\ (HasUnref(s) => Joined)
        BY <1>2 DEF Refs
      <3>2. ~ crossed => Joined /\ Len(u) = 0
        BY <1>6, <2>3, <3>1
      <3>3. Len(u) = 0 => ~ (out.inflight > 0)
        BY <1>3, <1>9, <2>2
      <3> QED
        BY <3>2, <3>3, JoinedDead
    <2>5. ~ ((Live' # {} \/ out'.inflight > 0) /\ ~ crossed')
      BY <1>1, <1>5, <2>1, <2>4
    <2>6. out'.inflight = Cardinality(SharesOf(out'.calls))
      BY <1>4, <1>7, <2>1, <2>2
    <2> QED
      BY <1>4, <1>10, <2>1, <2>5, <2>6 DEF Refs
  <1> QED
    BY <1>11, <1>12

\* What a step of a thread does to the calls.
LEMMA ThreadCalls ==
  ASSUME Shapes, NEW t \in Threads, Thread(t)
  PROVE  /\ crossed' = crossed /\ out'.refd = out.refd
         /\ \/ out'.calls = out.calls /\ out'.inflight = out.inflight /\ (Last(t) => ~ m_active)
            \/ /\ ~ Last(t) /\ pc[t] # "last"
               /\ \E c \in Call : /\ c.kind = "share" /\ out'.calls = Append(out.calls, c)
                                  /\ out'.inflight = out.inflight + 1
            \/ /\ Last(t) /\ out'.inflight = out.inflight
               /\ \E c \in Call : c.kind = "unref" /\ out'.calls = Append(out.calls, c)
  <1>0. out \in Out
    BY DEF Shapes
  <1>1. crossed' = crossed
    BY DEF Thread, Acquired, NoVm, Quit, Yield, Resume, Outdated, Copy, Current, NoNonce, Take,
       Exhausted, AdvanceRange, NoRange, Hash, WaitForWork, HasWork, Sleep, Leave, Last, FlushTo, Others
  <1>2. CASE out' = out /\ ~ Last(t)
    BY <1>1, <1>2
  <1>3. CASE FlushHash(t) /\ ~ Last(t) /\ pc[t] # "last"
    <2>1. out' = out \/ SubmitShare(t)
      BY <1>3 DEF FlushHash, Examine, NoResult
    <2>2. CASE out' = out
      BY <1>2, <1>3, <2>2
    <2>3. CASE SubmitShare(t)
      <3>1. Share(t) \in Call /\ Share(t).kind = "share"
        BY ShareShape DEF Share
      <3>2. out'.calls = Append(out.calls, Share(t)) /\ out'.inflight = out.inflight + 1 /\ out'.refd = out.refd
        BY <1>0, <2>3 DEF SubmitShare, Out
      <3> QED
        BY <1>1, <1>3, <3>1, <3>2
    <2> QED
      BY <2>1, <2>2, <2>3
  <1>4. CASE Last(t)
    <2>1. CASE ~ m_active
      BY <1>1, <1>4, <2>1 DEF Last
    <2>2. CASE m_active
      <3>1. PICK c \in Call : c = [kind |-> "unref"]
        BY DEF Call
      <3>2. out' = [out EXCEPT !.calls = Append(@, c)]
        BY <1>4, <2>2, <3>1 DEF Last
      <3>3. out'.calls = Append(out.calls, c) /\ out'.inflight = out.inflight /\ out'.refd = out.refd
        BY <1>0, <3>2 DEF Out
      <3> QED
        BY <1>1, <1>4, <3>1, <3>3
    <2> QED
      BY <2>1, <2>2
  <1>5. CASE Quit(t) \/ Yield(t) \/ Outdated(t) \/ NoNonce(t) \/ NoRange(t) \/ Hash(t)
    <2>1. FlushHash(t) /\ pc[t] # "last"
      BY <1>5 DEF Quit, Yield, Outdated, NoNonce, NoRange, Hash, FlushTo
    <2> QED
      BY <1>3, <1>4, <2>1
  <1>6. CASE \/ Acquired(t) \/ NoVm(t) \/ Resume(t) \/ Copy(t) \/ Current(t) \/ Take(t)
             \/ Exhausted(t) \/ AdvanceRange(t) \/ WaitForWork(t) \/ HasWork(t) \/ Sleep(t) \/ Leave(t)
    <2>1. out' = out
      BY <1>6 DEF Acquired, NoVm, Resume, Copy, Current, Take, Exhausted, AdvanceRange, WaitForWork,
                  HasWork, Sleep, Leave, NoResult
    <2> QED
      BY <1>2, <1>4, <2>1
  <1> QED
    BY <1>4, <1>5, <1>6 DEF Thread

LEMMA ThreadRefs ==
  ASSUME Shapes, Alone, Refs, NEW t \in Threads, Thread(t)
  PROVE  Refs'
  <1>0. /\ out.calls \in Seq(Call) /\ out.inflight \in Int
        /\ pc \in [Threads -> Places]
    BY DEF Shapes, Out
  <1>1. /\ \A u \in Threads \ {t} : pc'[u] = pc[u] /\ th'[u] = th[u]
        /\ pc[t] \notin {"off", "exit"}
        /\ pc'[t] # "off"
        /\ pc'[t] = "last" => Leave(t) /\ Live = {t}
        /\ pc'[t] = "exit" => Last(t) \/ (Leave(t) /\ Live # {t})
        /\ m_paused' = m_paused /\ js' = js /\ job' = job
        /\ m_active' = m_active \/ (Last(t) /\ pc[t] = "last" /\ pc'[t] = "exit" /\ m_active' = FALSE)
    BY <1>0, ThreadPlaces
  <1>2. /\ crossed' = crossed /\ out'.refd = out.refd
        /\ \/ out'.calls = out.calls /\ out'.inflight = out.inflight /\ (Last(t) => ~ m_active)
           \/ /\ ~ Last(t) /\ pc[t] # "last"
              /\ \E c \in Call : /\ c.kind = "share" /\ out'.calls = Append(out.calls, c)
                                 /\ out'.inflight = out.inflight + 1
           \/ /\ Last(t) /\ out'.inflight = out.inflight
              /\ \E c \in Call : c.kind = "unref" /\ out'.calls = Append(out.calls, c)
    BY ThreadCalls
  <1>3. ~ Joined
    BY <1>1 DEF Joined
  <1>4. ~ crossed => \A i \in 1 .. Len(out.calls) : out.calls[i].kind # "unref"
    BY <1>3 DEF Refs, HasUnref
  <1>5. pc[t] = "last" => Last(t) /\ pc'[t] = "exit"
    <2>1. pc[t] = "last" => Last(t)
      BY DEF Thread, Acquired, NoVm, Quit, Yield, Resume, Outdated, Copy, Current, NoNonce, Take, Asks,
             Exhausted, AdvanceRange, NoRange, Hash, WaitForWork, HasWork, Sleep, Leave
    <2>2. Last(t) => pc'[t] = "exit"
      BY <1>0 DEF Last, Goto
    <2> QED
      BY <2>1, <2>2
  <1>6. Live' # {} => Live # {}
    BY <1>1, <1>5 DEF Live
  <1>7. ~ Last(t) => ~ Joined'
    <2> SUFFICES ASSUME ~ Last(t), pc'[t] = "exit" PROVE ~ Joined'
      BY <1>1 DEF Joined
    <2>1. Leave(t) /\ Live # {t}
      BY <1>1
    <2>2. t \in Live
      BY <2>1 DEF Leave, Live
    <2>3. PICK u \in Live : u # t
      BY <2>1, <2>2
    <2> QED
      BY <1>1, <2>3 DEF Live, Joined
  <1>8. Last(t) => Joined'
    <2> SUFFICES ASSUME Last(t) PROVE Joined'
      OBVIOUS
    <2>1. pc[t] = "last" /\ pc'[t] = "exit"
      BY <1>5 DEF Last
    <2>2. \A u \in Threads \ {t} : pc[u] \in {"off", "exit"}
      BY <2>1 DEF Alone
    <2> QED
      BY <1>1, <2>1, <2>2 DEF Joined
  <1>9. CASE out'.calls = out.calls /\ out'.inflight = out.inflight /\ (Last(t) => ~ m_active)
    <2>1. ~ crossed' => UnrefLast(out'.calls) /\ ~ HasUnref(out'.calls)
      BY <1>2, <1>4, <1>9 DEF UnrefLast, HasUnref
    <2>2. ~ Over'
      <3>1. CASE ~ Last(t)
        BY <1>7, <3>1 DEF Over
      <3>2. CASE Last(t)
        <4>1. js \in Halting
          BY <1>3, <1>9, <3>2 DEF Alone
        <4> QED
          BY <1>1, <4>1 DEF Over
      <3> QED
        BY <3>1, <3>2
    <2>3. (Live' # {} \/ out'.inflight > 0) /\ ~ crossed' => out'.refd
      BY <1>2, <1>6, <1>9 DEF Refs
    <2>4. out'.inflight = Cardinality(SharesOf(out'.calls))
      BY <1>9 DEF Refs
    <2> QED
      BY <2>1, <2>2, <2>3, <2>4 DEF Refs
  <1>10. ASSUME NEW c \in Call, c.kind = "share", out'.calls = Append(out.calls, c),
                out'.inflight = out.inflight + 1, ~ Last(t), pc[t] # "last"
         PROVE  Refs'
    <2>1. out'.inflight = Cardinality(SharesOf(out'.calls))
      BY <1>0, <1>10, AppendShares DEF Refs
    <2>2. ~ crossed' => UnrefLast(out'.calls) /\ ~ HasUnref(out'.calls)
      <3> SUFFICES ASSUME ~ crossed, NEW i \in 1 .. Len(out'.calls), out'.calls[i].kind = "unref"
                   PROVE  FALSE
        BY <1>2 DEF UnrefLast, HasUnref
      <3>1. (i \in 1 .. Len(out.calls) /\ out'.calls[i] = out.calls[i]) \/ out'.calls[i] = c
        BY <1>0, <1>10
      <3> QED
        BY <1>4, <1>10, <3>1
    <2>3. Live # {}
      BY <1>1, <1>10 DEF Live
    <2> QED
      BY <1>2, <1>7, <1>10, <2>1, <2>2, <2>3 DEF Refs, Over
  <1>11. ASSUME NEW c \in Call, c.kind = "unref", out'.calls = Append(out.calls, c),
                out'.inflight = out.inflight, Last(t)
         PROVE  Refs'
    <2>1. out'.inflight = Cardinality(SharesOf(out'.calls))
      <3>1. Cardinality(SharesOf(Append(out.calls, c))) =
                Cardinality(SharesOf(out.calls)) + (IF c.kind = "share" THEN 1 ELSE 0)
        BY <1>0, AppendShares
      <3>2. Cardinality(SharesOf(out.calls)) \in Nat
        BY <1>0, SharesFinite
      <3> QED
        BY <1>11, <3>1, <3>2 DEF Refs
    <2>2. ~ crossed' => UnrefLast(out'.calls)
      <3> SUFFICES ASSUME ~ crossed, NEW i \in 1 .. Len(out'.calls), out'.calls[i].kind = "unref"
                   PROVE  i = Len(out'.calls)
        BY <1>2 DEF UnrefLast
      <3>1. (i \in 1 .. Len(out.calls) /\ out'.calls[i] = out.calls[i]) \/ i = Len(out'.calls)
        BY <1>0, <1>11
      <3> QED
        BY <1>4, <3>1
    <2>3. out'.calls # <<>>
      BY <1>0, <1>11
    <2>4. (Live' # {} \/ out'.inflight > 0) /\ ~ crossed' => out'.refd
      BY <1>2, <1>6, <1>11 DEF Refs
    <2> QED
      BY <1>8, <1>11, <2>1, <2>2, <2>3, <2>4 DEF Refs
  <1> QED
    BY <1>2, <1>9, <1>10, <1>11

LEMMA StepRefs == Shapes /\ Alone /\ Refs /\ [Next]_vars => Refs'
  <1> SUFFICES ASSUME Shapes, Alone, Refs, [Next]_vars PROVE Refs'
    OBVIOUS
  <1>0. pc \in [Threads -> Places]
    BY DEF Shapes
  <1>1. ASSUME UNCHANGED <<out, crossed, pc>>, js' \in Halting \/ (js \notin Halting /\ m_active' = m_active)
        PROVE  Refs'
    <2>1. Joined' = Joined /\ Live' = Live
      BY <1>1 DEF Joined, Live
    <2>2. Over' => Over
      BY <1>1, <2>1 DEF Over
    <2> QED
      BY <1>1, <2>1, <2>2, RefsKept
  <1>2. CASE UNCHANGED vars
    <2>1. UNCHANGED <<out, crossed, pc, js, m_active>>
      BY <1>2 DEF vars, threads, control
    <2> QED
      BY <1>1, <2>1
  <1>3. ASSUME NEW ranged \in BOOLEAN, SendBlob(ranged) PROVE Refs'
    BY <1>1, <1>3 DEF SendBlob, threads, control, Halting
  <1>4. CASE SendRange \/ SendKeep \/ SendClamp \/ SendVersion
    BY <1>1, <1>4 DEF SendRange, SendKeep, SendClamp, SendVersion, StoreRange, threads, control, Halting
  <1>5. ASSUME NEW r \in Grants, QueueRange(r) PROVE Refs'
    BY <1>1, <1>5 DEF QueueRange, threads, control, Halting
  <1>6. CASE Unpause \/ Pause \/ Update \/ StopLoop
    BY <1>1, <1>6 DEF Unpause, Pause, Update, StopLoop, threads, Halting
  <1>7. CASE Wake
    <2>1. /\ UNCHANGED <<out, crossed>> /\ m_active' = m_active
          /\ \A t \in Threads : /\ pc'[t] \in {"off", "exit"} <=> pc[t] \in {"off", "exit"}
                                /\ pc'[t] = "last" <=> pc[t] = "last"
          /\ js \in Halting => js' \in Halting
      BY <1>0, <1>7 DEF Wake, control, Halting
    <2>2. Joined' = Joined /\ Live' = Live
      BY <2>1 DEF Joined, Live
    <2>3. Over' => Over
      BY <2>1, <2>2 DEF Over
    <2> QED
      BY <2>1, <2>2, <2>3, RefsKept
  <1>8. CASE Stop
    BY <1>8, StopRefs
  <1>9. CASE Start
    BY <1>9, StartRefs
  <1>10. CASE RunCall
    BY <1>10, RunCallRefs
  <1>11. ASSUME NEW t \in Threads, Thread(t) PROVE Refs'
    BY <1>11, ThreadRefs
  <1> QED
    BY <1>2, <1>3, <1>4, <1>5, <1>6, <1>7, <1>8, <1>9, <1>10, <1>11 DEF Next, Js

\* All of it: the shares on their way to JavaScript are counted, and the count
\* and the threads decide about the reference that keeps the event loop alive,
\* however shares, the end of a run, Stop and the next Start overtake each other
\* (SubmitShare, LiveGuard, Start, Stop); and the types, with their bounds.
THEOREM CallsAreAccounted == Spec => []CallsAccounted
  <1> DEFINE All == NoncesInv /\ Bounds /\ Alone /\ Refs
  <1>1. Init => All
    BY InitNonces, InitBounds, InitWake, InitRefs DEF WakeInv
  <1>2. All /\ [Next]_vars => All'
    <2>1. NoncesInv => Shapes
      BY DEF NoncesInv
    <2> QED
      BY <2>1, StepNonces, StepBounds, StepAlone, StepRefs
  <1>3. All => CallsAccounted
    <2> SUFFICES ASSUME All PROVE CallsAccounted
      OBVIOUS
    <2>1. /\ job \in [version : Nat, blob : Nat, ranged : BOOLEAN] /\ gen \in Nat
          /\ m_range \in RangeType /\ read \in RangeType /\ m_queued \in Seq(RangeType)
          /\ pc \in [Threads -> Places] /\ th \in [Threads -> Local]
          /\ out \in Out
      BY DEF NoncesInv, Shapes
    <2>2. /\ job.version \in 0 .. MaxVersion /\ job.blob \in 0 .. MaxVersion /\ gen \in 0 .. MaxVersion
      <3>1. job.version \in Nat /\ job.blob \in Nat /\ MaxVersion \in Nat
        BY <2>1, JobAssumption
      <3>2. job.version <= job.blob /\ gen <= job.blob
        BY <2>1, <3>1 DEF NoncesInv, VersionsAgree
      <3>3. job.blob <= MaxVersion
        BY DEF Bounds, Controls
      <3> QED
        BY <2>1, <3>1, <3>2, <3>3
    <2>3. th \in [Threads -> [ver : -1 .. MaxVersion, blob : 0 .. MaxVersion, cur : InputType,
                              vm : InputType, is_first : BOOLEAN, got : InputType, seen : RangeType]]
      <3> SUFFICES ASSUME NEW t \in Threads
                   PROVE  th[t] \in [ver : -1 .. MaxVersion, blob : 0 .. MaxVersion, cur : InputType,
                                     vm : InputType, is_first : BOOLEAN, got : InputType, seen : RangeType]
        BY <2>1
      <3>1. th[t] \in Local /\ MaxVersion \in Nat
        BY <2>1, JobAssumption
      <3>2. -1 <= th[t].ver /\ th[t].cur \in InputType /\ th[t].vm \in InputType /\ th[t].got \in InputType
        BY DEF Bounds, Inputs
      <3>3. th[t].blob <= job.version /\ (th[t].blob = th[t].ver \/ th[t].ver < job.version)
        BY DEF NoncesInv, Pipeline
      <3>4. th[t].ver \in Int /\ th[t].blob \in Nat
        BY <3>1 DEF Local
      <3>5. th[t].ver \in -1 .. MaxVersion /\ th[t].blob \in 0 .. MaxVersion
        BY <2>2, <3>1, <3>2, <3>3, <3>4
      <3> QED
        BY <3>1, <3>2, <3>5 DEF Local
    <2>4. examined \subseteq taken
      BY DEF NoncesInv, Account
    <2>5. Shares = SharesOf(out.calls)
      BY DEF Shares, SharesOf
    <2>6. TypeOK
      <3>1. /\ js \in JsPlaces /\ turns \in 0 .. MaxTurns
            /\ {m_active, m_paused, updating, crossed, out.refd, job.ranged} \subseteq BOOLEAN
            /\ given \subseteq Nat /\ taken \subseteq InputType
        <4>1. out.refd \in BOOLEAN /\ job.ranged \in BOOLEAN
          BY <2>1 DEF Out
        <4> QED
          BY <4>1, Zenon DEF Bounds, Controls
      <3>2. {job.version, job.blob, gen} \subseteq 0 .. MaxVersion
        BY <2>2
      <3>3. out.inflight = Cardinality(Shares)
        BY <2>5 DEF Refs
      <3> QED
        BY <2>1, <2>3, <2>4, <3>1, <3>2, <3>3, Zenon DEF TypeOK, JsPlaces, Places
    <2>7. Referenced
      <3>1. js = "run" => js \notin Halting
        BY DEF Halting
      <3> QED
        BY <3>1 DEF Refs, Over, Referenced
    <2> QED
      BY <2>6, <2>7 DEF CallsAccounted
  <1> QED
    BY <1>1, <1>2, <1>3, PTL DEF Spec
=============================================================================
