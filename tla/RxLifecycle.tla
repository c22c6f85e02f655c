---------------------------- MODULE RxLifecycle -----------------------------
(***************************************************************************)
(* The life of the RandomX cache, dataset and VMs in the native addon:     *)
(* src/algo/randomx/rx.cpp, rx_worker.cpp and the thread control of        *)
(* rx_job.cpp.                                                             *)
(*                                                                         *)
(* Three kinds of thread meet here.  The JavaScript thread calls allocate, *)
(* reallocate, start and stop and runs the completion of an allocation.    *)
(* An AllocateWorker runs Execute on a libuv pool thread.  A mining thread *)
(* runs RxJob::Loop.  They share the mutex lifecycle, the atomics pending, *)
(* updating and active_vms of Rx, and m_active and m_live of RxJob.        *)
(*                                                                         *)
(* The content of cache and dataset is the seed it was computed from.  The *)
(* datasets of the NUMA nodes are one: a node without a dataset falls back *)
(* to node 0.  Spin counts become a choice: a wait that the code bounds    *)
(* may time out whenever what it waits for has not happened.               *)
(***************************************************************************)
EXTENDS Integers, FiniteSets

CONSTANTS
    Threads,    \* mining threads of a job
    Workers,    \* allocations in flight at most
    Seeds,      \* seed hashes
    Fast,       \* m_mode = RxMode::Fast: VMs read a dataset
    Tries       \* bound: kVmAcquireTries, scaled down

ASSUME LifecycleAssumption ==
    /\ IsFiniteSet(Threads) /\ IsFiniteSet(Workers)
    /\ Threads \intersect Workers = {}
    /\ Fast \in BOOLEAN
    /\ Tries \in Nat \ {0}

Nobody == "nobody"
Null   == "null"     \* no cache, no dataset
Torn   == "torn"     \* a dataset that is being written
NoVm   == [held |-> FALSE, cache |-> Null, data |-> Null]

ASSUME NamesAssumption ==
    /\ Nobody \notin Threads \union Workers
    /\ Null \notin Seeds /\ Torn \notin Seeds

VARIABLES
    lifecycle,  \* who holds the mutex Rx::lifecycle
    pending,    \* Rx::pending, allocations not completed
    updating,   \* Rx::updating
    active_vms, \* Rx::active_vms
    cache,      \* the seed of Rx::cache
    data,       \* the seed of the dataset
    worker,     \* worker[w]: where Execute of allocation w is
    seed,       \* seed[w]: the seed it was queued with
    thread,     \* thread[t]: where RxJob::Loop of thread t is
    tries,      \* tries[t]: failed calls of create_vm since AcquireVm began
    vm,         \* vm[t]: what the VM of thread t was created over
    m_active,   \* RxJob::m_active
    js          \* the JavaScript thread: running, or joining in StopLoop

rx   == <<lifecycle, pending, updating, active_vms, cache, data>>
vars == <<lifecycle, pending, updating, active_vms, cache, data,
          worker, seed, thread, tries, vm, m_active, js>>

\* m_live: threads whose LiveGuard has not run.
Live == {t \in Threads : thread[t] \notin {"off", "exit"}}

Init ==
    /\ lifecycle = Nobody
    /\ pending = 0 /\ updating = FALSE /\ active_vms = 0
    /\ cache = Null /\ data = Null
    /\ worker = [w \in Workers |-> "none"]
    /\ seed \in [Workers -> Seeds]
    /\ thread = [t \in Threads |-> "off"]
    /\ tries = [t \in Threads |-> 0]
    /\ vm = [t \in Threads |-> NoVm]
    /\ m_active = FALSE
    /\ js = "run"

-----------------------------------------------------------------------------
(* The JavaScript thread.                                                  *)

\* Rx::queue_allocate
Allocate(w, s) ==
    /\ js = "run"
    /\ worker[w] = "none"
    /\ pending' = pending + 1
    /\ updating' = TRUE
    /\ worker' = [worker EXCEPT ![w] = "queued"]
    /\ seed' = [seed EXCEPT ![w] = s]
    /\ UNCHANGED <<lifecycle, active_vms, cache, data, thread, tries, vm, m_active, js>>

\* mutant: every completion lowers the flag
SettleClears(w) ==
    /\ js = "run"
    /\ worker[w] \in {"ok", "failed"}
    /\ pending' = pending - 1
    /\ updating' = FALSE
    /\ worker' = [worker EXCEPT ![w] = "none"]
    /\ UNCHANGED <<lifecycle, active_vms, cache, data, seed, thread, tries, vm, m_active, js>>

\* AllocateWorker::OnOK and OnError: Clear, and the promise settles.
Settle(w) ==
    /\ js = "run"
    /\ worker[w] \in {"ok", "failed"}
    /\ pending' = pending - 1
    /\ updating' = IF pending = 1 THEN FALSE ELSE updating
    /\ worker' = [worker EXCEPT ![w] = "none"]
    /\ UNCHANGED <<lifecycle, active_vms, cache, data, seed, thread, tries, vm, m_active, js>>

\* RxJob::Start while threads are alive only unpauses; otherwise it stops
\* what is left of the last run first.
Start ==
    /\ js = "run"
    /\ ~ (m_active /\ Live # {})
    /\ m_active' = FALSE
    /\ js' = "restart"
    /\ UNCHANGED <<rx, worker, seed, thread, tries, vm>>

\* RxJob::Stop
Stop ==
    /\ js = "run"
    /\ m_active' = FALSE
    /\ js' = "stop"
    /\ UNCHANGED <<rx, worker, seed, thread, tries, vm>>

\* StopLoop returns once every thread has ended; Start then starts new ones.
Joined ==
    /\ js \in {"restart", "stop"}
    /\ Live = {}
    /\ thread' = [t \in Threads |-> IF js = "restart" THEN "acquire" ELSE "off"]
    /\ tries' = [t \in Threads |-> 0]
    /\ m_active' = (js = "restart")
    /\ js' = "run"
    /\ UNCHANGED <<rx, worker, seed, vm>>

-----------------------------------------------------------------------------
(* AllocateWorker::Execute, on a pool thread.                              *)

Enter(w) ==
    /\ worker[w] = "queued"
    /\ lifecycle = Nobody
    /\ lifecycle' = w
    /\ worker' = [worker EXCEPT ![w] = "drain"]
    /\ UNCHANGED <<pending, updating, active_vms, cache, data, seed, thread, tries, vm, m_active, js>>

Leave(w, outcome) ==
    /\ lifecycle' = Nobody
    /\ worker' = [worker EXCEPT ![w] = outcome]
    /\ UNCHANGED <<pending, updating, active_vms, seed, thread, tries, vm, m_active, js>>

\* kDrainSpins are over and a VM is still alive.
DrainTimeout(w) ==
    /\ worker[w] = "drain"
    /\ active_vms > 0
    /\ Leave(w, "failed")
    /\ UNCHANGED <<cache, data>>

\* mutant: nobody waits for the VMs
DrainedEarly(w) ==
    /\ worker[w] = "drain"
    /\ cache' = Null
    /\ worker' = [worker EXCEPT ![w] = "build"]
    /\ UNCHANGED <<lifecycle, pending, updating, active_vms, data, seed,
                   thread, tries, vm, m_active, js>>

\* The VMs are gone: the old cache is released.
Drained(w) ==
    /\ worker[w] = "drain"
    /\ active_vms = 0
    /\ cache' = Null
    /\ worker' = [worker EXCEPT ![w] = "build"]
    /\ UNCHANGED <<lifecycle, pending, updating, active_vms, data, seed,
                   thread, tries, vm, m_active, js>>

\* randomx_alloc_cache fails.
CacheFails(w) ==
    /\ worker[w] = "build"
    /\ Leave(w, "failed")
    /\ UNCHANGED <<cache, data>>

\* mutant: a dataset that exists is taken as it is
CacheBuiltOnly(w) ==
    /\ worker[w] = "build"
    /\ cache' = seed[w]
    /\ IF Fast /\ data = Null
       THEN /\ worker' = [worker EXCEPT ![w] = "dataset"]
            /\ UNCHANGED <<lifecycle, pending, updating, active_vms, data, seed,
                           thread, tries, vm, m_active, js>>
       ELSE Leave(w, "ok") /\ UNCHANGED data

\* The cache is computed; in fast mode the dataset is reserved and written.
CacheBuilt(w) ==
    /\ worker[w] = "build"
    /\ cache' = seed[w]
    /\ IF Fast
       THEN /\ worker' = [worker EXCEPT ![w] = "dataset"]
            /\ UNCHANGED <<lifecycle, pending, updating, active_vms, data, seed,
                           thread, tries, vm, m_active, js>>
       ELSE Leave(w, "ok") /\ UNCHANGED data

\* Reserve keeps a dataset it has; a first one may not be had.
ReserveFails(w) ==
    /\ worker[w] = "dataset"
    /\ data = Null
    /\ Leave(w, "failed")
    /\ UNCHANGED <<cache, data>>

\* init_parallel starts to overwrite the dataset, and joins its threads.
WriteDataset(w) ==
    /\ worker[w] = "dataset"
    /\ data' = Torn
    /\ worker' = [worker EXCEPT ![w] = "write"]
    /\ UNCHANGED <<lifecycle, pending, updating, active_vms, cache, seed,
                   thread, tries, vm, m_active, js>>

DatasetBuilt(w) ==
    /\ worker[w] = "write"
    /\ data' = seed[w]
    /\ Leave(w, "ok")
    /\ UNCHANGED cache

-----------------------------------------------------------------------------
(* RxJob::Loop, on a mining thread.                                        *)

Goto(t, place) == thread' = [thread EXCEPT ![t] = place]

\* AcquireVm: another call of create_vm, which wants the mutex.
TryCreate(t) ==
    /\ thread[t] = "acquire"
    /\ m_active /\ tries[t] < Tries
    /\ Goto(t, "lock")
    /\ UNCHANGED <<rx, worker, seed, tries, vm, m_active, js>>

\* AcquireVm returns nothing, and the thread ends.
GiveUp(t) ==
    /\ thread[t] = "acquire"
    /\ ~ m_active \/ tries[t] = Tries
    /\ Goto(t, "leave")
    /\ UNCHANGED <<rx, worker, seed, tries, vm, m_active, js>>

Locked(t) ==
    /\ thread[t] = "lock"
    /\ lifecycle = Nobody
    /\ lifecycle' = t
    /\ Goto(t, "create")
    /\ UNCHANGED <<pending, updating, active_vms, cache, data, worker, seed, tries, vm, m_active, js>>

\* What create_vm asks of Rx before it makes a VM.
CanCreate == cache # Null /\ ~ updating /\ (Fast => data # Null)

\* Rx::create_vm returns a VM.
Create(t) ==
    /\ thread[t] = "create"
    /\ CanCreate
    /\ vm' = [vm EXCEPT ![t] = [held |-> TRUE, cache |-> cache, data |-> data]]
    /\ active_vms' = active_vms + 1
    /\ lifecycle' = Nobody
    /\ Goto(t, "mine")
    /\ UNCHANGED <<pending, updating, cache, data, worker, seed, tries, m_active, js>>

\* It returns none, as it may not or for want of memory; AcquireVm sleeps.
CreateFails(t) ==
    /\ thread[t] = "create"
    /\ lifecycle' = Nobody
    /\ tries' = [tries EXCEPT ![t] = @ + 1]
    /\ Goto(t, "acquire")
    /\ UNCHANGED <<pending, updating, active_vms, cache, data, worker, seed, vm, m_active, js>>

DropVm(t) ==
    /\ vm' = [vm EXCEPT ![t] = NoVm]
    /\ active_vms' = active_vms - 1

\* mutant: the thread waits with its VM
YieldWithVm(t) ==
    /\ thread[t] = "mine"
    /\ m_active /\ updating
    /\ Goto(t, "wait")
    /\ UNCHANGED <<rx, worker, seed, tries, vm, m_active, js>>

\* An update is under way: the VM goes, and the thread waits.
Yield(t) ==
    /\ thread[t] = "mine"
    /\ m_active /\ updating
    /\ DropVm(t)
    /\ Goto(t, "wait")
    /\ UNCHANGED <<lifecycle, pending, updating, cache, data, worker, seed, tries, m_active, js>>

\* mutant: a stop does not end the wait
ResumeStubborn(t) ==
    /\ thread[t] = "wait"
    /\ ~ updating
    /\ tries' = [tries EXCEPT ![t] = 0]
    /\ Goto(t, "acquire")
    /\ UNCHANGED <<rx, worker, seed, vm, m_active, js>>

\* The update is over, or the job has been stopped.
Resume(t) ==
    /\ thread[t] = "wait"
    /\ ~ (updating /\ m_active)
    /\ tries' = [tries EXCEPT ![t] = 0]
    /\ Goto(t, "acquire")
    /\ UNCHANGED <<rx, worker, seed, vm, m_active, js>>

\* The job has been stopped: the VM goes, then LiveGuard.
Quit(t) ==
    /\ thread[t] = "mine"
    /\ ~ m_active
    /\ DropVm(t)
    /\ Goto(t, "leave")
    /\ UNCHANGED <<lifecycle, pending, updating, cache, data, worker, seed, tries, m_active, js>>

\* RxJob::LiveGuard: the last thread to end clears m_active.
Exit(t) ==
    /\ thread[t] = "leave"
    /\ Goto(t, "exit")
    /\ m_active' = IF Live = {t} THEN FALSE ELSE m_active
    /\ UNCHANGED <<rx, worker, seed, tries, vm, js>>

-----------------------------------------------------------------------------
Js == (\E w \in Workers : Settle(w) \/ \E s \in Seeds : Allocate(w, s)) \/ Start \/ Stop \/ Joined

\* What Execute does of itself, the time-out of the drain apart.
Execute(w) ==
    \/ Enter(w) \/ Drained(w) \/ CacheFails(w) \/ CacheBuilt(w)
    \/ ReserveFails(w) \/ WriteDataset(w) \/ DatasetBuilt(w)

Worker(w) == Execute(w) \/ DrainTimeout(w)

Thread(t) ==
    \/ TryCreate(t) \/ GiveUp(t) \/ Locked(t) \/ Create(t) \/ CreateFails(t)
    \/ Yield(t) \/ Resume(t) \/ Quit(t) \/ Exit(t)

Next == Js \/ (\E w \in Workers : Worker(w)) \/ (\E t \in Threads : Thread(t))

Spec == Init /\ [][Next]_vars

\* Every thread keeps running.  A mutex that is free again and again is had
\* in the end, by the pool and by a mining thread (which sleeps 50 ms between
\* two calls of create_vm), and a completion is run by the event loop
\* whatever else it runs.  Nothing makes a caller allocate, start or stop, and
\* nothing makes a drain time out.
Fairness ==
    /\ WF_vars(Joined)
    /\ \A w \in Workers :
        /\ WF_vars(Execute(w))
        /\ SF_vars(Enter(w))
        /\ SF_vars(Settle(w))
    /\ \A t \in Threads : WF_vars(Thread(t)) /\ SF_vars(Locked(t))

FairSpec == Spec /\ Fairness

-----------------------------------------------------------------------------
Rebuilding(w) == worker[w] \in {"build", "dataset", "write"}

Holding == {t \in Threads : vm[t].held}

\* Type invariant.
TypeOK ==
    /\ lifecycle \in Threads \union Workers \union {Nobody}
    /\ pending \in Nat /\ updating \in BOOLEAN /\ active_vms \in Nat
    /\ cache \in Seeds \union {Null} /\ data \in Seeds \union {Null, Torn}
    /\ worker \in [Workers -> {"none", "queued", "drain", "build", "dataset", "write", "ok", "failed"}]
    /\ seed \in [Workers -> Seeds]
    /\ thread \in [Threads -> {"off", "acquire", "lock", "create", "mine", "wait", "leave", "exit"}]
    /\ tries \in [Threads -> 0 .. Tries]
    /\ vm \in [Threads -> [held : BOOLEAN, cache : Seeds \union {Null},
                           data : Seeds \union {Null, Torn}]]
    /\ m_active \in BOOLEAN
    /\ js \in {"run", "restart", "stop"}

\* While a cache or dataset is released, computed or written, no thread holds
\* a VM over it: the count a worker drains counts every VM, and none can be
\* made while the worker has the mutex (Execute, create_vm, ~RxVm).
RebuildAlone ==
    \A w \in Workers : Rebuilding(w) => Holding = {}

\* A VM in use reads the cache and the dataset Rx has now, both computed to
\* the end and from the same seed, whatever allocations failed or timed out
\* (Execute, Reserve, create_vm).
VmCoherent ==
    \A t \in Holding :
        /\ vm[t].cache = cache /\ vm[t].data = data
        /\ cache \in Seeds
        /\ Fast => data = cache

\* updating is up exactly while an allocation has not completed, with any
\* number of them overlapping (queue_allocate, Clear).
UpdatingWhilePending ==
    /\ updating <=> pending > 0
    /\ pending = Cardinality({w \in Workers : worker[w] # "none"})

\* An allocation ends, whatever the mining threads and the callers of start
\* and stop do, and without the time-out of its drain: no VM is held by a thread
\* that waits for the mutex, or by one that will not see updating.
AllocationEnds ==
    \A w \in Workers : worker[w] = "queued" ~> worker[w] = "none"

\* start and stop return: StopLoop never waits on a thread that waits on it.
StopReturns == js # "run" ~> js = "run"
=============================================================================
