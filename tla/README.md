# NMiner in TLA+

A verification project for NMiner: a RandomX CPU miner (a native Node.js addon
driven from TypeScript) and NMinerProxy, a clustered stratum proxy that serves
many miners over a few pool connections. Paths are relative to the repository
(`src/js/...`, `src/algo/...`, `index.ts`).

* TLC checks each module on small instances: `tlc -config X.cfg M.tla`.
* TLAPS checks the proofs: `tlapm M.tla` for `NonceGrantsProofs`, `RxJobProofs`, `MinerProofs`,
  `UpstreamProofs`, `DatagramProofs`, `VarDiffProofs`, `SessionsProofs` and
  `WorkersProofs`.

## 1. The system

```
 miners --ws/wss--> net server --socket--> worker: Edge    --+
        --udp-----> UdpRouter ---ipc-----> worker: UdpEdge --+-> WorkerBackend
                                                                     | ipc, batched
                                       primary: PrimaryHub -> LocalBackend
                                                                |        \
                                                            Upstream     VarDiff
                                                    links, homes, ledgers
                                                                |  nonce.ts
                                                         StratumClient -> pool

 miner:  NMiner (index.ts) -> StratumClient -> pool or proxy
                           -> addon: RxJob, mining threads -> Rx, AllocateWorker
```

| Component | State it keeps | Operations | What makes it hard | What makes it correct |
|---|---|---|---|---|
| nonce.ts: allocator, `Ledger` | a space (segments, index, cursor); a ledger (current and previous job's ranges) | `createSpace`, `spaceLeft`, `take`, `record`, `owns` | the end of a segment, the top of the space, adjacent ranges, miners that change jobs | no nonce granted twice or skipped; late shares credited, foreign nonces denied |
| upstream.ts: `Upstream` | links, their job, space, clients and load; homes, live, ledgers | `attach`, `detach`, `chunk`, `submit`, `accept`, `sever`, `migrate`, `rebalance`, `consolidate`, `close` | what runs between the await in `pick` and the code after it; links that fail while miners wait, move or leave | a miner is on one link that lists it and has its job; nobody is forgotten; nobody who left keeps a slot; `maxLinks` |
| rx.cpp, rx_worker.cpp, thread control of rx_job.cpp | cache, dataset, VMs; `lifecycle`, `pending`, `updating`, `active_vms`, `m_active`, `m_live` | `allocate`, `reallocate`, `create_vm`, `start`, `stop` | JS thread, pool threads and mining threads over one mutex and some atomics; failures half-way | no VM over memory that is rewritten; cache and dataset of one seed; no deadlock |
| rx_job.cpp: `RxJob` | job, version, nonce ranges, found shares | `send_job`, `queue_range`, `NextNonce`, `SubmitShare`, `FlushHash`, pause and throttle | threads read job, version and range while JS replaces them | a share is reported with the job and range it was found for |
| hub.ts: `LocalBackend` | session -> entry (miner, upstream, vardiff) | `login`, `chunk`, `submit`, `account`, `close`, `reset` | `login` awaits the resolver and `attach`; a session may close or log in again meanwhile | one entry per session that is open; credited work is proven work |
| hub.ts: `WorkerBackend`, `PrimaryHub` | the worker's mirror of targets and ledger, tallies, calls under way; the primary's sessions of each worker | `login`, `submit`, `tally`, `flush`, `learn`, `bye`, `evict`, `handle` | batches, late and expired answers, a worker that dies | the mirror owns no nonce the primary did not grant; every tallied share is accounted once |
| vardiff.ts: `VarDiff` | issue, prior, ceiling, estimate | `tune`, `floor`, `settle`, `submitted`, `observe` | shares in flight over a retune | never above the pool's target; a share that was good when found is not denied |
| udp.ts: `Datagram` | numbers, outbox, window of numbers seen | `send`, `resend`, `receive`, `stop` | lost, repeated, reordered datagrams; time-outs | delivered at most once, and once unless the link is given up |
| edge.ts: `UdpEdge`, `UdpRouter` | the peers of a worker; the routes of the primary | `greet`, `receive`, `drop`, `kill`; `inbound`, `pick`, `forget`, `evict` | what is late drops and forgets by address alone | a peer stays with the worker that knows it |
| edge.ts: `Edge` | the sessions of one worker | frames in and out | login, submit and close in any order | answers go to who asked |
| fleet.ts, worker.ts: `Fleet` | children, load, queued sockets | `spawn`, `dispatch`, `hand`, exit | exits and back-off with sockets queued | workers come back; no socket waits in vain; load is true |
| connect.ts: `StratumClient` | requests under way, session | `login`, `submit`, `keepalive`, close | time-outs, jobs before the login's answer | a request settles once |
| index.ts: `NMiner` | connection, job, seed, versions, the poll for chunks, timers | `reconnect`, `on_job`, `schedule_chunk_poll`, `close` | `on_job` awaits a dataset for minutes, and the connection may go and come meanwhile | threads mine for a pool that is there, over the dataset of their job; shares of the last jobs find theirs |
| index.ts: `NMinerProxy` | hub, fleet, router | `switch_pool`, statistics | | |
| bytecode_machine.cpp and the compilers: RandomX programs | registers, memory, rounding mode; per compiler the code, its offsets and the table of last writes | compile and run, instruction by instruction | five back ends, each with its own treatment of immediates, swaps, reciprocals and branches | the same result everywhere |
| superscalar.cpp, dataset.cpp: dataset items | the superscalar programs, pools of reciprocals | execute, compile | reciprocals are found again by counting, one ahead | the same item everywhere |
| superscalar.cpp, argon2_*.c: the cache | the state of the generator; the memory and the registers of three fills | `generateSuperscalar`, `fill_segment` | waits and retries of the generator; blocks carried in registers | programs a processor executes as scheduled; one cache on every processor |
| topology, logger, crypto, utils, main.cpp; AES, Blake2, the hash pipeline, virtual memory; hwloc | | | | no interacting state, or third-party code |

`PROJECT.json` lists these parts with their status, and every hazard at the
line where it bites.

## 2. The modules

| Module | Of | Role |
|---|---|---|
| `NonceSpace` | nonce.ts | `take`, `spaceLeft`, `record`, `owns` as operators |
| `NonceGrants` | nonce.ts, and the calls upstream.ts makes | jobs, grants, refusals and departures as a state machine |
| `NonceOnce` | | abstract: the nonces of a job are a stock, a grant moves some to one miner, nothing comes back |
| `NonceGrantsProofs` | | theorems about `NonceGrants` |
| `RxLifecycle` | rx.cpp, rx_worker.cpp, rx_job.cpp | cache, dataset, VMs, threads and the JS thread |
| `RxJob` | rx_job.cpp | jobs, nonce ranges and shares between the JavaScript thread and the mining threads |
| `RxJobProofs` | | theorems about `RxJob` |
| `Upstream` | upstream.ts, `login` and `close` of hub.ts | links, housing, migration, sweeps, loss and close on one event loop |
| `UpstreamProofs` | | theorems about `Upstream` |
| `Datagram` | udp.ts | one direction of a link: outbox, retransmission, window, and the network |
| `ReliableLink` | | abstract: every payload at most once, and once unless the link is given up |
| `DatagramProofs` | | theorems about `Datagram` |
| `VarDiff` | vardiff.ts, `chunk` and `submit` of hub.ts | the difficulty of one miner, with targets and shares in flight |
| `VarDiffProofs` | | theorems about `VarDiff` |
| `Sessions` | hub.ts, fleet.ts (channels), the gate of edge.ts | a miner's session in its worker, in the hub and in `LocalBackend`, over two channels |
| `SessionsProofs` | | theorems about `Sessions` |
| `Workers` | fleet.ts, worker.ts, edge.ts | the fleet, the router and the UDP peers of its workers |
| `WorkersProofs` | | theorems about `Workers` |
| `Miner` | index.ts, connect.ts | from the connection to the job the native code works on |
| `MinerProofs` | | theorems about `Miner`, about `RxLifecycle`, the memory it has allocated, and about `RxCache`, what fills it |
| `RxIsa` | configuration.h, common.hpp, instruction.hpp | words, fields of instructions, memory, floating point |
| `RxInterpreter` | bytecode_machine.cpp | `compileInstruction`, `executeInstruction` |
| `RxCpu` | | the processors the emitted code runs on (external) |
| `RxX86`, `RxA64`, `RxRv64`, `RxRv64Vector`, `RxAsm` | jit_compiler_*.cpp, assembly_generator_x86.cpp | the code emitted for each instruction |
| `RxItems` | superscalar.cpp, dataset.cpp, the compilers | superscalar programs and their reciprocals |
| `RxPrograms` | | composes the back ends: compiles one program on all of them and runs it in step |
| `RxSuperscalar` | superscalar.cpp | the generator |
| `RxArgon` | argon2_core.c, argon2_ref.c, argon2_ssse3.c, argon2_avx2.c | the fill of the memory, three times |
| `RxCache` | dataset.cpp (`initCache`) | composes the two: the memory is filled, then programs are generated |
| `MCNonceGrants`, `MCRxLifecycle`, `MCRxJob`, `MCUpstream`, `MCDatagram`, `MCVarDiff`, `MCSessions`, `MCWorkers`, `MCMiner`, `MCRxPrograms`, `MCRxCache` | | small instances |

Operators whose comment begins with "mutant:" are plausible mistakes in the
definition that follows them. Substituted for it, each makes TLC find a named
property violated (`PROJECT.json`, "mutants"): they show that the property
depends on the code.

### NonceSpace, NonceGrants, NonceOnce

A space is `[segments, index, cursor]`, as in the code, with `index` counted
from 1. `Take` is the loop of `take`: the first segment with something to cut,
a grant of at most `count` nonces, cut at 0xFFFFFFFF while the cursor moves by
the whole size. That cut is why the last nonce of a job is never granted and
why a segment may be used up without yielding anything. `createSpace` drops
segments of size 0; the model keeps them and steps over them.

`NonceGrants` lets any miner be granted from any link in any order. That
includes every order `Upstream` can produce, so where miners are housed need
not be known. The number of nonces asked for (`chunkSize`, computed from
hashrate and deadline) is any member of `Counts`. `given` is a history of all
grants; when a miner leaves, its grants stay in the history without an owner.

`NonceOnce` is what the README of the repository promises ("it slices the
nonce space so no two miners overlap"). The refinement maps the stock to the
nonces ahead of the cursor and what a miner holds to its grants. The nonces
behind the cursor are not part of the mapping: that they were all granted is
`GrantedIsBehind`.

### RxLifecycle

| Variable | Code |
|---|---|
| `lifecycle`, `pending`, `updating`, `active_vms` | the members of `Rx` of these names |
| `cache`, `data` | the seed `Rx::cache` and `Rx::datasets` hold; `Torn` while written |
| `worker[w]`, `seed[w]` | how far `AllocateWorker::Execute` is, with which seed |
| `thread[t]`, `tries[t]`, `vm[t]` | how far `RxJob::Loop` is, calls of `create_vm` left, what its VM was made over |
| `m_active`, `js` | `RxJob::m_active`; whether the JavaScript thread runs or is in `StopLoop` |

Each step between two operations that other threads can see is an action:
queue, enter (lock), drain or time out, release the cache, build it, reserve
and write the dataset, complete; acquire, lock, create, mine, yield, resume,
quit, exit. A wait with a bounded number of turns may time out whenever what it
waits for has not happened. The check in `create_vm` and the creation are one
action, for both are under the mutex. Mining itself changes none of this
state and is the time a thread spends in "mine".

Left out: the change of the algorithm variant, release on destruction, NUMA
(the datasets of the nodes are one), pause and throttle.

### Upstream

All of upstream.ts runs on one event loop. `todo` is what it has to do before
it takes another event: the calls a handler still makes, then the continuations
of settled promises in the order they settled. `waiting[l]` is who awaits
`Link.connecting`: first the task that opened the link, then those that found
it connecting. When the link is up or has failed, the opener's `pick` returns
(or falls back to the roomiest link it saw before the await), and the others
turn the loop of `pick` again; what follows `pick` in `attach` or `migrate` runs
after that. Everything the code does between two awaits is one action or an
uninterrupted chain of them.

| Action | Code |
|---|---|
| `RunPick` | one turn of the loop of `pick` |
| `RunAttached`, `RunMigrated` | what follows `pick` in `attach`, in `migrate` |
| `RunRenew`, `RunMove`, `RunRehome` | the loops over miners of `accept`, of `rebalance` and `consolidate`, of `sever` |
| `RunSweep`, `RunConsolidate` | one link of `rebalance`; `consolidate` |
| `Login`, `Detach`, `Chunk` | the calls of the hub |
| `Connected`, `LinkUp`, `OpenFails`, `LostEarly` | `open`, the ways it goes on and ends |
| `Job`, `Lost`, `Rebalance`, `Close` | events "job" and "close", the timer, `close()` |

Two placements of one miner can be under way at once: a migration of `rebalance` and
one of `consolidate`, or a migration and the attach of `sever`. What that breaks is
in section 3; `crossed` is a history variable with the miners it has happened
to, and the properties that it breaks are stated of the others. Two more histories
are as narrow: `adrift` has the miners that were put on a link that had gone when it
was used, or whose link sent a job and was refused the login; `behind` has those that
came to a link without grants, by a migration from a link that had no socket. A miner
leaves `adrift` with that link, and `behind` when it has the job of its link again.

Abstractions: miners have one hashrate, so load is a count (`report` changes
nothing then); which link has room or is the roomiest, how many miners a sweep
moves and when an idle link has expired is a choice; a space is a number of
grants; a miner's push follows its housing at once (in `sever` the push is one
promise turn later). A miner logs in once: another login is a new
`UpstreamClient` in the code too. `Link` objects are used again only when
nothing refers to them.

### Datagram, ReliableLink

A payload is its number. `wire` and `acks` hold what was written at any time: a
copy may arrive any number of times, or never, and in any order. One thing is
assumed of the network (`Timely`): a copy is not so late that a number `Lag` or
more above it has arrived. Due times are a choice (`Resend`, `GiveUp` take any
part of the outbox), and so is when the owner drops the link (`Stop`). A handler
may still answer on a link that was stopped: `Send` is possible then, and what
becomes of that payload is nobody's promise.

`seen` is kept in order of arrival, not of number, so a window of `Window`
numbers is no protection by itself. `DatagramAssumption` says what it takes,
`2 * Lag - 2 < Window`; with `Lag` one larger TLC finds a payload delivered twice.
For the window of 256 in udp.ts this is a copy 129 or more numbers late.

### VarDiff

Targets keep their arithmetic, on scales that are constants: a compact target is
the inverse of a difficulty in `U32`, a long one in `U64`, each rounded down.
Only the scales are small in the runs. What the hashrate estimate asks for is any
of `Wants`; the ratio of 1.3 is compared in integers. Targets reach the miner in
order and shares come back in order, as over one socket. `number` counts what was
issued, so that a share remembers which target it was found under; `early` holds
the issues settled by a share that was found before them. The job of the link
may change without the miner hearing of it (`NewPool`): its link has no nonce left
for it. The nonce of a share is one the miner owns.

### Sessions

A session lives in three places: the worker (`open`, `logged`, its mirror `known`,
its `tally` and its `calls`), the registry of the primary (`hub`), and
`LocalBackend` with the upstream (`entry`, `live`, `housed`, `ledger`). Two channels
join them: `up[w]` and `down[w]`.

| Action | Code |
|---|---|
| `Connect`, `AskLogin`, `AskChunk`, `Submit`, `Close` | what a miner makes its worker do |
| `Flush`, `Expire` | the two timers of `WorkerBackend` |
| `Answered`, `Pushed` | its handler of messages, with `learn` |
| `Die` | the process ends |
| `HandleLogin`, `HandleChunk`, `HandleSub`, `HandleAcc`, `HandleBye` | `PrimaryHub.handle`, by kind of message |
| `Resolved`, `Refused` | `login` goes on after the resolver |
| `Attached`, `AttachFails`, `Superseded` | `login` goes on after `attach` |
| `Evict`, `Reset` | `evict` when the process has exited; `reset` by `switch_pool` |
| `NewJob`, `Drop` | what the upstream does to a housed client |

The call of a login, `<<session, i>>`, also names the `UpstreamClient` it makes, so
that two logins of one session are two clients. `owed`, `cut` and `late` are
history variables: shares acknowledged and not accounted for yet, sessions whose
entry went or was replaced while they lived (by another login, a reset, or an attach
that failed), clients entered for a session that was gone or overwritten by another
when they were housed.

Abstractions: a batch is its messages, one by one and in order, as IPC keeps them;
the exit of a process is seen after its last message, and a process that dies
loses any suffix of what it had not written; a respawned worker is another one. A kill
message leads to `Close`, which is possible at any time, and is not sent. A grant is
a number, never given twice (that is `NoOverlap` of `NonceGrants`); the jobs of a
session are numbered in the order it is given them. A miner searches ranges of the
job it claims. The mirror of the targets follows the rule of `VarDiff` and is left
out, as is the hashrate; a share below the floor changes nothing and is no step.

### RxJob

| Variable | Code |
|---|---|
| `m_active`, `m_paused`, `updating` | the atomics of these names |
| `job` | `m_blob` (the blob stands for `m_target` and `m_size` too), `m_job_version`, `m_ranged` |
| `m_range`, `m_queued` | the range in one atomic word, and the queue behind `m_range_mutex` |
| `read` | the range `SendJob` has read and will store, while threads move it |
| `pc[t]`, `th[t]` | where `Loop` is; its locals, with the input the VM works on |
| `out` | `m_inflight`, the queue of the thread-safe function, whether it is referenced |

| Action | Code |
|---|---|
| `SendBlob`, `SendRange` or `SendKeep` and `SendClamp`, `SendVersion` | `SendJob`, between the writes that threads can see |
| `QueueRange`, `Wake`, `Unpause`, `Pause` | the calls of these names, and `Start` of a job that runs |
| `StopLoop`, `Stop`, `Start`, `RunCall` | `Stop` and `Start` around the join; a queued call is run |
| `Acquired`, `NoVm`, `Quit`, `Yield`, `Resume`, `Outdated`, `Copy`, `Current` | the head of `Loop` |
| `NoNonce`, `Take`, `Exhausted`, `AdvanceRange`, `NoRange` | `NextNonce` and `AdvanceRange` |
| `Hash` | `hash_first` or `hash_next`, with the share of the input before |
| `WaitForWork`, `HasWork`, `Sleep` | the predicate, in its three reads, and the sleep of 250 ms |
| `Leave`, `Last` | `LiveGuard` |

A thread that waits holds `m_cv_mutex` from its first look to the sleep, so that no `Wake` comes
in between. But `AdvanceRange` has only `m_range_mutex`: another thread may move a range from
the queue to `m_range` after one has looked there and before it looks into the queue. What
`WaitForWork` reads in one step is written by the JavaScript thread alone, which
calls `Wake` after it; `updating` is the exception.

RandomX works one input ahead; `FlushHash` is part of every action that leaves
an input behind. `taken`, `examined`, `given` and `gen` are histories of the nonces.
`crossed` says that a `Start` was run with the `Unref` of the run before still queued.

### Miner

One event loop. `conn[c]` is a `StratumClient`: its socket, the job it holds back
until `login` returns, whether `NMiner` listens, and where `reconnect` is. `calls` is the
queue behind the lock of `on_job`; `alloc` says whether the call at its head
awaits the dataset. Everything between two awaits is one action.

| Action | Code |
|---|---|
| `Reconnect`, `Connected`, `ThreadsCounted`, `LoggedIn`, `LoginFails` | `reconnect`, await by await |
| `Push`, `Lost`, `Close` | a job, the end of a connection, `close()` |
| `SameJob`, `Sent`, `Reallocate`, `Restart`, `Reallocated`, `ReallocateFails` | `on_job` |
| `Poll`, `Answered`, `AnsweredJob` | `schedule_chunk_poll` and the answer to `get_chunk` |

`late`, `reused` and `deaf` are histories of what section 3 lists as disagreements: an
allocation that outlived its connection, a job met again after the versions were
cleared, a connection lost while `MaxThreads` was awaited.

### Workers

A worker is a state, a load, and two queues that keep their order. `Disconnect` and `Exit`
are two events, as in Node: between them `alive()` and `all()` differ. `peers[w][k]`
is the peer that `UdpEdge` of worker `w` has at the address `k`, and `routes[k]` the
worker the router sends its datagrams to. A `stray` is something that will act on a
key later: a handler that awaits, a kill timer, an answer that is not
acknowledged. It ends well (`StrayEnds`), or drops the key (`StrayDrops`), whichever
peer the key stands for by then; `crossed` is the history of the keys this
happened to. The mode in which the operating system spreads the datagrams over
workers (`reusePort`) has no router and is left out; so are encryption, the login gate
of a peer and the rate limit of greetings.

### RandomX programs

`RxPrograms` generates a program, one instruction at a time, from an
alphabet, lets `RxInterpreter` and every compiler translate each instruction with the
state it keeps (offsets, table of last writes, literals used), and then runs the
bytecode and the emitted code of each processor in step. The invariants compare
registers, memory, rounding mode and position after every instruction.

The words are short and the arithmetic is real: `WordBits` and `ImmBits` are constants
(64 and 32 in the code), and sign extension, wrap-around, shifts, high products,
reciprocals and the address masks follow them. Memory is the set of words that
were stored. A floating point operation is an uninterpreted function of its operands
and the rounding mode, so that an operand or a mode that differs shows. What is
emitted is an instruction of the processor with its operands, not its encoding:
bytes, prologues, the loop around a program, and the AES mixing of V2 are left out.
What the processors do with these instructions (`RxCpu`) is external.

`RxItems` does the same for the programs of a dataset item, compiled as a
list because their reciprocals are numbered first. `ReachWords` scales the reach
of a 12 bit offset, which decides when the RISC-V compilers move the pool pointer.

### The cache

`RxSuperscalar` has the generator's simulated processor: decode buffers (`buffer`), three
ports, the registers with the cycle each is ready and the group and operand last
applied to it. What Blake2 draws is a choice. `IssueOp`, `SelectDestination`, `Place`,
`IssueSelecting`, `Discard`, `Saturate` and `EndBuffer` are the ways through the loops of
`generateSuperscalar`.

`RxArgon` fills the lanes block by block, with the reference area of
`randomx_argon2_index_alpha` computed in integers, and keeps what the vector forms
hold in registers (`carried`) next to what the portable form reads. The rounds are modelled by
the words each of them gives to `G`, in which order and where they go back to, for
the layouts of 64, 128 and 256 bit registers. A block's content is the pass
that wrote it.

## 3. What is checked

| Run | Shows | States |
|---|---|---|
| `nonce_grants` | two links, two miners: `GrantsDisjoint`, `GrantedIsBehind`, `LedgersExact`, and `ImplementsOnce` | 101,193 |
| `rx` | two threads, two overlapping allocations, two seeds: `RebuildAlone`, `VmCoherent`, no deadlock; under fairness `AllocationEnds`, `StopReturns` | 84,288 |
| `rx_job` | jobs, chunks, pauses, stops and updates while two threads hash: `SharesTrue`, `NoncesOnce`, `NoLostWakeup`, `CallsAccounted`, no deadlock | 3,493,661 |
| `upstream` | losses, moves, early jobs: `LinksLimited`, `NoMinerForgotten`, `HomesKept`, `SlotReleased` | 2,957,067 |
| `upstream_settles` | losses, moves, two jobs of a link: `JobOfHome`, and under fairness `AttachSettles` | 1,746,832 |
| `datagram` | `AtMostOnce`, `NothingLost`, and `ImplementsLink` with its liveness | 44,327 |
| `vardiff` | retunes with targets and shares in flight: `SolutionsPass`, `VerdictsFair`, `RetuneEnds` | 2,395,224 |
| `sessions` | two sessions of one worker, which may die: `CallsAnswered`, `WorkCounted`, `SolutionsOwned`, `KeptOnlyLate` | 1,350,749 |
| `workers` | exits and respawns, sockets, and an address that is used again: `LoadCounted`, `RouteKept`, `FleetServes` | 1,289,953 |
| `miner` | connections made and lost while jobs come and datasets are built: `MinesForPool`, `NeverStranded`, `LastVersionsKnown`, `ChunksArrive` | 10,150,437 |
| `randomx` | every instruction and item on every back end: `SameEverywhere`, `JumpsBounded` | 96,926 |
| `cache` | the fill by three implementations, the generator: `ScheduleSound`, `BlocksSound`, `MixedAlike` | 2,045,892 |

Some of these are conjunctions of parts that are stated, and commented, one by one:

| Property | Parts |
|---|---|
| `LedgersExact` | `StaysCredited`: the shares of a miner's last two stays are credited; `OwnsOnlyGranted`: no others are |
| `HomesKept` | `RostersAgree` (types; `HomeListsMiner`, `RosterExact`): home, clients and load of a link say the same; `JobOfHome`: the miner has the job of its home |
| `VerdictsFair` | `CreditIsProven`: a share counts what it has proven; `DeniedOnlyStale`: which shares are denied |
| `CallsAnswered` | types; `AnsweredOnce` |
| `SharesTrue` | `ShareTrue`: a share has the nonce and the version of its hash; `NeverStaleNonce`: no blob gets a nonce of an older range |
| `NoncesOnce` | `HandedOnce`: given is taken or ahead; `NoHashLost`: taken is examined or in hand |
| `CallsAccounted` | types and the count of shares under way; `Referenced`: the reference that keeps the process alive |
| `MinesForPool` | types; `MinesConnected`, `SeedOfJob` |
| `ChunksArrive` | `ChunkToItsJob`, `PollAlive` |
| `FleetServes` | types; `FleetWhole`, `NoneWaitsInVain` |
| `SameEverywhere` | types; `SameResult`, `SameItem`, `SameTarget` |
| `ScheduleSound` | types; `DecoderHolds`, `OperandsReady`, `NeverRepeated` |
| `BlocksSound` | `MadeOfWritten`, `CarriedIsPrevious` |

### Bounds

*Nonces.* Six nonces, slots of two. `FullLayout` has the top of the space
inside its one segment; `NicehashLayout(<<2, 0>>)` has it at the end of the
first segment, with another one after it: both ways to meet the cut. Counts 1
and 4: less than a segment, and more than one. Three grants are enough for two
grants of one miner with another one's between them, and for two jobs after
another. The theorems have none of these bounds.

*RandomX memory.* Two allocations overlap, two threads compete for the mutex; a third
of either does nothing the second cannot. Two seeds tell the old dataset from the
new. `Tries` is 1: a call of `create_vm` that fails ends the thread, one that
succeeds goes on. The theorems have any number of tries, and light mode.

*RxJob.* Two threads race for the end of a range. Two jobs: one that replaces
another, with a range, from 0, or where the last one is. Ranges of one
or two nonces and a queue of one: the end of a range is always near, and a range is moved
from the queue while another thread is between its two looks, so that this one sleeps beside
it while the other is on its way to the nonce. A chunk has one nonce; that a longer one may be left
behind by a thread that has gone is in the theorem, which has none of these bounds. Two turns:
a pause and a stop, an update and a pause. One share under way: a second one would only be
counted.

*Upstream.* Two miners, `maxLinks` 2, so that a miner leaves one link for the
other, and three `Link` objects, so that a link is lost and a new one opened while
something still refers to the old. `MaxTasks` bounds how many tasks await a link
when another `chunk` or sweep may begin (logins are not bounded); 1 already has
a migration and a re-attach await one link. `MaxJobs` and `Units` bound the jobs of
a link and the grants in each; `upstream` has two grants in a job, so that one
miner exhausts what another still has, `upstream_settles` two jobs. `JobOfHome` is in both: with a job that may overtake the answer of the
login, and over a second job that finds no space for a miner. Miners and links are interchangeable, and the
runs without temporal properties use that symmetry.

*Datagrams.* Five payloads turn a window of three once and two thirds. Two tries: a
payload that is sent again, and one that is given up. The theorems have none of
these bounds.

*VarDiff.* On the scales 24 and 600 the compact targets stand for the difficulties
1, 2, 3, 4, 6, 8, 12 and 24. The pool's targets are one of them at either end and two
long ones, of difficulty 8 (equal to a compact one, but stricter) and 11 (between
two). One seed, 6, is the difficulty of its own target; the other, 9, is rounded to 12, past
the pool's 11. The values of hashes lie on both sides of each. Three issues: a target that
was replaced twice. Two messages each way: one share that settles while another
is still under way.

*Sessions.* One worker and two sessions, interchangeable: the mirror, tallies and calls of
two sessions share one channel, and a flush for one takes the other's tally along.
Two calls: two logins of one session, a login and a chunk, or a login of each. Four
grants give a session three jobs (a ledger forgets the first) with a chunk in
between. Two shares, and two messages in a channel when another is added, let a tally
wait in front of a bye. A second worker would share only the primary's event loop,
whose steps are the actions already; the theorem has any number of them.

*Workers.* Two workers and three ever started: both exit together and one comes back. One
address, which two peers use one after the other with two salts; two sockets, of which one may
wait. One message in a queue when another is added.

*Miner.* Three connections: one that is lost while the job of the last is under way.
Three jobs of two seeds, two of them of a proxy: a job of the same seed, of another,
and the same one on the next connection. `Kept` is 2, so that the third version
forgets the first; two calls of `on_job` wait behind one that awaits its dataset.

*RandomX programs.* Words of 16 bits, immediates of 8, scratchpads of 8, 32 and 64
bytes; `JumpBits` and `JumpOffset` 2: the places where a mask ends, a sign is
extended or a product is split are all there, and the alphabet has immediates on both
sides of each. Programs of one instruction are over the whole alphabet (every
instruction, source and destination equal or not, register 5, which RISC-V and x86
treat apart); those of two and three over the instructions whose effect is on
later ones: swaps, reciprocals and branches. V2 differs in CFROUND, and is run with that and
a branch. Items are up to five instructions long; with `ReachWords` 2 the pool
pointer moves twice in them.

*Cache.* Two lanes of four slices of four blocks and three passes: with two passes a block
is overwritten once; in the third it is made of what the second left. Three registers, of
which one is r5; a latency of 12 and a look-ahead of 4 keep multiplication,
saturation of ports and both ends of a buffer within reach, `MaxThrowaway` 1 the
second discard.

`CHECK_DEADLOCK FALSE` is set where everything may end: grants and jobs are bounded,
every miner may have left, the upstream may be closed, a program or a cache is done, the bounds of `Datagram`,
`VarDiff`, `Sessions`, `Workers` and `Miner` are reached. `rx` and `rx_job` are checked
for deadlock.

### Fairness

*RxLifecycle*: mining and pool threads are scheduled (`WF` of their steps); a
mutex that is free again and again is had in the end, and a completion is run by
the event loop between calls (`SF`). Nothing obliges anyone to allocate, start
or stop, and no failure or time-out is required to happen: only `Execute` of a
worker is fair, not the time-out of its drain, so that an allocation must end
because the VMs go.

*Upstream*: the event loop runs its work (`WF(Run)`), and opening a link ends in
some way: `connect` and the login have time-outs (`WF(Opening(l))`). The pool need
send nothing, and no timer need fire.

*Datagram*: the sweeper runs (`WF(Sweep)`); it is an interval timer that is on as
long as a link waits. The network owes nothing: a payload whose copies are all lost
is given up in the end, and that is what `Honest` allows.

The other runs state no liveness. What must not stay undone is there as an invariant:
whoever sleeps over what only it would do is about to be woken (`NoLostWakeup`), a miner without a connection
has a timer (`NeverStranded`), a job with a range has its poll (`ChunksArrive`), a socket waits
only while no worker lives (`FleetServes`).

### Where documentation and code disagree

These were met while modelling. No run states what fails; the properties are stated of
the rest, and the history variables named here keep the two apart.

*Nonces, upstream, sessions and difficulty.*

1. A miner that is moved to another link and back while the first
   job is still current (job A, job B, job A) has three entries for a ledger that
   keeps two: `record` (nonce.ts:65) compares with the last job only, so the first
   ranges of A are dropped, and a share found there is denied. README.md:226 says
   the ledger covers "the current *and* previous job". `StaysCredited` is what
   does hold: the miner's last stay and the one before it are credited.
2. A miner is being migrated and awaits a link that connects;
   its own link is lost and `sever` attaches it again, awaiting the same link. Both
   house it, perhaps on two links; `attach` (upstream.ts:113) does not evict first.
   `detach` evicts it once, and the other link keeps it in `clients` and `load`
   (`crossed`).
3. `tune` (vardiff.ts:150) keeps one prior target. Two retunes while
   the first of them is on its way to the miner, and the share it finds under the
   target it has is denied. Or one retune, and a lucky share of the old target
   that meets the new one too: `submit` (hub.ts:147) settles, and the next ordinary
   share of the old target is denied. README.md:228: "shares already in flight are
   never rejected for a difficulty change they could not have seen". `DeniedOnlyStale`
   is what does hold: there is no third way, but for two targets of one difficulty, and number 8.
4. `login` (hub.ts:80) awaits the resolver, which may ask a database
   (README.md:277). If the worker dies meanwhile, `evict` closes what there is, which
   is nothing; then `login` goes on, enters the session and houses its client.
   Nobody will close that session: the primary keeps it as a miner, grants it nonces
   of each job, and counts it in the load of its link. README.md:216: "sessions
   belonging to a dead worker are evicted from the hub and their upstream slots
   released". A miner that leaves during the await does the same through its bye.
   `KeptOnlyLate`, proved, is that this is the only way, with the next one.
5. Two logins of one session await the resolver and both are let in: the second
   overwrites the entry of the first (hub.ts:92). If the first is housed by then, nobody
   detaches it: its own `login` has returned. `late` holds these clients too.
6. An answer that reaches a worker after the session has closed is learned
   (hub.ts:256): the mirror is made again, for a session id that will not return.
7. `close()` of `Upstream` (upstream.ts:176) has no socket to close while a link
   connects; the link comes up afterwards and stays.
8. The constructor of `VarDiff` (vardiff.ts:97) records the difficulty it wants, not that
   of its rounded target. 20 threads give 300000; the compact target for it stands for
   300011. If the pool is at 300005, the first `tune` hands out the pool's target and
   keeps the constructor's as the prior one, which by its record is the easier: `floor`
   asks for 300011. README.md:228 says that the difficulty is never above the pool's and
   always that of the target. A share of the pool's target may then be denied: that is the
   last part of `DeniedOnlyStale`, which is stated, and proved, of every seed. `SolutionsPass`,
   proved, is that everything else about rounding is right.
9. In one sweep `migrate` may pick an idle link for a miner, and a later turn of the
   same loop closes that link (upstream.ts:423). The continuation houses the miner on the
   closed link and `payload` throws; `chunk` answers `retry_after` from then on. The roomiest
   link that `pick` falls back on when an open fails (upstream.ts:282) may have gone in the same
   way. `adrift` has these miners, and those of the first half of 10; `NoMinerForgotten`,
   proved, is that there is no other way to be left on a link that is not listed.
10. A pool may send a job and then refuse the login: `open` removes the "close"
   listener, and the miners housed meanwhile stay on a link that is not in `links`.
   If the login is still to be answered when such a miner migrates and its target has no grant
   left, `migrate` finds no socket to go back to (upstream.ts:384): the miner stays on the
   target, with the job of the link it left (`behind`). `JobOfHome`, proved, is that this and
   number 11 are the only ways.
11. `rebalance` and `consolidate` may migrate one miner in the same sweep; if the second
   target has no grant left, the miner goes "back" to a link whose job it no longer
   has (`JobOfHome`, for miners in `crossed`).
12. A link of datagrams keeps no order: a job that is sent again may arrive after the
   next one (udp.ts:67).

*Workers and UDP peers.*

13. `forget` (edge.ts:346) removes a route by its key alone: a late message of one worker
   removes the route of a peer that has since been greeted at another.
14. A handler may still answer on a link that was stopped (edge.ts:231); the answer is
   never acknowledged, and giving it up drops the key, which may stand for a new
   peer by then. The kill timer (edge.ts:236) and a call that fails before the login
   (edge.ts:272) drop by key as well. 13 and 14 are what `crossed` keeps out of `RouteKept`.
15. `spawn` ignores what `hand` returns for a socket that waited (fleet.ts:182): one that cannot be
   handed over is destroyed by the failed send, not queued again.

*The miner.*

16. `close()`, or the loss of the connection, while `on_job` awaits the dataset: the
   threads are started all the same when it returns (index.ts:329, and 287 after a
   login), for nobody (`late`).
17. A connection that is lost while `MaxThreads` scans the processor (index.ts:262) has no
   listener yet, and nobody calls `reconnect` again (`deaf`).
18. A reconnect clears the versions (index.ts:280), but `on_job` returns early for the job it
   has already (index.ts:311). If the pool sends the same job again, its shares are dropped, its
   poll for chunks is not scheduled again, and after a failed allocation the dataset
   is not built again (`reused`).
19. A job of the last connection may be processed after the next one is made; if its
   allocation fails, it is that one which is closed.
20. `start` (index.ts:329) comes before `send_job` (index.ts:343): for a moment the
   threads hash the old blob over the new dataset.
21. `options.algo` is set when the event arrives (index.ts:268, 314), before the calls in front
   of it in the lock have been processed.
22. `login` returns the job that was pushed before the answer, which then overtakes
   that of the answer itself.

*The native code.*

23. `stop()` joins the mining threads on the JavaScript thread (rx_job.cpp:298), and
   one of them may wait in `create_vm` for the mutex that an allocation holds until
   the dataset is computed. README.md:342 says that the event loop is never blocked.
   `StopReturns` holds: it is a delay, not a deadlock.
24. The last thread of a run that ends by itself queues a call that lets the function
   go (rx_job.cpp:6). A `Start` that comes before it is run loses its reference,
   and the process may end with threads mining (`crossed` of `RxJob`).
25. `updating` notifies nobody: a thread that sleeps gives its VM away after at most
   250 ms (`NoLostWakeup` is stated without it). And `HasWork` (rx_job.cpp:450) looks at the
   range first and then at the queue: if another thread moves a range from the one to the other in
   between, a thread sleeps beside a range that it could work on, for the same 250 ms, and nobody
   notifies it. `NoLostWakeup` says when that may be: another thread is at work on the range,
   or one has gone.
26. `generateProgram` of the assembly generator takes the flags, but its CFROUND
   (assembly_generator_x86.cpp:536) is that of V1 whatever they are. Nothing else uses the
   generator; with V2 it is left out of `SameResult`.

## 4. What is proved

For every value of the constants that meets the assumptions
(`NonceAssumption`, `GrantsAssumption`, `LifecycleAssumption`,
`NamesAssumption`, `JobAssumption`, `UpstreamAssumption`, `DatagramAssumption`,
`VarDiffAssumption`, `SessionsAssumption`, `WorkersAssumption`, `MinerAssumption`,
`ArgonInputsValid`, `GeneratorAssumption`), machine-checked to the last leaf:

| Theorem | Says |
|---|---|
| `NonceGrantsProofs!TypeCorrect` | types; a position never runs past its segment or layout |
| `NonceGrantsProofs!NoOverlap` | `GrantsDisjoint`: no nonce of a job is granted twice |
| `NonceGrantsProofs!NoGap` | `GrantedIsBehind`: what was granted is what the allocator has passed |
| `NonceGrantsProofs!LedgersCorrect` | `LedgersExact`: a ledger owns the nonces of the last job and of the one before, and no other |
| `NonceGrantsProofs!AllocationRefines` | `ImplementsOnce`: every step of the allocator is one of `NonceOnce`, or a stutter |
| `NonceGrantsProofs!HeldByOne` | `HeldOnce` of `NonceOnce`: no nonce of a job is with two miners, or with one and in stock |
| `MinerProofs!TypeCorrect` | types; counters never fall below zero |
| `MinerProofs!NoVmWhileRebuilding` | `RebuildAlone`: no VM over memory that is rewritten |
| `MinerProofs!VmsCoherent` | `VmCoherent`: current cache, and a dataset of its seed |
| `MinerProofs!UpdatingCorrect` | `UpdatingWhilePending`: updating is up exactly while allocations are under way |
| `RxJobProofs!SharesCorrect` | `SharesTrue`: a share has the nonce and the version of its hash, and no blob gets a nonce of an older range |
| `RxJobProofs!NoncesCorrect` | `NoncesOnce`: no nonce twice or skipped; what was taken is examined or in the hands of one thread |
| `RxJobProofs!WakeupsArrive` | `NoLostWakeup`: nobody sleeps through a stop, a job or a queued range; beside one that has begun only while another thread works on it or has gone |
| `RxJobProofs!CallsAreAccounted` | `CallsAccounted`: the function is referenced as long as threads or shares need it, and no longer |
| `UpstreamProofs!LinksStayLimited` | `LinksLimited`: at most `MaxLinks` links, and one that connects |
| `UpstreamProofs!NoneForgotten` | `NoMinerForgotten`: a miner that is served is on a link there is, or an attach is under way, or it is in `adrift` |
| `UpstreamProofs!RostersStayAgreed` | `RostersAgree`: types; homes, rosters and loads tell the same |
| `UpstreamProofs!SlotsReleased` | `SlotReleased`: a miner that has gone is on no link |
| `UpstreamProofs!JobsStayCurrent` | `JobOfHome`: the job of a miner is that of its link, unless it is in `crossed` or `behind` |
| `DatagramProofs!TypeCorrect` | types; no payload is sent more often than `Retries` |
| `DatagramProofs!NoneLost` | `NothingLost`: delivered, or kept and sent again, or the owner knows |
| `DatagramProofs!NoneTwice` | `AtMostOnce`, for every window and lag with `2 * Lag - 2 < Window` |
| `DatagramProofs!LinkImplemented` | the safety part of `ImplementsLink`: initial states and steps are those of `ReliableLink` |
| `VarDiffProofs!TypeCorrect` | types; a target is never replaced by itself |
| `VarDiffProofs!NoSolutionDenied` | `SolutionsPass`, for every two scales, pool's target and hashrate |
| `VarDiffProofs!RetuningEnds` | `RetuneEnds`: with nothing changed, `tune` retunes at most twice |
| `VarDiffProofs!CreditProven` | `CreditIsProven`, the half of `VerdictsFair` about what a share counts |
| `VarDiffProofs!VerdictsAreFair` | `VerdictsFair`, for every seed |
| `VarDiffProofs!SmallSeedsAreFair` | up to 65535, the seeds of up to 4 threads, no share of the target there is is denied (`NoneFresh`) |
| `SessionsProofs!Released` | `KeptOnlyLate`: a client stays housed only for a session of the hub, unless it was let in too late |
| `SessionsProofs!SolutionsAreOwned` | `SolutionsOwned`: what a worker's mirror lets through, the primary's ledger owns, or it is two jobs further |
| `SessionsProofs!WorkIsCounted` | `WorkCounted`: an acknowledged share is in the tally, on its way or accounted for; none is left when the session is over |
| `SessionsProofs!CallsAreAnswered` | `CallsAnswered`: types; a call that is waited for stands in exactly one place |
| `WorkersProofs!RoutesKept` | `RouteKept`: no key has peers at two workers, unless it was in doubt when greeted, or dropped for another peer |
| `WorkersProofs!LoadsCounted` | `LoadCounted`: the load of a worker that lives is its routes, its sockets and the closes on their way |
| `MinerProofs!AlwaysMinesForPool` | `MinesForPool`: types; the threads mine for the pool there is, over the dataset of their job |
| `MinerProofs!AlwaysReaches` | `NeverStranded`: closed, connected, connecting or with the timer set |
| `MinerProofs!AlwaysVersionsKnown` | `LastVersionsKnown`: the last versions in a row, the last one of the job that is mined |
| `MinerProofs!AlwaysChunksArrive` | `ChunksArrive`: a chunk for its job only, and a poll for every job with a range |
| `MinerProofs!BlocksAreSound` | `BlocksSound`: a block is made of the one before and of another that is written, read or carried |
| `MinerProofs!ScheduleHolds` | `ScheduleSound`, but for the destination of a high multiplication: types; `DecoderHolds`, `NeverRepeated`, all other operands ready |
| `WorkersProofs!FleetServed` | `FleetServes`: types; the roster and the running timers are `Size` workers, and no socket waits while one lives |

The types of `NonceGrants`, `RxLifecycle`, `Datagram` and `VarDiff`, `UpdatingWhilePending`
and `HeldOnce` are proved and in no run.

*Nonces.* Disjointness is not inductive: a new grant is disjoint from the old
ones because it begins where the allocator is, and they all lie behind that. So
the invariant is `TypeOK`, `GrantsDisjoint`, `GrantedIsBehind`, and two small
facts: grants are not empty (`GrantsNonEmpty`) and no grant is of a job that has
not come yet (`JobsPast`), without which a new job might inherit grants. The
lemmas about `Take` carry the weight: the grant lies in the stock, and taking it
moves exactly those nonces behind the position, also when segments are skipped
and when the top of the space cuts the grant.

The refinement maps a holder to the nonces of its grants of the live job
(`HeldBy`), and those who have left to `NoJob`, which is no client (an assumption). A
grant is `Acquire` because it is what the stock loses (`TakeGrants`) and is held by no one else
(`NoOverlap`); a job that comes is `Fill`, since no grant is of a job to come
(`JobsPast`). What `NonceOnce` promises, `HeldOnce`, is an invariant of its own steps, so the
refinement brings it to the allocator (`HeldByOne`). `LedgersExact` speaks of grants, so `LedgerOK` says what a ledger has to do with
them: its job is that of the last grant, its ranges cover the stay with that job, its prior
ones the stay before, and it owns nothing that was not granted. `Record` merges a range
into the one it adjoins: `RecordGrows` and `RecordTurns` are what that does to the nonces owned.

*RandomX.* `RebuildAlone` needs that whoever is between lock and unlock is the
owner of the mutex (`Mutex`), that VMs are held exactly by threads in "mine"
(`HeldWhileMining`) and that `active_vms` is their number (`Counted`), so that a
drained count of 0 means there are none. `VmCoherent` further needs what the
rebuilding worker has done so far (`SeedAgrees`): the cache is gone, then has the
worker's seed; and when nobody rebuilds, the dataset, if there are both, has the
seed of the cache. That last part is what makes the failure paths safe: a failed
allocation leaves no cache, or it leaves no dataset, never two of different seeds.
`TriesLeft` keeps the counter of `AcquireVm` in range. Each lemma takes one
part through a step; it begins with a frame that names the few actions that can
touch the part.

*RxJob.* `ShareTrue` needs what a thread has in hand (`Pipeline`): unless it is first, `cur`
is the input its VM works on and the thread's version is that input's blob; a nonce is taken, and hashed,
only by a thread whose blob is of its version. The version may leave the blob for a while,
after an update, when the thread sets it back so as to read the job again: then the VM
is empty, and the version is below that of the job, so the thread cannot pass
`Current`. `NeverStaleNonce` needs `VersionsAgree`, how blob, range and
version follow each other within `SendJob`. `NoncesOnce` needs `Apart` (the ranges
ahead do not overlap, a thread leaves a range only when it is used up, and no nonce is of a
generation to come) and `Account`: what a thread has in hand was taken and is its
alone, and all else that was taken is examined. Each step takes some new nonces and ends
some in hand, and one lemma, `AccountKept`, serves them all. All of it holds for any
number of threads.

`NoLostWakeup` needs `Awake`, which says of a thread at each point between its first look and
the end of its sleep what it has found (`Rests`). When it finds the range used up there is nothing to
do; whoever moves another one there comes from `NextNonce` and goes back to it (`Asking`), so there is a thread at
work on it, or one that has gone since (`Manned`). It also needs `Alone`: the last thread is the last, and without
`m_active` threads are there only while `StopLoop` waits for them. `CallsAccounted`
needs `Refs`: `inflight` is the number of shares in the queue; an Unref that is
queued for this run is the last call of it, and is there only when all threads have ended.
A share that is run then finds either a thread that mines, or another share, or the Unref
behind it.

*Upstream.* What a miner without a home has is work to come, so the invariant speaks of
`todo` and of the waiters: an attach for the miner, picked, waiting or settled (`Due`), or a loop
of `sever` that has yet to call it (`Orphan`). `NoneLost` is that a live miner has one of them or
a home. Between loop and call the event loop takes no event (`RehomeFirst`), which is
why `NoMinerForgotten`, of the moments in between, is enough. That a home is a link that is listed
(`Anchored`) is kept by every step but those that `adrift` sees: `sever` takes all miners
of its link along, an open fails with none on it, unless its job came first, and only what
`pick` has found can have gone before it is used. `LinksOK` counts links that
connect: `pick` opens one only when it sees none, and what it sees cannot change before
`open` has set `connecting`. For the rosters, a miner that never had two placements at once
(`PlacedOnce`: `crossed` remembers those that had) is `Clean`: the links that list it are its
home (`Alone`), it has no home while an attach is due, and when it is out nothing
is left of it; load is the number of those listed (`Counted`). Most steps leave the work alone or add items that
are no attach (`Plain`, `PlainlyChanged`); the lemmas about the chains `RunPick`, `RunAttached`, `RunMigrated` and `RunRehome`
carry the weight.

`JobOfHome` is about moments at which nothing is under way; in between, `JobInv` says why it will
hold. A miner that has one placement at a time either has the job of its home, or `accept`, or a
migration it began, has yet to serve it (`Renewing`). A loop serves it while it is still on the link the
loop is about, and that link is up (`InTurn`); so it is when a migration settles, unless the link was
lost (`Moving`). A miner that goes back then goes to a link that is up. What a task has
settled on is used before any sweep or loop goes on: after a
settled task there are only calls of `pick` and other settled tasks (`Late`). A grant is pushed with the job because
a listed link that has grants left has a job (`LinksSound`). If no grant is left and the link the miner came from
has no socket, it is in `behind`, until it has the job of its link again; of those that are not,
`Served` says that they have it. A
sweep moves only miners of links that are up, for which `Lively` is needed: who has a home is live.

*Datagrams.* `NothingLost` needs that an ack, and a place in the window, stand for a
payload that was delivered. For `AtMostOnce` the invariant says what the ring is: the
last `Window` arrivals are seen (`LastAreSeen`), and each place that is used holds one of
them, the one whose position is that place modulo `Window` (`RingHoldsLast`); and that
each arrival was less than `Lag` below what had arrived (`ArrivedTimely`). If a number
arrives that is not in the window but was delivered, then at least `Window` others
arrived since; each of them is less than `Lag` away from it, on one side by
`ArrivedTimely`, on the other because this copy is timely; there are only
`2 * Lag - 2` such numbers, and they are distinct: `UnseenIsNew`, by the
pigeonhole principle. The step of `ReliableLink` that a delivery has to be is the
same lemma.

*VarDiff.* `EasierIsMet` carries the rounding: a target of less difficulty is met by every
hash that meets the other, compact or long. What `tune` leaves is the pool's
target or one of less difficulty (`TuneFits`), and the prior target is the floor
only if it records less than what is issued. That the record is right (`Recorded`)
is a premise of `SolutionsPass`; the constructor is where it fails.

That retuning ends is arithmetic: a target of a difficulty that was read from a target is
that target again (`RoundedOnce`), so that the second `tune` asks for what the first
left (`TuneSettles`). `VerdictsFair` follows a target from `chunk` to the share: tasks and shares
carry the target of the issue they are numbered after, if it is the present one or the prior
(`TasksKnown`), come in the order of the issues (`InOrder`), and when the prior issue is forgotten
nobody works under it (`SettledOnce`). A share of the prior issue that is met by the floor
must be let in, which needs that the record of each issue is not more than its target asks. That
is so of every target `tune` makes, and of the constructor's if its
seed is the difficulty of its own target; if not, a share of the first target after it may be
denied, and what `UnderRounded` says of the two targets is all that is left of it. `SmallSeedsAreFair` shows
that this does not happen up to 65535, that is up to 4 threads; 5 threads are beyond it (number 8 of section 3).
What a share counts needs no premise (`CreditProven`).

*Sessions.* `KeptOnlyLate` is not inductive: whether a client may be housed after `attach`
depends on its entry, before it is housed. The invariant says it of every entry: one
that is not late is that of a session in the hub (`EntriesKept`), and a client that
is housed and not late is the entry of its session (`HousedEntered`). `Attached`
houses only a client that is still the entry; `bye`, `evict`, `reset` and a new login
take entry and client away together (`ClosingKeeps`).

The other three share the invariant `SInv`. `Once` is where a call can be: in the channel to the
primary, with a login that awaits, or answered, one of these at most, and one of them while
its worker waits for it; it also says that a client is not live before its login has arrived, and not housed
before `attach` is over. `Story` is about each session whose worker lives. Nothing is said of a session
after its bye (`ByeLast`), so its last tally comes first, and `Accounted` goes through
every step but those that take the entry from a connected session (`cut`). That a tally finds an entry
needs `LoggingIn`: while the entry is missing or its login awaits, the session has nothing to
tell (`Blank`), since shares and chunks come after the answer of a login. `SolutionsOwned` needs to know
what the mirror will be when a message is handed over (`Serving`): every grant in the channel is
one of the ledger or of one it has outlived by two jobs (`Stays`), a grant that comes without a job is of the
job that the worker knows when it gets there (`Tracks`: a push before it, or what is known now), and
the answer of the login comes before every push (`LoginTeaches`). `Story` is kept by all actions
but a few in a like way: what a session does not notice (`Quiet`) keeps its story (`StoryKept`), and
one lemma per action has the rest.

*Workers.* `RouteKept` is not inductive: a message that forgets the key, or a datagram
of it in the queue of another worker, would break it later. `Settled` says that for a peer greeted in
peace neither is on the way, and `UpOnly` that the dead have no peers, so that an exit
takes no route of a living one. `Pick` is then the owner, a drop at another worker would need
a datagram there, and a drop at its own ends the peer (`Dropped`). `FleetWhole`
needs only that ids are used in order (`Whole`): a spawn adds a worker that is not on the
roster. `LoadCounted` is made inductive by `Even`: what is counted is finite, and a worker
that is yet to come has no route, socket or message, so that a spawn may start from the
length of the queue. That number is right because the queue lists each socket that waits
once (`Line`), which is also why a spawn empties it. `Math.max(0, ..)` never applies to a worker
that lives: whatever takes one from its load is still counted in it. A route is taken from its
owner only when the owner does not live (`pick`), whose load no longer matters. That
`dispatch` finds a worker at all needs a least of those that live (`LeastIn`).

*Miner.* The four properties have exceptions, which are histories of the model (`late`, `reused`, `deaf`; section 3 says what they
are), so the proofs are about everything else that may happen between two awaits. One
invariant, `MInv`, has all four. `LinksFit` and `Reached` are about the connections: where
`reconnect` is says what its socket is (`LinkOK`), an open socket is of the connection there is, and a
timer is only set when there is none; this makes `NeverStranded` inductive. A call or a question of the poll
is of a connection that `NMiner` listened to (`CallsHeard`, `Asked`), so that the end of
a connection is always noticed; a call that comes after it is `late`. `Agree` relates what
`NMiner` remembers of job and seed to what the native code has, at each of the
three moments of a reallocation (`alloc`), and `Mining` and `Hashing` draw the conclusion: threads that mine do
so for the connection there is, and once it has sent a job the dataset is of the
seed of the job. `Known` is about the versions: after `track_version` has dropped the oldest they are still the last ones in a
row (`Rows`), and the last is that of the native code; this needs `Kept > 0` (the code keeps 16). `Polls` is about the generation of the poll: a question of the
present one is about the present job, so that a chunk never reaches another. Few actions change
much: what the others have in common is said once (`Stays`: connections but for their
`reconnect`; `Moves`: connections only; `Shut`: the connection there is ends), and one lemma about each
shows the parts of the invariant that go with it.

*Argon2.* `MadeOfWritten` is about the block just made; what makes it true is how far the filling
has come. `Filled` says it of every block: below the frontier of its lane (`Frontier`) it was written in
this pass, above it in the one before, and of the first pass only the two initial blocks are there.
`Offset` says where `fill_segment` stands between two blocks: `prev_offset` is the block before, but
after the first block of a lane, where the code turns it back only when it fills the next. The registers
of the vector implementations hold that block throughout. `Reference` is the heart: whatever is drawn, `index_alpha`
returns a block of the reference area, which leaves out the block being made, the one before, and in
the other lanes the slice being filled; it goes through the cases of pass, slice and lane. The lemmas
before it are about quotients and remainders: a block lies in one lane and one slice
(`Offsets`, `Slices`), the remainder wraps at most once (`Wrapped`), a draw is below the area (`Drawn`).

*The generator.* That a macro-op fits its slot and a cycle decodes four uops at most depends on where an
instruction goes on: `Due` says that it is either at the end of its buffer with one macro-op issued, or at the
slots of a buffer that was fetched for it (`FetchKeeps`). `Fitting` is what `CandidateFits` draws from it for
whatever goes to a slot, old or new. Only the first slot of the buffer for a high multiplication
takes two uops (`Extra`), and that buffer has three slots. Registers are ready when they are selected
(`SourceIn`, `DestinationIn`), and a macro-op goes to its ports no earlier (`ScheduledLater`); the
destination of a high multiplication is selected one macro-op before it is read, so this says nothing of it.

Only model-checked: the RandomX programs; of the cache, `MixedAlike` and one half of `OperandsReady`; and
the liveness properties, since liveness under fairness and ENABLED are beyond
the prover. So is induction over data: no statement about a sum over all
segments (`SpaceLeft`) is proved. `RxPrograms` computes with recursive operators and
bitwise operations, which the prover cannot use. `MixedAlike` compares fixed sequences, which no constant changes, so that TLC's
comparison is complete. That the destination of a high multiplication is ready when the multiplication is
(`OperandsReady`, of `ScheduleSound`) rests on which registers and ports can be busy at the same time
several buffers later; no inductive invariant for it was found.

## 5. What is left

The plan was: the allocator, the RandomX memory life cycle, the housing of miners, the
datagram link, the difficulty of a miner and the sessions of the hub; then the
hand-over of jobs and nonces in the native code, the miner, the fleet with its UDP
peers, and the back ends of RandomX. All of these have modules. Open:

1. `reslice` and `narrow` of upstream.ts: extra slots of a NiceHash pool change while spaces
   that hold them are in use; a layout is an input of `NonceGrants`, of one link.
2. The handshake of a UDP peer beyond greeting and route (login gate, rate limit, the keys).
3. The loop around a RandomX program: prologue, scratchpad lines, the prefetch of the
   dataset and the AES mixing of V2.

Not modelled, and not planned: text and logging, hardware probing and pinning,
encryption and framing, DNS, TLS, SOCKS and WebSocket upgrades (I/O without
state that interacts), AES, Blake2 and the hash pipeline (straight-line computation on
bytes), virtual memory, and third-party code. `capacity`, `chunkSize` and
`nicehashSlot` compute with real numbers and bytes; what they return is an
input of the models.
