----------------------------- MODULE NonceGrants ----------------------------
(***************************************************************************)
(* What Upstream does with the allocator of nonce.ts, whoever asks: a pool *)
(* link gets a job and with it a new space, a miner is granted a range of  *)
(* the job its link has, and the range is recorded in the miner's ledger.  *)
(*                                                                         *)
(* Where a miner is housed is left out (Upstream has it): any miner may be *)
(* granted from any link, in any order, which includes every migration.    *)
(***************************************************************************)
EXTENDS NonceSpace, FiniteSets

CONSTANTS
    Links,      \* pool links
    Clients,    \* miners
    Layouts,    \* the nonce layouts a job may come with
    Counts,     \* the sizes chunkSize() may ask for
    MaxJobs,    \* bound: jobs per link
    MaxGrants   \* bound: grants in a behaviour

ASSUME GrantsAssumption ==
    /\ \A layout \in Layouts : WellFormed(layout)
    /\ Counts \subseteq Nat \ {0}
    /\ MaxJobs \in Nat /\ MaxGrants \in Nat
    /\ NoJob \notin Clients

VARIABLES
    job,        \* job[l]: how many jobs link l has had; 0 is no job yet
    space,      \* space[l]: the space of that job
    ledger,     \* ledger[c]: the ledger of miner c
    given       \* history: every grant made, in order

vars == <<job, space, ledger, given>>

JobId(l) == <<l, job[l]>>

Init ==
    /\ job = [l \in Links |-> 0]
    /\ space = [l \in Links |-> CreateSpace(<<>>)]
    /\ ledger = [c \in Clients |-> EmptyLedger]
    /\ given = <<>>

\* Upstream.accept: the job and its fresh space replace those of the last.
Accept(l, layout) ==
    /\ job[l] < MaxJobs
    /\ job' = [job EXCEPT ![l] = @ + 1]
    /\ space' = [space EXCEPT ![l] = CreateSpace(layout)]
    /\ UNCHANGED <<ledger, given>>

\* Upstream.grant with a range: the space advances, the ledger records it.
Grant(l, c, count) ==
    LET taken == Take(space[l], count)
        range == taken.grant
    IN  /\ job[l] > 0
        /\ Len(given) < MaxGrants
        /\ SpaceLeft(space[l]) > 0
        /\ range # NoGrant
        /\ space' = [space EXCEPT ![l] = taken.space]
        /\ ledger' = [ledger EXCEPT ![c] = Record(@, JobId(l), range)]
        /\ given' = Append(given, [job    |-> JobId(l), client |-> c,
                                   start  |-> range.start, limit |-> range.limit])
        /\ UNCHANGED job

\* Upstream.grant with nothing left to cut: null, and the space is used up.
Refuse(l, count) ==
    LET taken == Take(space[l], count)
    IN  /\ job[l] > 0
        /\ SpaceLeft(space[l]) > 0
        /\ taken.grant = NoGrant
        /\ space' = [space EXCEPT ![l] = taken.space]
        /\ UNCHANGED <<job, ledger, given>>

\* Upstream.detach: the miner's ledger goes; what it was granted stays granted.
Detach(c) ==
    /\ ledger[c] # EmptyLedger
    /\ ledger' = [ledger EXCEPT ![c] = EmptyLedger]
    /\ given' = [k \in DOMAIN given |->
                    IF given[k].client = c THEN [given[k] EXCEPT !.client = NoJob] ELSE given[k]]
    /\ UNCHANGED <<job, space>>

Next ==
    \/ \E l \in Links, layout \in Layouts : Accept(l, layout)
    \/ \E l \in Links, c \in Clients, count \in Counts : Grant(l, c, count)
    \/ \E l \in Links, count \in Counts : Refuse(l, count)
    \/ \E c \in Clients : Detach(c)

Spec == Init /\ [][Next]_vars

-----------------------------------------------------------------------------
\* The nonces of a range, and of a grant.
NoncesOf(range) == range.start .. (range.limit - 1)

\* The grants of the job link l has now.
Live(l) == {k \in DOMAIN given : given[k].job = JobId(l)}

Covered(l) == UNION {NoncesOf(given[k]) : k \in Live(l)}

\* The nonces of segment i of a space, without the last nonce of all.
SegmentNonces(sp, i) ==
    sp.segments[i].base .. (sp.segments[i].base + sp.segments[i].size - 1)

\* The nonces the allocator has left behind, and those still ahead of it.
Behind(sp) ==
    {n \in 0 .. NonceTop - 1 : \E i \in DOMAIN sp.segments :
        /\ n \in SegmentNonces(sp, i)
        /\ i < sp.index \/ (i = sp.index /\ n < sp.segments[i].base + sp.cursor)}

Stock(sp) ==
    {n \in 0 .. NonceTop - 1 : \E i \in DOMAIN sp.segments :
        /\ n \in SegmentNonces(sp, i)
        /\ i > sp.index \/ (i = sp.index /\ n >= sp.segments[i].base + sp.cursor)}

-----------------------------------------------------------------------------
\* A space the allocator can be in.
SpaceOK(sp) ==
    /\ sp \in Space
    /\ WellFormed(sp.segments)
    /\ sp.index <= Len(sp.segments) + 1
    /\ sp.index <= Len(sp.segments) => sp.cursor <= sp.segments[sp.index].size

\* Type invariant: a position never runs past its segment or the layout.
Interval == [start : Nat, limit : Nat]

LedgerType == [job : (Links \X Nat) \union {NoJob}, ranges : Seq(Interval), prior : Seq(Interval)]

GrantRecord == [job : Links \X Nat, client : Clients \union {NoJob}, start : Nat, limit : Nat]

TypeOK ==
    /\ job \in [Links -> 0 .. MaxJobs]
    /\ space \in [Links -> Space]
    /\ \A l \in Links : SpaceOK(space[l])
    /\ ledger \in [Clients -> LedgerType]
    /\ given \in Seq(GrantRecord)

\* No nonce of a job is granted twice, to one miner or to two, however the
\* requests of the miners interleave with each other and with new jobs
\* (take, Upstream.grant).
GrantsDisjoint ==
    \A i, j \in DOMAIN given :
        i # j /\ given[i].job = given[j].job =>
            given[i].limit <= given[j].start \/ given[j].limit <= given[i].start

\* No nonce is skipped either: what was granted of the current job is exactly
\* what the allocator has passed, over segment boundaries and the cut at the
\* top of the space (take).
GrantedIsBehind ==
    \A l \in Links : job[l] > 0 =>
        Covered(l) = Behind(space[l])

\* The grants made to a miner, and those of its stay with the job it was last
\* granted from, and with the job it was granted from before that.
Of(c) == {k \in DOMAIN given : given[k].client = c}

Stay(c) == {k \in Of(c) : \A m \in Of(c) : m >= k => given[m].job = ledger[c].job}

StayBefore(c) ==
    {k \in Of(c) \ Stay(c) :
        \A m \in Of(c) \ Stay(c) : m >= k => given[m].job = given[k].job}

\* A late share is credited: the ledger still owns every nonce of the grants
\* a miner had since it last changed jobs, and of those of the job it left
\* then, with any order of links, jobs and adjacent ranges (Ledger.record,
\* Ledger.owns).
StaysCredited ==
    \A c \in Clients : \A k \in Stay(c) \union StayBefore(c) :
        \A n \in NoncesOf(given[k]) : Owns(ledger[c], n)

\* A ledger owns nothing the miner was never granted: a nonce outside its
\* ranges is denied (Ledger.owns).
OwnsOnlyGranted ==
    \A c \in Clients : \A n \in 0 .. NonceSize - 1 :
        Owns(ledger[c], n) =>
            \E k \in DOMAIN given : given[k].client = c /\ n \in NoncesOf(given[k])

\* The ledger of a miner owns what the miner may still find a share in, and
\* nothing that another miner may have been granted.
LedgersExact == StaysCredited /\ OwnsOnlyGranted

\* What is left of the job of each link, and what each miner was granted of it;
\* NoJob stands for the miners that have left.
Free == [l \in Links |-> Stock(space[l])]

HeldBy(l, c) == UNION {NoncesOf(given[k]) : k \in {m \in Live(l) : given[m].client = c}}

Held == [l \in Links |-> [c \in Clients \union {NoJob} |-> HeldBy(l, c)]]

\* The allocator keeps what NonceOnce promises: each grant takes from what is
\* left of the job, and nothing is put back.
Once == INSTANCE NonceOnce WITH
    Holders <- Clients \union {NoJob},
    Gone    <- NoJob,
    Nonces  <- 0 .. NonceTop - 1,
    free    <- Free,
    held    <- Held

ImplementsOnce == Once!OnceSpec
=============================================================================
