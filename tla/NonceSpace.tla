----------------------------- MODULE NonceSpace -----------------------------
(***************************************************************************)
(* The segmented nonce allocator and the share ledger of src/js/nonce.ts.  *)
(*                                                                         *)
(* A layout is a sequence of segments [base, size].  A space is a layout   *)
(* with the position of the allocator in it: the segment it is in (index)  *)
(* and how far into that segment it has granted (cursor).  A grant is the  *)
(* half-open interval [start, limit).  Everything here is a pure operator: *)
(* the state that is built from it is in NonceGrants and in Upstream.      *)
(*                                                                         *)
(* NonceSize stands for 2^32 and SlotSpan for 2^24: every operator only    *)
(* compares and adds below NonceSize, so small values exercise the same    *)
(* boundaries.                                                             *)
(***************************************************************************)
EXTENDS Integers, Sequences

LOCAL INSTANCE FiniteSetsExt

CONSTANTS
    NonceSize,  \* NONCE_SPACE, the number of nonces of a job
    SlotSpan    \* NICEHASH_SPAN, the nonces under one top byte

ASSUME NonceAssumption ==
    /\ NonceSize \in Nat /\ NonceSize >= 2
    /\ SlotSpan \in Nat \ {0}

\* take() cuts a grant at 0xFFFFFFFF, so the last nonce is never handed out.
NonceTop == NonceSize - 1

Segment == [base : Nat, size : Nat]

\* A layout whose segments lie in the nonce space and do not overlap.
WellFormed(layout) ==
    /\ layout \in Seq(Segment)
    /\ \A i \in DOMAIN layout : layout[i].base + layout[i].size <= NonceSize
    /\ \A i, j \in DOMAIN layout : i < j =>
        \/ layout[i].base + layout[i].size <= layout[j].base
        \/ layout[j].base + layout[j].size <= layout[i].base

Space == [segments : Seq(Segment), index : Nat \ {0}, cursor : Nat]

\* Segments of size 0 are dropped by the code and stepped over here by Take:
\* the two allocate the same ranges.
CreateSpace(layout) == [segments |-> layout, index |-> 1, cursor |-> 0]

FullLayout == << [base |-> 0, size |-> NonceSize] >>

\* slots: the slot of the job, then the extra slots of the link.
NicehashLayout(slots) ==
    [k \in DOMAIN slots |-> [base |-> slots[k] * SlotSpan, size |-> SlotSpan]]

-----------------------------------------------------------------------------
\* mutant: the position is not kept
PassedNone(space, i) == 0

\* mutant: the position of the last segment is carried into the next
PassedCarried(space, i) == space.cursor

\* How much of segment i has been passed.
Passed(space, i) == IF i = space.index THEN space.cursor ELSE 0

Ahead(space) == space.index .. Len(space.segments)

SpaceLeft(space) ==
    MapThenSumSet(LAMBDA i : space.segments[i].size - Passed(space, i), Ahead(space))

\* The segments take() can still cut a grant from.  A segment of which only
\* the very last nonce of the space is left yields none.
Usable(space) ==
    {i \in Ahead(space) :
        /\ Passed(space, i) < space.segments[i].size
        /\ space.segments[i].base + Passed(space, i) < NonceTop}

NoGrant == [start |-> 0, limit |-> 0]

\* take(space, count): the loop ends in the first segment that yields a
\* grant, or past the last one.
Take(space, count) ==
    IF Usable(space) = {}
    THEN [grant |-> NoGrant,
          space |-> [space EXCEPT !.index = Len(space.segments) + 1, !.cursor = 0]]
    ELSE LET i     == CHOOSE k \in Usable(space) : \A m \in Usable(space) : k <= m
             from  == Passed(space, i)
             left  == space.segments[i].size - from
             size  == IF count < left THEN count ELSE left
             start == space.segments[i].base + from
             limit == IF start + size < NonceTop THEN start + size ELSE NonceTop
         IN  [grant |-> [start |-> start, limit |-> limit],
              space |-> [space EXCEPT !.index = i, !.cursor = from + size]]

-----------------------------------------------------------------------------
\* The ledger of one miner: the ranges of the job it was last granted from,
\* and those of the job it was granted from before that.
NoJob == <<>>

EmptyLedger == [job |-> NoJob, ranges |-> <<>>, prior |-> <<>>]

\* mutant: the ranges of the job before are not kept
RecordNoPrior(ledger, job, grant) ==
    IF ledger.job # job THEN [job |-> job, ranges |-> <<grant>>, prior |-> <<>>]
    ELSE [ledger EXCEPT !.ranges = Append(@, grant)]

\* mutant: the last range is extended over a gap
RecordOverGap(ledger, job, grant) ==
    LET n == Len(ledger.ranges)
    IN  IF ledger.job = job /\ ledger.ranges[n].limit <= grant.start
        THEN [ledger EXCEPT !.ranges[n].limit = grant.limit]
        ELSE [job |-> job, ranges |-> <<grant>>, prior |-> ledger.ranges]

\* Ledger.record
Record(ledger, job, grant) ==
    LET turned == IF ledger.job # job
                  THEN [job |-> job, ranges |-> <<>>, prior |-> ledger.ranges]
                  ELSE ledger
        n      == Len(turned.ranges)
    IN  IF n > 0 /\ turned.ranges[n].limit = grant.start
        THEN [turned EXCEPT !.ranges[n].limit = grant.limit]
        ELSE [turned EXCEPT !.ranges = Append(@, grant)]

\* Ledger.owns
Owns(ledger, nonce) ==
    \E ranges \in {ledger.ranges, ledger.prior} : \E k \in DOMAIN ranges :
        ranges[k].start <= nonce /\ nonce < ranges[k].limit
=============================================================================
