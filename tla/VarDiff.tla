------------------------------ MODULE VarDiff ------------------------------
(***************************************************************************)
(* The difficulty of one miner: VarDiff of src/js/vardiff.ts, driven by    *)
(* the pushes and chunks of hub.ts and upstream.ts, with targets on their  *)
(* way to the miner and shares on their way back.                          *)
(*                                                                         *)
(* Targets keep the arithmetic they have: a compact target is an inverse   *)
(* of the difficulty in U32, a long one in U64, both rounded down.  What   *)
(* the miner's hashrate asks for is an input: any of Wants.                *)
(***************************************************************************)
EXTENDS Integers, Sequences, FiniteSets

CONSTANTS
    U32, U64,           \* the scales of compact and of long targets
    MinDifficulty,      \* MIN_DIFFICULTY
    Pools,              \* the pool's targets
    Seeds,              \* what the constructor may start from
    Wants,              \* what hashrate * SHARE_SECONDS may be
    Values,             \* the values of the hashes a miner may find
    MaxIssues, MaxWire  \* bounds: targets issued, messages under way

Compact(n) == [form |-> "compact", n |-> n]
Long(n)    == [form |-> "long", n |-> n]

Targets == [form : {"compact"}, n : 1 .. U32] \union [form : {"long"}, n : 1 .. U64]

ASSUME VarDiffAssumption ==
    /\ U32 \in Nat \ {0} /\ U64 \in Nat /\ U64 >= U32
    /\ MinDifficulty \in 1 .. U32
    /\ Pools \subseteq Targets
    /\ Seeds \subseteq 0 .. U32 /\ Wants \subseteq Nat /\ Values \subseteq 0 .. U64
    /\ MaxIssues \in Nat /\ MaxWire \in Nat

-----------------------------------------------------------------------------
\* decode: the difficulty a target stands for, and the highest value of a hash
\* that meets it.  A target of 0 is left out.
Difficulty(t) == IF t.form = "long" THEN U64 \div t.n ELSE U32 \div t.n
Value(t)      == IF t.form = "long" THEN t.n ELSE U64 \div (U32 \div t.n)

Meets(value, t) == value <= Value(t)

\* valueDifficulty: what a hash of this value has proven.
Proven(value) == IF value > 0 THEN U64 \div value ELSE U64

Least(a, b)    == IF a <= b THEN a ELSE b
Greatest(a, b) == IF a >= b THEN a ELSE b

DifficultyTarget(d) == Compact(Greatest(1, Least(U32, U32 \div Greatest(1, d))))

Issue(t, d) == [target |-> t, difficulty |-> d]
NoIssue     == [target |-> [form |-> "none", n |-> 0], difficulty |-> 0]

\* The constructor.
NewVarDiff(seed) ==
    LET d == Greatest(MinDifficulty, seed)
    IN  [issue |-> Issue(DifficultyTarget(d), d), prior |-> NoIssue, ceiling |-> NoIssue]

\* floor(): the easier of what is issued and what was issued before.
Floor(v) ==
    IF v.prior # NoIssue /\ v.prior.difficulty < v.issue.difficulty THEN v.prior ELSE v.issue

-----------------------------------------------------------------------------
\* The difficulty tune() is after: the one there is, if within a ratio of 1.3.
Wanted(v, ceiling, want) ==
    LET w == Least(ceiling, Greatest(MinDifficulty, want))
        d == v.issue.difficulty
    IN  IF 10 * w > 13 * d \/ 13 * w < 10 * d THEN w ELSE d

\* mutant: nobody looks what the rounded target has become
ChosenUnrounded(next, p) ==
    IF next >= Difficulty(p) THEN p ELSE DifficultyTarget(next)

\* mutant: a target a little harder than the difficulty
ChosenAbove(next, p) ==
    IF Difficulty(DifficultyTarget(next + 1)) >= Difficulty(p) THEN p
    ELSE DifficultyTarget(next + 1)

\* The target for it, never harder than the pool's.
Chosen(next, p) ==
    IF next >= Difficulty(p) \/ Difficulty(DifficultyTarget(next)) >= Difficulty(p)
    THEN p ELSE DifficultyTarget(next)

Retarget(v, target) ==
    IF target = v.issue.target THEN v
    ELSE [v EXCEPT !.prior = v.issue, !.issue = Issue(target, Difficulty(target))]

\* tune()
Tune(v, p, want) ==
    LET ceiling == Issue(p, Difficulty(p))
    IN  Retarget([v EXCEPT !.ceiling = ceiling],
                 Chosen(Wanted(v, ceiling.difficulty, want), p))

-----------------------------------------------------------------------------
VARIABLES
    vd,         \* entry.vardiff: issue, prior and ceiling
    pool,       \* the target of the job of the miner's link
    wire,       \* targets on their way to the miner, in order
    held,       \* the last one it has received
    shares,     \* shares on their way to the proxy, in order
    number,     \* history: how many targets have been issued
    early,      \* history: issues settled by a share found under an earlier one
    last        \* history: what became of the share that was just handled

vars == <<vd, pool, wire, held, shares, number, early, last>>

NoTask  == [target |-> NoIssue.target, number |-> 0]
NoShare == [outcome |-> "none"]

Init ==
    /\ \E seed \in Seeds : vd = NewVarDiff(seed)
    /\ pool \in Pools
    /\ wire = <<>> /\ held = NoTask /\ shares = <<>>
    /\ number = 0 /\ early = {} /\ last = NoShare

\* The proxy tunes for the pool's target.
Tuned(p, want) ==
    /\ vd' = Tune(vd, p, want)
    /\ number' = number + (IF vd'.issue # vd.issue THEN 1 ELSE 0)
    /\ number' <= MaxIssues

Send == wire' = Append(wire, [target |-> vd'.issue.target, number |-> number'])

\* A job is pushed: by a login, a new job of the link or a migration to
\* another one (payload).
Push(p, want) ==
    /\ Len(wire) < MaxWire
    /\ pool' = p
    /\ Tuned(p, want)
    /\ Send
    /\ last' = NoShare
    /\ UNCHANGED <<held, shares, early>>

\* The link has a new job and no nonce for the miner, which keeps its old one.
NewPool(p) ==
    /\ pool' = p
    /\ last' = NoShare
    /\ UNCHANGED <<vd, wire, held, shares, number, early>>

\* LocalBackend.chunk: the miner, which has the job of the link, is granted
\* more of it, and told its target if that has changed.
Chunk(want) ==
    /\ held # NoTask /\ wire = <<>> /\ vd.ceiling.target = pool
    /\ Tuned(pool, want)
    /\ IF vd'.issue.target = vd.issue.target THEN UNCHANGED wire ELSE Send
    /\ last' = NoShare
    /\ UNCHANGED <<pool, held, shares, early>>

Receive ==
    /\ wire # <<>>
    /\ held' = Head(wire)
    /\ wire' = Tail(wire)
    /\ last' = NoShare
    /\ UNCHANGED <<vd, pool, shares, number, early>>

\* The miner finds a share for the target it has.
Find(value) ==
    /\ held # NoTask /\ Meets(value, held.target)
    /\ Len(shares) < MaxWire
    /\ shares' = Append(shares, [value |-> value, task |-> held])
    /\ last' = NoShare
    /\ UNCHANGED <<vd, pool, wire, held, number, early>>

\* mutant: a share for the floor settles
SettlesAny(value) == TRUE

\* The share shows that the miner has the target issued last, or might have.
Settles(value) ==
    Floor(vd).target = vd.issue.target \/ Meets(value, vd.issue.target)

\* mutant: every share is worth what was issued last
CreditIssued(value) == vd.issue.difficulty

\* What a share is worth.
Credit(value) ==
    IF Settles(value) THEN Greatest(vd.issue.difficulty, Floor(vd).difficulty)
    ELSE Floor(vd).difficulty

Verdict(outcome, share, credit) ==
    [outcome |-> outcome, share |-> share, credit |-> credit,
     issue |-> vd.issue, floor |-> Floor(vd), number |-> number, early |-> number \in early]

\* LocalBackend.submit of a share with a nonce the miner owns.
Submit ==
    /\ shares # <<>>
    /\ shares' = Tail(shares)
    /\ LET s == Head(shares)
       IN  IF ~ Meets(s.value, Floor(vd).target)
           THEN /\ last' = Verdict("denied", s, 0)
                /\ UNCHANGED <<vd, early>>
           ELSE /\ last' = Verdict(IF Meets(s.value, pool) THEN "forwarded" ELSE "absorbed",
                                   s, Credit(s.value))
                /\ vd' = IF Settles(s.value) THEN [vd EXCEPT !.prior = NoIssue] ELSE vd
                /\ early' = IF s.task.number < number /\ Meets(s.value, vd.issue.target)
                            THEN early \union {number} ELSE early
    /\ UNCHANGED <<pool, wire, held, number>>

Next ==
    \/ \E p \in Pools, want \in Wants : Push(p, want)
    \/ \E p \in Pools : NewPool(p)
    \/ \E want \in Wants : Chunk(want)
    \/ Receive
    \/ \E value \in Values : Find(value)
    \/ Submit

Spec == Init /\ [][Next]_vars

-----------------------------------------------------------------------------
\* Type invariant.
IssueType == [target : Targets, difficulty : Nat]
TaskType  == [target : Targets, number : 0 .. MaxIssues]

TypeOK ==
    /\ vd \in [issue : IssueType, prior : IssueType \union {NoIssue}, ceiling : IssueType \union {NoIssue}]
    /\ vd.issue.difficulty > 0 /\ vd.prior # vd.issue
    /\ pool \in Pools
    /\ wire \in Seq(TaskType) /\ held \in TaskType \union {NoTask}
    /\ shares \in Seq([value : Values, task : TaskType])
    /\ number \in 0 .. MaxIssues /\ early \subseteq 0 .. MaxIssues

\* The difficulty recorded of an issue is the one of its target.
Recorded(i) == i.difficulty = Difficulty(i.target)

\* A hash that meets the pool's target meets the one assigned, and the one the
\* proxy asks of shares, in spite of two roundings: no solution is denied for
\* its difficulty (tune, floor).  It is asked of issues that record what they
\* are.
SolutionsPass ==
    vd.ceiling # NoIssue =>
        /\ Value(vd.ceiling.target) <= Value(vd.issue.target)
        /\ Recorded(Floor(vd)) => Value(vd.ceiling.target) <= Value(Floor(vd).target)

\* Credited work is proven work: a share counts for no more than its hash has
\* proven; and for no less than the target it was found under, if that is
\* still the one issued (submit).
CreditIsProven ==
    last.outcome \in {"absorbed", "forwarded"} =>
        /\ last.credit <= Proven(last.share.value)
        /\ last.share.task.number = last.number => last.credit >= last.issue.difficulty

\* The target issued first lies between the difficulty the constructor has
\* recorded and the one its rounded target stands for.
UnderRounded ==
    /\ last.number = 1
    /\ last.floor.difficulty < last.issue.difficulty
    /\ last.issue.difficulty < Difficulty(last.floor.target)

\* A share is denied for its difficulty only if its target was replaced twice;
\* or once, and another share found under it met the next one as well; or once,
\* by a stricter one of the same difficulty.  A share of the target there is
\* is denied only while the constructor's is the floor, which was rounded past
\* that one (floor, settle, submit).
DeniedOnlyStale ==
    last.outcome = "denied" =>
        \/ last.share.task.number + 2 <= last.number
        \/ /\ last.share.task.number + 1 = last.number
           /\ \/ last.early
              \/ Difficulty(last.share.task.target) = last.issue.difficulty
        \/ last.share.task.number = last.number /\ UnderRounded

\* What submit makes of a share is fair, whatever was retuned while the share was
\* on its way.
VerdictsFair == CreditIsProven /\ DeniedOnlyStale

\* tune comes to rest: called again and again with nothing changed, it retunes
\* at most twice, so that a steady miner sees no difficulty change for ever.
RetuneEnds ==
    \A want \in Wants :
        LET once  == Tune(vd, pool, want)
            twice == Tune(once, pool, want)
        IN  Tune(twice, pool, want).issue = twice.issue
=============================================================================
