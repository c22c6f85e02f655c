--------------------------- MODULE VarDiffProofs ---------------------------
(* What VarDiff promises of difficulties, for every scale and every target. *)
EXTENDS VarDiff, TLAPS

-----------------------------------------------------------------------------
\* Division rounds down.
LEMMA DivBounds ==
    ASSUME NEW a \in Nat, NEW b \in Nat \ {0}
    PROVE  /\ a \div b \in Nat
           /\ b * (a \div b) <= a
           /\ a < b * (a \div b) + b
BY SMT

LEMMA MulMono ==
    ASSUME NEW a \in Nat, NEW b \in Nat, NEW c \in Nat, a <= b
    PROVE  c * a <= c * b
BY SMT

\* A quotient is at least what fits, and less than what does not.
LEMMA DivAtLeast ==
    ASSUME NEW a \in Nat, NEW b \in Nat \ {0}, NEW q \in Nat, b * q <= a
    PROVE  q <= a \div b
<1> DEFINE d == a \div b
<1>1. d \in Nat /\ a < b * d + b
  BY DivBounds
<1>2. SUFFICES ASSUME d + 1 <= q
               PROVE  FALSE
  BY <1>1
<1> HIDE DEF d
<1>3. b * (d + 1) <= b * q
  BY <1>1, <1>2, MulMono
<1>4. b * (d + 1) = b * d + b
  BY <1>1
<1>5. b * d \in Nat /\ b * q \in Nat /\ b * (d + 1) \in Nat
  BY <1>1
<1> QED
  BY <1>1, <1>3, <1>4, <1>5

\* Dividing by more gives no more.
LEMMA DivMono ==
    ASSUME NEW a \in Nat, NEW b \in Nat \ {0}, NEW c \in Nat \ {0}, b <= c
    PROVE  a \div c <= a \div b
<1> DEFINE q == a \div c
<1>1. q \in Nat /\ c * q <= a
  BY DivBounds
<1> HIDE DEF q
<1>2. q * b <= q * c /\ q * b = b * q /\ q * c = c * q
  BY <1>1, MulMono
<1>3. b * q \in Nat /\ c * q \in Nat
  BY <1>1
<1>4. b * q <= a
  BY <1>1, <1>2, <1>3
<1> QED
  BY <1>1, <1>4, DivAtLeast DEF q

-----------------------------------------------------------------------------
\* The difficulty of a target: a quotient, and not 0.
LEMMA DifficultyType ==
    ASSUME NEW t \in Targets
    PROVE  Difficulty(t) \in Nat \ {0}
<1>1. U32 \in Nat \ {0} /\ U64 \in Nat
  BY VarDiffAssumption
<1>2. CASE t.form = "long"
  <2>1. t.n \in Nat \ {0} /\ t.n <= U64
    BY <1>1, <1>2 DEF Targets
  <2>2. 1 <= U64 \div t.n /\ U64 \div t.n \in Nat
    BY <1>1, <2>1, DivAtLeast, DivBounds
  <2> QED
    BY <1>2, <2>2 DEF Difficulty
<1>3. CASE t.form # "long"
  <2>1. t.n \in Nat \ {0} /\ t.n <= U32
    BY <1>1, <1>3 DEF Targets
  <2>2. 1 <= U32 \div t.n /\ U32 \div t.n \in Nat
    BY <1>1, <2>1, DivAtLeast, DivBounds
  <2> QED
    BY <1>3, <2>2 DEF Difficulty
<1> QED
  BY <1>2, <1>3

\* The value of a compact target is the quotient by its difficulty, that of a
\* long one at most that.
LEMMA ValueType ==
    ASSUME NEW t \in Targets
    PROVE  /\ Value(t) \in Nat
           /\ Value(t) <= U64 \div Difficulty(t)
           /\ \A d \in Nat \ {0} : Difficulty(t) < d => U64 \div d <= Value(t)
<1>1. U32 \in Nat \ {0} /\ U64 \in Nat
  BY VarDiffAssumption
<1>2. CASE t.form = "long"
  <2> DEFINE q == U64 \div t.n
  <2>1. t.n \in Nat \ {0} /\ Value(t) = t.n /\ Difficulty(t) = q
    BY <1>1, <1>2 DEF Targets, Value, Difficulty
  <2>2. q \in Nat \ {0}
    BY <2>1, DifficultyType
  <2>3. t.n * q <= U64 /\ U64 < t.n * q + t.n
    BY <1>1, <2>1, DivBounds
  <2> HIDE DEF q
  <2>4. t.n <= U64 \div q
    <3>1. q * t.n = t.n * q
      BY <2>1, <2>2
    <3> QED
      BY <1>1, <2>1, <2>2, <2>3, <3>1, DivAtLeast
  <2>5. ASSUME NEW d \in Nat \ {0}, q < d
        PROVE  U64 \div d <= t.n
    <3> DEFINE r == U64 \div d
    <3>1. r \in Nat /\ d * r <= U64
      BY <1>1, DivBounds
    <3> HIDE DEF r
    <3>2. SUFFICES ASSUME t.n <= r
                   PROVE  r <= t.n
      BY <2>1, <3>1 DEF r
    <3>3. d * t.n <= d * r
      BY <2>1, <3>1, <3>2, MulMono
    <3>4. t.n * (q + 1) <= t.n * d
      BY <2>1, <2>2, <2>5, MulMono
    <3>5. t.n * (q + 1) = t.n * q + t.n /\ t.n * d = d * t.n
      BY <2>1, <2>2
    <3>6. t.n * q \in Nat /\ d * t.n \in Nat /\ d * r \in Nat /\ t.n * (q + 1) \in Nat
      BY <2>1, <2>2, <3>1
    <3> QED
      BY <1>1, <2>1, <2>3, <3>1, <3>3, <3>4, <3>5, <3>6
  <2> QED
    BY <2>1, <2>4, <2>5
<1>3. CASE t.form # "long"
  <2>1. Value(t) = U64 \div Difficulty(t)
    BY <1>3 DEF Value, Difficulty
  <2>2. Difficulty(t) \in Nat \ {0}
    BY DifficultyType
  <2>3. Value(t) \in Nat
    BY <1>1, <2>1, <2>2, DivBounds
  <2>4. ASSUME NEW d \in Nat \ {0}, Difficulty(t) < d
        PROVE  U64 \div d <= Value(t)
    BY <1>1, <2>1, <2>2, <2>4, DivMono
  <2> QED
    BY <2>1, <2>3, <2>4
<1> QED
  BY <1>2, <1>3

\* A target of less difficulty is met by every hash that meets the other, for
\* all the rounding there is between the two forms.
LEMMA EasierIsMet ==
    ASSUME NEW t \in Targets, NEW p \in Targets, Difficulty(t) < Difficulty(p)
    PROVE  Value(p) <= Value(t)
<1>1. Difficulty(p) \in Nat \ {0} /\ U64 \in Nat
  BY DifficultyType, VarDiffAssumption
<1>2. U64 \div Difficulty(p) \in Nat
  BY <1>1, DivBounds
<1>3. Value(p) <= U64 \div Difficulty(p) /\ U64 \div Difficulty(p) <= Value(t)
  BY <1>1, ValueType
<1> QED
  BY <1>2, <1>3, ValueType

\* Of the targets of one difficulty a compact one is met by the most hashes.
LEMMA CompactIsMet ==
    ASSUME NEW t \in Targets, NEW p \in Targets, t.form = "compact", Difficulty(t) = Difficulty(p)
    PROVE  Value(p) <= Value(t)
<1>1. Value(t) = U64 \div Difficulty(t)
  BY DEF Value, Difficulty
<1> QED
  BY <1>1, ValueType

-----------------------------------------------------------------------------
VdType(v) ==
    /\ v \in [issue : IssueType, prior : IssueType \union {NoIssue}, ceiling : IssueType \union {NoIssue}]
    /\ v.issue.difficulty > 0 /\ v.prior # v.issue

\* What is issued is no more than its target stands for, and within the pool's.
Within(v) ==
    /\ v.issue.difficulty <= Difficulty(v.issue.target)
    /\ v.ceiling # NoIssue =>
        \/ v.issue.target = v.ceiling.target
        \/ Difficulty(v.issue.target) < Difficulty(v.ceiling.target)

LEMMA TargetType ==
    ASSUME NEW d \in Nat
    PROVE  DifficultyTarget(d) \in Targets
<1> DEFINE e == Greatest(1, d)
<1> DEFINE q == U32 \div e
<1>1. U32 \in Nat \ {0}
  BY VarDiffAssumption
<1>2. e \in Nat \ {0}
  BY DEF Greatest
<1>3. q \in Nat
  BY <1>1, <1>2, DivBounds
<1>4. DifficultyTarget(d) = Compact(Greatest(1, Least(U32, q)))
  BY DEF DifficultyTarget
<1> HIDE DEF q, e
<1>5. Greatest(1, Least(U32, q)) \in 1 .. U32
  BY <1>1, <1>3 DEF Greatest, Least
<1> QED
  BY <1>4, <1>5 DEF Compact, Targets

\* Rounding down twice rounds a difficulty up.
LEMMA TargetRoundsUp ==
    ASSUME NEW d \in 1 .. U32
    PROVE  d <= Difficulty(DifficultyTarget(d))
<1> DEFINE q == U32 \div d
<1>1. U32 \in Nat \ {0} /\ d \in Nat \ {0}
  BY VarDiffAssumption
<1>2. q \in Nat /\ d * q <= U32
  BY <1>1, DivBounds
<1>3. 1 <= q
  BY <1>1, DivAtLeast
<1>4. q <= U32
  <2> HIDE DEF q
  <2>1. q * 1 <= q * d /\ q * d = d * q /\ q * 1 = q
    BY <1>1, <1>2, MulMono
  <2>2. d * q \in Nat
    BY <1>1, <1>2
  <2> QED
    BY <1>1, <1>2, <2>1, <2>2
<1>5. Greatest(1, d) = d
  BY <1>1 DEF Greatest
<1>6. DifficultyTarget(d) = Compact(Greatest(1, Least(U32, q)))
  BY <1>5 DEF DifficultyTarget
<1> HIDE DEF q
<1>7. Greatest(1, Least(U32, q)) = q
  BY <1>1, <1>2, <1>3, <1>4 DEF Greatest, Least
<1>8. Difficulty(DifficultyTarget(d)) = U32 \div q
  BY <1>6, <1>7 DEF Difficulty, Compact
<1>9. q * d <= U32
  BY <1>1, <1>2
<1> QED
  BY <1>1, <1>2, <1>3, <1>8, <1>9, DivAtLeast

LEMMA WantedType ==
    ASSUME NEW v, VdType(v), NEW ceiling \in Nat, NEW want \in Nat
    PROVE  Wanted(v, ceiling, want) \in Nat
<1>1. MinDifficulty \in Nat
  BY VarDiffAssumption
<1>2. v.issue.difficulty \in Nat
  BY DEF VdType, IssueType
<1> QED
  BY <1>1, <1>2 DEF Wanted, Least, Greatest

\* The target that is chosen is the pool's, or easier.
LEMMA ChosenFits ==
    ASSUME NEW next \in Nat, NEW p \in Targets
    PROVE  /\ Chosen(next, p) \in Targets
           /\ Chosen(next, p) = p \/ Difficulty(Chosen(next, p)) < Difficulty(p)
<1>1. DifficultyTarget(next) \in Targets
  BY TargetType
<1>2. Difficulty(DifficultyTarget(next)) \in Nat /\ Difficulty(p) \in Nat
  BY <1>1, DifficultyType
<1> QED
  BY <1>1, <1>2 DEF Chosen

\* What tune leaves behind.
LEMMA TuneFits ==
    ASSUME NEW v, VdType(v), Within(v), NEW p \in Targets, NEW want \in Nat
    PROVE  VdType(Tune(v, p, want)) /\ Within(Tune(v, p, want))
<1> DEFINE c == Issue(p, Difficulty(p))
<1> DEFINE w == [v EXCEPT !.ceiling = c]
<1> DEFINE t == Chosen(Wanted(v, c.difficulty, want), p)
<1>1. Difficulty(p) \in Nat \ {0}
  BY DifficultyType
<1>2. c \in IssueType /\ c.difficulty = Difficulty(p) /\ c.target = p
  BY <1>1 DEF Issue, IssueType
<1>3. Wanted(w, c.difficulty, want) = Wanted(v, c.difficulty, want)
  BY DEF VdType, Wanted
<1>4. Tune(v, p, want) = Retarget(w, t)
  BY <1>3 DEF Tune
<1>5. t \in Targets /\ (t = p \/ Difficulty(t) < Difficulty(p))
  BY <1>1, <1>2, WantedType, ChosenFits
<1> HIDE DEF c, t
<1>6. /\ w.issue = v.issue /\ w.prior = v.prior /\ w.ceiling = c
      /\ w \in [issue : IssueType, prior : IssueType \union {NoIssue}, ceiling : IssueType \union {NoIssue}]
  BY <1>2 DEF VdType
<1> HIDE DEF w
<1>7. CASE t = v.issue.target
  <2>1. Tune(v, p, want) = w
    BY <1>4, <1>6, <1>7 DEF Retarget
  <2> QED
    BY <1>2, <1>5, <1>6, <1>7, <2>1 DEF VdType, Within
<1>8. CASE t # v.issue.target
  <2> DEFINE i == Issue(t, Difficulty(t))
  <2>1. Difficulty(t) \in Nat \ {0}
    BY <1>5, DifficultyType
  <2>2. i \in IssueType /\ i.target = t /\ i.difficulty = Difficulty(t)
    BY <1>5, <2>1 DEF Issue, IssueType
  <2>3. Tune(v, p, want) = [w EXCEPT !.prior = w.issue, !.issue = i]
    BY <1>4, <1>6, <1>8 DEF Retarget
  <2> HIDE DEF i
  <2>4. i # v.issue
    BY <1>8, <2>2
  <2>5. /\ Tune(v, p, want).issue = i /\ Tune(v, p, want).prior = v.issue
        /\ Tune(v, p, want).ceiling = c
        /\ Tune(v, p, want) \in [issue : IssueType, prior : IssueType \union {NoIssue}, ceiling : IssueType \union {NoIssue}]
    BY <1>6, <2>2, <2>3 DEF VdType
  <2>6. VdType(Tune(v, p, want))
    BY <2>1, <2>2, <2>4, <2>5 DEF VdType
  <2>7. Within(Tune(v, p, want))
    BY <1>2, <1>5, <2>1, <2>2, <2>5 DEF Within
  <2> QED
    BY <2>6, <2>7
<1> QED
  BY <1>7, <1>8

-----------------------------------------------------------------------------
\* The types of the rest.
QueueType ==
    /\ pool \in Pools
    /\ wire \in Seq(TaskType) /\ held \in TaskType \union {NoTask}
    /\ shares \in Seq([value : Values, task : TaskType])
    /\ number \in 0 .. MaxIssues /\ early \subseteq 0 .. MaxIssues

\* The inductive invariant.
IInv == VdType(vd) /\ Within(vd) /\ QueueType

LEMMA InitIInv == Init => IInv
<1> SUFFICES ASSUME Init PROVE IInv
  OBVIOUS
<1>1. PICK seed \in Seeds : vd = NewVarDiff(seed)
  BY DEF Init
<1> DEFINE d == Greatest(MinDifficulty, seed)
<1>2. d \in 1 .. U32 /\ d \in Nat
  BY VarDiffAssumption DEF Greatest
<1>3. vd = [issue |-> Issue(DifficultyTarget(d), d), prior |-> NoIssue, ceiling |-> NoIssue]
  BY <1>1 DEF NewVarDiff
<1> HIDE DEF d
<1>4. DifficultyTarget(d) \in Targets /\ d <= Difficulty(DifficultyTarget(d))
  BY <1>2, TargetType, TargetRoundsUp
<1>5. DifficultyTarget(d) # NoIssue.target
  BY <1>4 DEF Targets, NoIssue
<1>6. VdType(vd)
  BY <1>2, <1>3, <1>4, <1>5 DEF VdType, IssueType, Issue, NoIssue
<1>7. Within(vd)
  BY <1>3, <1>4 DEF Within, Issue
<1>8. QueueType
  BY VarDiffAssumption DEF Init, QueueType
<1> QED
  BY <1>6, <1>7, <1>8 DEF IInv

\* What a step that tunes leaves, and sends.
LEMMA TuneStep ==
    ASSUME IInv, NEW p \in Pools, NEW want \in Wants, Tuned(p, want)
    PROVE  /\ VdType(vd)' /\ Within(vd)'
           /\ number' \in 0 .. MaxIssues
           /\ [target |-> vd'.issue.target, number |-> number'] \in TaskType
<1>1. p \in Targets /\ want \in Nat /\ MaxIssues \in Nat
  BY VarDiffAssumption
<1>2. VdType(vd) /\ Within(vd) /\ vd' = Tune(vd, p, want)
  BY DEF IInv, Tuned
<1>3. VdType(vd') /\ Within(vd')
  BY <1>1, <1>2, TuneFits
<1>4. number' \in 0 .. MaxIssues
  BY <1>1 DEF Tuned, IInv, QueueType
<1>5. vd'.issue.target \in Targets
  BY <1>3 DEF VdType, IssueType
<1> QED
  BY <1>3, <1>4, <1>5 DEF TaskType

LEMMA NextIInv == IInv /\ [Next]_vars => IInv'
<1> SUFFICES ASSUME IInv, [Next]_vars PROVE IInv'
  OBVIOUS
<1> USE DEF IInv
<1>1. ASSUME NEW p \in Pools, NEW want \in Wants, Push(p, want)
      PROVE  IInv'
  <2>1. VdType(vd)' /\ Within(vd)' /\ number' \in 0 .. MaxIssues
    BY <1>1, TuneStep DEF Push
  <2>2. wire' \in Seq(TaskType)
    BY <1>1, TuneStep DEF Push, Send, QueueType
  <2> QED
    BY <1>1, <2>1, <2>2 DEF Push, QueueType
<1>2. ASSUME NEW p \in Pools, NewPool(p)
      PROVE  IInv'
  BY <1>2 DEF NewPool, QueueType, VdType, Within
<1>3. ASSUME NEW want \in Wants, Chunk(want)
      PROVE  IInv'
  <2>1. pool \in Pools /\ Tuned(pool, want)
    BY <1>3 DEF Chunk, QueueType
  <2>2. VdType(vd)' /\ Within(vd)' /\ number' \in 0 .. MaxIssues
    BY <2>1, TuneStep
  <2>3. wire' \in Seq(TaskType)
    <3>1. wire \in Seq(TaskType)
      BY DEF QueueType
    <3>2. wire' = wire \/ Send
      BY <1>3 DEF Chunk
    <3>3. [target |-> vd'.issue.target, number |-> number'] \in TaskType
      BY <2>1, TuneStep
    <3> QED
      BY <3>1, <3>2, <3>3 DEF Send
  <2> QED
    BY <1>3, <2>2, <2>3 DEF Chunk, QueueType
<1>4. CASE Receive
  <2>1. VdType(vd)' /\ Within(vd)'
    BY <1>4 DEF Receive, VdType, Within
  <2>2. wire' \in Seq(TaskType) /\ held' \in TaskType
    BY <1>4 DEF Receive, QueueType
  <2> QED
    BY <1>4, <2>1, <2>2 DEF Receive, QueueType
<1>5. ASSUME NEW value \in Values, Find(value)
      PROVE  IInv'
  <2>1. VdType(vd)' /\ Within(vd)'
    BY <1>5 DEF Find, VdType, Within
  <2>2. shares' \in Seq([value : Values, task : TaskType])
    BY <1>5 DEF Find, QueueType
  <2> QED
    BY <1>5, <2>1, <2>2 DEF Find, QueueType
<1>6. CASE Submit
  <2>1. shares' \in Seq([value : Values, task : TaskType])
    BY <1>6 DEF Submit, QueueType
  <2>2. early' \subseteq 0 .. MaxIssues
    BY <1>6 DEF Submit, QueueType
  <2>3. QueueType'
    BY <1>6, <2>1, <2>2 DEF Submit, QueueType
  <2>4. vd' = vd \/ vd' = [vd EXCEPT !.prior = NoIssue]
    BY <1>6 DEF Submit
  <2>5. CASE vd' = vd
    BY <2>3, <2>5 DEF VdType, Within
  <2>6. CASE vd' = [vd EXCEPT !.prior = NoIssue]
    <3>1. /\ vd'.issue = vd.issue /\ vd'.prior = NoIssue /\ vd'.ceiling = vd.ceiling
          /\ vd' \in [issue : IssueType, prior : IssueType \union {NoIssue}, ceiling : IssueType \union {NoIssue}]
      BY <2>6 DEF VdType
    <3>2. vd.issue # NoIssue
      BY DEF VdType, NoIssue
    <3> QED
      BY <2>3, <3>1, <3>2 DEF VdType, Within
  <2> QED
    BY <2>4, <2>5, <2>6
<1>7. CASE UNCHANGED vars
  BY <1>7 DEF vars, QueueType, VdType, Within
<1> QED
  BY <1>1, <1>2, <1>3, <1>4, <1>5, <1>6, <1>7 DEF Next

LEMMA Invariance == Spec => []IInv
<1>1. Init => IInv
  BY InitIInv
<1>2. IInv /\ [Next]_vars => IInv'
  BY NextIInv
<1> QED
  BY <1>1, <1>2, PTL DEF Spec

\* Types; in particular a target handed out is never 0, and never replaced by
\* itself.
THEOREM TypeCorrect == Spec => []TypeOK
<1>1. IInv => TypeOK
  BY DEF IInv, VdType, QueueType, TypeOK
<1> QED
  BY <1>1, Invariance, PTL

\* No hash that meets the pool's target is denied for its difficulty, whatever
\* the two scales are and however targets are rounded.
THEOREM NoSolutionDenied == Spec => []SolutionsPass
<1>1. IInv => SolutionsPass
  <2> SUFFICES ASSUME IInv, vd.ceiling # NoIssue
               PROVE  /\ Value(vd.ceiling.target) <= Value(vd.issue.target)
                      /\ Recorded(Floor(vd)) => Value(vd.ceiling.target) <= Value(Floor(vd).target)
    BY DEF SolutionsPass
  <2> DEFINE c == vd.ceiling.target
  <2> DEFINE t == vd.issue.target
  <2>1. c \in Targets /\ t \in Targets /\ vd.issue.difficulty \in Nat
    BY DEF IInv, VdType, IssueType
  <2>2. vd.issue.difficulty <= Difficulty(t) /\ (t = c \/ Difficulty(t) < Difficulty(c))
    BY DEF IInv, Within
  <2>3. Difficulty(t) \in Nat /\ Difficulty(c) \in Nat /\ Value(c) \in Nat /\ Value(t) \in Nat
    BY <2>1, DifficultyType, ValueType
  <2> HIDE DEF c, t
  <2>4. Value(c) <= Value(t)
    BY <2>1, <2>2, <2>3, EasierIsMet
  <2>5. ASSUME Recorded(Floor(vd)), Floor(vd) # vd.issue
        PROVE  Value(c) <= Value(Floor(vd).target)
    <3> DEFINE f == Floor(vd)
    <3>1. f = vd.prior /\ f # NoIssue /\ f.difficulty < vd.issue.difficulty
      BY <2>5 DEF Floor
    <3>2. f.target \in Targets /\ f.difficulty \in Nat
      BY <3>1 DEF IInv, VdType, IssueType
    <3>3. f.difficulty = Difficulty(f.target)
      BY <2>5 DEF Recorded
    <3> HIDE DEF f
    <3>4. Difficulty(f.target) < Difficulty(c)
      BY <2>1, <2>2, <2>3, <3>1, <3>2, <3>3
    <3> QED
      BY <2>1, <3>2, <3>4, EasierIsMet DEF f
  <2> QED
    BY <2>4, <2>5 DEF c, t
<1> QED
  BY <1>1, Invariance, PTL

-----------------------------------------------------------------------------
(* tune comes to rest.                                                      *)

\* A difficulty rounded to a target stands for a difficulty that is rounded to
\* the same target.
LEMMA RoundedOnce ==
    ASSUME NEW d \in Nat \ {0}
    PROVE  DifficultyTarget(Difficulty(DifficultyTarget(d))) = DifficultyTarget(d)
<1>1. U32 \in Nat \ {0}
  BY VarDiffAssumption
<1> DEFINE q == U32 \div d
<1> DEFINE n == Greatest(1, Least(U32, q))
<1>2. q \in Nat /\ d * q <= U32 /\ U32 < d * q + d
  BY <1>1, DivBounds
<1>3. Greatest(1, d) = d
  BY DEF Greatest
<1>4. DifficultyTarget(d) = Compact(n)
  BY <1>3 DEF DifficultyTarget
<1> HIDE DEF q
<1>5. n \in 1 .. U32 /\ n \in Nat \ {0}
  BY <1>1, <1>2 DEF Greatest, Least
<1> HIDE DEF n
<1> DEFINE e == U32 \div n
<1>6. Difficulty(DifficultyTarget(d)) = e
  BY <1>4 DEF Difficulty, Compact
<1>7. e \in Nat /\ n * e <= U32 /\ 1 <= e
  BY <1>1, <1>5, DivBounds, DivAtLeast
<1> HIDE DEF e
<1> DEFINE r == U32 \div e
<1>8. n <= r /\ r \in Nat
  <2>1. e * n <= U32
    BY <1>5, <1>7
  <2> QED
    BY <1>1, <1>5, <1>7, <2>1, DivAtLeast, DivBounds
<1>9. r <= U32
  <2>1. 1 * r <= e * r /\ e * r <= U32
    <3>1. e * r <= U32
      BY <1>1, <1>7, DivBounds
    <3>2. r * 1 <= r * e /\ r * 1 = r /\ r * e = e * r
      BY <1>7, <1>8, MulMono
    <3> QED
      BY <1>8, <3>1, <3>2
  <2>2. e * r \in Nat /\ 1 * r = r
    BY <1>7, <1>8
  <2> QED
    BY <1>1, <1>8, <2>1, <2>2
<1>10. r <= n
  <2>1. CASE q = 0
    <3>1. n = 1 /\ U32 < d
      BY <1>1, <1>2, <2>1 DEF n, Greatest, Least
    <3>2. e = U32
      BY <1>1, <3>1 DEF e
    <3>3. ~ (2 <= r)
      <4>1. e * r <= U32
        BY <1>1, <1>7, DivBounds
      <4>2. 2 <= r => e * 2 <= e * r
        BY <1>7, <1>8, MulMono
      <4>3. e * r \in Nat
        BY <1>7, <1>8
      <4> QED
        BY <1>1, <3>2, <4>1, <4>2, <4>3
    <3> QED
      BY <1>8, <3>1, <3>3
  <2>2. CASE q # 0
    <3>1. n = q
      <4>1. q <= U32
        <5>1. q * 1 <= q * d /\ q * 1 = q /\ q * d = d * q
          BY <1>2, MulMono
        <5>2. d * q \in Nat
          BY <1>2
        <5> QED
          BY <1>1, <1>2, <5>1, <5>2
      <4> QED
        BY <1>1, <1>2, <2>2, <4>1 DEF n, Greatest, Least
    <3>2. d <= e
      <4>1. n * d <= U32
        BY <1>2, <3>1
      <4> QED
        BY <1>1, <1>5, <4>1, DivAtLeast DEF e
    <3>3. e \in Nat \ {0}
      BY <1>7
    <3>4. U32 \div e <= U32 \div d
      BY <1>1, <3>2, <3>3, DivMono
    <3> QED
      BY <3>1, <3>4 DEF q
  <2> QED
    BY <2>1, <2>2
<1>11. r = n
  BY <1>5, <1>8, <1>10
<1>12. Greatest(1, e) = e
  BY <1>7 DEF Greatest
<1>13. DifficultyTarget(e) = Compact(Greatest(1, Least(U32, r)))
  BY <1>12 DEF DifficultyTarget
<1> HIDE DEF r
<1>14. Greatest(1, Least(U32, r)) = r
  BY <1>1, <1>5, <1>9, <1>11 DEF Greatest, Least
<1> QED
  BY <1>4, <1>6, <1>11, <1>13, <1>14

\* The target chosen for the difficulty of a chosen target is that target.
LEMMA ChosenAgain ==
    ASSUME NEW next \in Nat \ {0}, NEW p \in Targets
    PROVE  Chosen(Difficulty(Chosen(next, p)), p) = Chosen(next, p)
<1>1. Difficulty(p) \in Nat \ {0}
  BY DifficultyType
<1>2. CASE Chosen(next, p) = p
  BY <1>1, <1>2 DEF Chosen
<1>3. CASE Chosen(next, p) # p
  <2> DEFINE t == DifficultyTarget(next)
  <2>1. Chosen(next, p) = t /\ ~ (Difficulty(t) >= Difficulty(p))
    BY <1>3 DEF Chosen
  <2>2. t \in Targets /\ Difficulty(t) \in Nat
    BY TargetType, DifficultyType
  <2>3. DifficultyTarget(Difficulty(t)) = t
    BY RoundedOnce
  <2> HIDE DEF t
  <2> QED
    BY <2>1, <2>2, <2>3 DEF Chosen
<1> QED
  BY <1>2, <1>3

\* What tune issues: what there is, or a target for the difficulty it is after.
LEMMA TuneIssues ==
    ASSUME NEW v, VdType(v), NEW p \in Targets, NEW want \in Nat
    PROVE  LET next == Wanted(v, Difficulty(p), want)
               t    == Chosen(next, p)
           IN  /\ Tune(v, p, want).issue =
                      IF t = v.issue.target THEN v.issue ELSE Issue(t, Difficulty(t))
               /\ next \in {v.issue.difficulty,
                            Least(Difficulty(p), Greatest(MinDifficulty, want))}
<1> DEFINE c == Issue(p, Difficulty(p))
<1> DEFINE w == [v EXCEPT !.ceiling = c]
<1> DEFINE next == Wanted(v, Difficulty(p), want)
<1> DEFINE t == Chosen(next, p)
<1>0. c.difficulty = Difficulty(p)
  BY DEF Issue
<1>1. Tune(v, p, want) = Retarget(w, Chosen(Wanted(v, c.difficulty, want), p))
  BY DEF Tune
<1>2. Tune(v, p, want) = Retarget(w, t)
  BY <1>0, <1>1
<1>3. next \in {v.issue.difficulty, Least(Difficulty(p), Greatest(MinDifficulty, want))}
  BY DEF Wanted
<1> HIDE DEF c, next
<1>4. w.issue = v.issue /\ w \in [issue : IssueType, prior : IssueType \union {NoIssue}, ceiling : {c}]
  BY DEF VdType
<1> HIDE DEF t, w
<1>5. Retarget(w, t).issue = IF t = v.issue.target THEN v.issue ELSE Issue(t, Difficulty(t))
  BY <1>4 DEF Retarget
<1> QED
  BY <1>2, <1>3, <1>5 DEF t, next

\* A retune to what is wanted is the last one.
LEMMA TuneStays ==
    ASSUME NEW v, VdType(v), NEW p \in Targets, NEW want \in Nat, NEW next \in Nat \ {0},
           v.issue = Issue(Chosen(next, p), Difficulty(Chosen(next, p))),
           next = Least(Difficulty(p), Greatest(MinDifficulty, want))
    PROVE  Tune(v, p, want).issue = v.issue
<1> DEFINE t == Chosen(next, p)
<1>1. v.issue.target = t /\ v.issue.difficulty = Difficulty(t)
  BY DEF Issue
<1>2. Chosen(Difficulty(t), p) = t
  BY ChosenAgain
<1> HIDE DEF t
<1> DEFINE again == Wanted(v, Difficulty(p), want)
<1>3. /\ Tune(v, p, want).issue =
             IF Chosen(again, p) = v.issue.target THEN v.issue
             ELSE Issue(Chosen(again, p), Difficulty(Chosen(again, p)))
      /\ again \in {v.issue.difficulty, next}
  BY TuneIssues
<1> HIDE DEF again
<1>4. Chosen(again, p) = t
  BY <1>1, <1>2, <1>3 DEF t
<1> QED
  BY <1>1, <1>3, <1>4

\* So a retune that is not is followed by one at most.
LEMMA TuneSettles ==
    ASSUME NEW v, VdType(v), Within(v), NEW p \in Targets, NEW want \in Nat
    PROVE  LET once  == Tune(v, p, want)
               twice == Tune(once, p, want)
           IN  Tune(twice, p, want).issue = twice.issue
<1>1. PICK u : u = Tune(v, p, want)
  OBVIOUS
<1>2. PICK x : x = Tune(u, p, want)
  OBVIOUS
<1>3. VdType(u) /\ Within(u)
  BY <1>1, TuneFits
<1>4. VdType(x) /\ Within(x)
  BY <1>2, <1>3, TuneFits
<1>5. PICK w \in Nat \ {0} : w = Least(Difficulty(p), Greatest(MinDifficulty, want))
  <2>1. MinDifficulty \in Nat \ {0} /\ Difficulty(p) \in Nat \ {0}
    BY DifficultyType, VarDiffAssumption
  <2> QED
    BY <2>1 DEF Least, Greatest
<1>6. PICK n : /\ n = Wanted(v, Difficulty(p), want) /\ n \in {v.issue.difficulty, w}
               /\ u.issue = IF Chosen(n, p) = v.issue.target THEN v.issue
                            ELSE Issue(Chosen(n, p), Difficulty(Chosen(n, p)))
  BY <1>1, <1>5, TuneIssues
<1>7. PICK m : /\ m = Wanted(u, Difficulty(p), want) /\ m \in {u.issue.difficulty, w}
               /\ x.issue = IF Chosen(m, p) = u.issue.target THEN u.issue
                            ELSE Issue(Chosen(m, p), Difficulty(Chosen(m, p)))
  BY <1>2, <1>3, <1>5, TuneIssues
<1>8. PICK k : /\ k = Wanted(x, Difficulty(p), want) /\ k \in {x.issue.difficulty, w}
               /\ Tune(x, p, want).issue = IF Chosen(k, p) = x.issue.target THEN x.issue
                                           ELSE Issue(Chosen(k, p), Difficulty(Chosen(k, p)))
  BY <1>4, <1>5, TuneIssues
<1>9. ASSUME x.issue = u.issue PROVE Tune(x, p, want).issue = x.issue
  <2>1. k = m
    BY <1>7, <1>8, <1>9 DEF Wanted
  <2> QED
    BY <1>7, <1>8, <1>9, <2>1
<1>10. ASSUME x.issue # u.issue, m = w PROVE Tune(x, p, want).issue = x.issue
  <2>1. x.issue = Issue(Chosen(w, p), Difficulty(Chosen(w, p)))
    BY <1>7, <1>10
  <2> QED
    BY <1>4, <1>5, <2>1, TuneStays
<1>11. ASSUME x.issue # u.issue, m # w PROVE FALSE
  <2>1. m = u.issue.difficulty /\ Chosen(m, p) # u.issue.target
    BY <1>7, <1>11
  <2>2. CASE u.issue = v.issue /\ Chosen(n, p) = v.issue.target
    <3>1. n = w
      BY <2>1, <2>2, <1>6
    <3>2. Wanted(v, Difficulty(p), want) = Wanted(u, Difficulty(p), want)
      BY <2>2 DEF Wanted
    <3> QED
      BY <1>6, <1>7, <1>11, <3>1, <3>2
  <2>3. CASE u.issue # v.issue
    <3>1. u.issue = Issue(Chosen(n, p), Difficulty(Chosen(n, p)))
      BY <1>6, <2>3
    <3>2. n \in Nat \ {0}
      BY <1>5, <1>6 DEF VdType, IssueType
    <3>3. Chosen(Difficulty(Chosen(n, p)), p) = Chosen(n, p)
      BY <3>2, ChosenAgain
    <3>4. u.issue.difficulty = Difficulty(Chosen(n, p)) /\ u.issue.target = Chosen(n, p)
      BY <3>1 DEF Issue
    <3> QED
      BY <2>1, <3>3, <3>4
  <2>4. CASE u.issue = v.issue /\ Chosen(n, p) # v.issue.target
    <3>1. u.issue.target = Chosen(n, p)
      BY <1>6, <2>4 DEF Issue
    <3> QED
      BY <2>4, <3>1
  <2> QED
    BY <2>2, <2>3, <2>4
<1> QED
  BY <1>1, <1>2, <1>9, <1>10, <1>11


\* tune comes to rest: with nothing changed in between, it retunes at most
\* twice, for every hashrate and any pair of scales, in spite of the difficulty
\* that is rounded to a target, and read back from it the next time.
THEOREM RetuningEnds == Spec => []RetuneEnds
<1>1. IInv => RetuneEnds
  <2> SUFFICES ASSUME IInv, NEW want \in Wants
               PROVE  LET once  == Tune(vd, pool, want)
                          twice == Tune(once, pool, want)
                      IN  Tune(twice, pool, want).issue = twice.issue
    BY DEF RetuneEnds
  <2>1. VdType(vd) /\ Within(vd) /\ pool \in Targets /\ want \in Nat
    BY VarDiffAssumption DEF IInv, QueueType
  <2>2. PICK v : v = vd
    OBVIOUS
  <2>3. PICK p : p = pool
    OBVIOUS
  <2>4. LET once  == Tune(v, p, want)
            twice == Tune(once, p, want)
        IN  Tune(twice, p, want).issue = twice.issue
    BY <2>1, <2>2, <2>3, TuneSettles
  <2> QED
    BY <2>2, <2>3, <2>4
<1> QED
  BY <1>1, Invariance, PTL

-----------------------------------------------------------------------------
(* What submit makes of shares that were found before a retune.             *)

\* A hash that meets a target has proven the target's difficulty.
LEMMA MeetsProven ==
    ASSUME NEW value \in Nat, NEW t \in Targets, Meets(value, t)
    PROVE  Difficulty(t) <= Proven(value)
<1>1. U32 \in Nat \ {0} /\ U64 \in Nat /\ U32 <= U64
  BY VarDiffAssumption
<1>2. Difficulty(t) \in Nat \ {0} /\ Value(t) \in Nat /\ Value(t) <= U64 \div Difficulty(t)
  BY DifficultyType, ValueType
<1> DEFINE d == Difficulty(t)
<1>3. value <= U64 \div d /\ U64 \div d \in Nat /\ d * (U64 \div d) <= U64
  <2>1. U64 \div d \in Nat /\ d * (U64 \div d) <= U64
    BY <1>1, <1>2, DivBounds
  <2> QED
    BY <1>2, <2>1 DEF Meets
<1> HIDE DEF d
<1>4. d \in Nat \ {0}
  BY <1>2 DEF d
<1>5. (d * value <= U64 /\ d * 1 <= U64) \/ value = 0
  <2>1. d * value <= d * (U64 \div d)
    BY <1>3, <1>4, MulMono
  <2>2. d * value \in Nat /\ d * (U64 \div d) \in Nat
    BY <1>3, <1>4
  <2>3. d * value <= U64
    BY <1>1, <1>3, <2>1, <2>2
  <2>4. CASE value # 0
    <3>1. d * 1 <= d * value
      BY <1>4, <2>4, MulMono
    <3> QED
      BY <1>1, <1>4, <2>2, <2>3, <3>1
  <2> QED
    BY <2>4
<1>6. CASE value # 0
  <2>1. value * d <= U64
    BY <1>4, <1>5, <1>6
  <2>2. d <= U64 \div value
    BY <1>1, <1>4, <1>6, <2>1, DivAtLeast
  <2> QED
    BY <1>6, <2>2 DEF Proven, d
<1>7. CASE value = 0
  <2>1. PICK n \in Nat \ {0}, u \in Nat : u <= U64 /\ d = u \div n
    <3>1. t.n \in Nat \ {0}
      BY <1>1 DEF Targets
    <3>2. d = U64 \div t.n \/ d = U32 \div t.n
      BY DEF d, Difficulty
    <3> QED
      BY <1>1, <3>1, <3>2
  <2>2. n * d <= u
    BY <2>1, DivBounds
  <2>3. d * 1 <= d * n /\ d * n = n * d /\ d * 1 = d
    BY <1>4, MulMono
  <2>4. n * d \in Nat
    BY <1>4
  <2>5. d <= U64
    BY <1>1, <1>4, <2>1, <2>2, <2>3, <2>4
  <2> QED
    BY <1>7, <2>5 DEF Proven, d
<1> QED
  BY <1>6, <1>7

\* What a tune makes of the issues: nothing, or a new one of a recorded
\* difficulty, before which the old one is kept.
LEMMA TuneResult ==
    ASSUME NEW v, VdType(v), NEW p \in Targets, NEW want \in Nat
    PROVE  \/ Tune(v, p, want).issue = v.issue /\ Tune(v, p, want).prior = v.prior
           \/ \E t \in Targets : /\ Tune(v, p, want).issue = Issue(t, Difficulty(t))
                                 /\ Tune(v, p, want).issue # v.issue
                                 /\ Tune(v, p, want).prior = v.issue
<1> DEFINE c == Issue(p, Difficulty(p))
<1> DEFINE w == [v EXCEPT !.ceiling = c]
<1> DEFINE t == Chosen(Wanted(v, c.difficulty, want), p)
<1>1. Tune(v, p, want) = Retarget(w, t)
  BY DEF Tune
<1>2. t \in Targets
  <2>1. c.difficulty = Difficulty(p) /\ Difficulty(p) \in Nat
    BY DifficultyType DEF Issue
  <2> QED
    BY <2>1, WantedType, ChosenFits
<1>3. /\ w.issue = v.issue /\ w.prior = v.prior
      /\ w \in [issue : IssueType, prior : IssueType \union {NoIssue}, ceiling : {c}]
  BY DEF VdType
<1> HIDE DEF t, w, c
<1>4. CASE t = v.issue.target
  BY <1>1, <1>3, <1>4 DEF Retarget
<1>5. CASE t # v.issue.target
  <2> DEFINE i == Issue(t, Difficulty(t))
  <2>1. i.target = t
    BY DEF Issue
  <2> HIDE DEF i
  <2>2. Tune(v, p, want) = [w EXCEPT !.prior = v.issue, !.issue = i]
    BY <1>1, <1>3, <1>5 DEF Retarget, i
  <2>3. Tune(v, p, want).issue = i /\ Tune(v, p, want).prior = v.issue
    BY <1>3, <2>2
  <2> QED
    BY <1>2, <1>5, <2>1, <2>3 DEF i
<1> QED
  BY <1>4, <1>5

-----------------------------------------------------------------------------
\* A task carries the target of the issue it is numbered after, if that is the
\* present one, or the one kept before it.
Numbered(t, v, n) ==
    /\ t.number <= n
    /\ t.number = n => t.target = v.issue.target
    /\ t.number + 1 = n /\ v.prior # NoIssue => t.target = v.prior.target

TasksKnown ==
    /\ \A i \in DOMAIN wire : Numbered(wire[i], vd, number)
    /\ held # NoTask => Numbered(held, vd, number)
    /\ \A i \in DOMAIN shares : /\ Numbered(shares[i].task, vd, number)
                                /\ Meets(shares[i].value, shares[i].task.target)

\* Shares, the task that is held and the tasks on their way are in the order in
\* which the targets were issued.
InOrder ==
    /\ held.number <= number
    /\ \A i \in DOMAIN wire : held.number <= wire[i].number /\ wire[i].number <= number
    /\ \A i, j \in DOMAIN wire : i <= j => wire[i].number <= wire[j].number
    /\ \A i \in DOMAIN shares : shares[i].task.number <= held.number
    /\ \A i, j \in DOMAIN shares : i <= j => shares[i].task.number <= shares[j].task.number

\* When the issue before is forgotten, and not because of an early share, nobody
\* works under it any more.
SettledOnce ==
    vd.prior = NoIssue /\ number \notin early =>
        /\ held.number = number
        /\ \A i \in DOMAIN wire : wire[i].number = number
        /\ \A i \in DOMAIN shares : shares[i].task.number = number

\* The issue before is no more difficult than its target.
PriorWithin == vd.prior # NoIssue => vd.prior.difficulty <= Difficulty(vd.prior.target)

\* Every seed is the difficulty of the target it is rounded to.
ExactSeeds ==
    \A seed \in Seeds : LET d == Greatest(MinDifficulty, seed)
                        IN  Difficulty(DifficultyTarget(d)) = d

\* An issue records what it is, but for the constructor's, which is a compact one.
FirstOrExact(i, first) ==
    /\ Recorded(i) \/ (first /\ i.target.form = "compact")
    /\ ExactSeeds => Recorded(i)

ExactIssues ==
    /\ FirstOrExact(vd.issue, number = 0)
    /\ vd.prior # NoIssue => number # 0 /\ FirstOrExact(vd.prior, number = 1)

InFlight == TasksKnown /\ InOrder /\ SettledOnce
Issues   == PriorWithin /\ ExactIssues

\* The one way to deny a share of the target there is takes a seed that is not
\* exact.
NoneFresh == last.outcome = "denied" => last.share.task.number # last.number

Verdicts == CreditIsProven /\ DeniedOnlyStale /\ (ExactSeeds => NoneFresh)

FairInv == InFlight /\ Issues /\ Verdicts

LEMMA InitFair == Init => FairInv
<1> SUFFICES ASSUME Init PROVE FairInv
  OBVIOUS
<1>1. wire = <<>> /\ held = NoTask /\ shares = <<>> /\ number = 0 /\ last = NoShare
  BY DEF Init
<1>2. DOMAIN wire = {} /\ DOMAIN shares = {} /\ held.number = 0
  BY <1>1 DEF NoTask
<1>3. InFlight
  BY <1>1, <1>2 DEF InFlight, TasksKnown, InOrder, SettledOnce
<1>4. Verdicts
  <2>1. last.outcome = "none"
    BY <1>1 DEF NoShare
  <2> QED
    BY <2>1 DEF Verdicts, CreditIsProven, DeniedOnlyStale, NoneFresh
<1>5. PICK seed \in Seeds : vd = NewVarDiff(seed)
  BY DEF Init
<1> DEFINE d == Greatest(MinDifficulty, seed)
<1>6. vd.prior = NoIssue /\ vd.issue.target = DifficultyTarget(d) /\ vd.issue.difficulty = d
  BY <1>5 DEF NewVarDiff, Issue
<1>7. ExactSeeds => Difficulty(DifficultyTarget(d)) = d
  BY DEF ExactSeeds
<1> HIDE DEF d
<1>8. vd.issue.target.form = "compact"
  BY <1>6 DEF DifficultyTarget, Compact
<1>9. FirstOrExact(vd.issue, number = 0)
  BY <1>1, <1>6, <1>7, <1>8 DEF FirstOrExact, Recorded
<1>10. Issues
  BY <1>6, <1>9 DEF Issues, PriorWithin, ExactIssues
<1> QED
  BY <1>3, <1>4, <1>10 DEF FairInv

-----------------------------------------------------------------------------
\* The elements of a sequence that is appended to, or loses its head.
LEMMA AppendAt ==
    ASSUME NEW S, NEW s \in Seq(S), NEW e \in S, NEW i \in DOMAIN Append(s, e)
    PROVE  \/ i \in DOMAIN s /\ i <= Len(s) /\ Append(s, e)[i] = s[i]
           \/ i = Len(s) + 1 /\ Append(s, e)[i] = e
BY SMT

LEMMA TailAt ==
    ASSUME NEW S, NEW s \in Seq(S), s # <<>>, NEW i \in DOMAIN Tail(s)
    PROVE  i \in Nat /\ i + 1 \in DOMAIN s /\ Tail(s)[i] = s[i + 1]
BY SMT

LEMMA HeadAt ==
    ASSUME NEW S, NEW s \in Seq(S), s # <<>>
    PROVE  1 \in DOMAIN s /\ Head(s) = s[1] /\ \A i \in DOMAIN s : i \in Nat /\ 1 <= i
BY SMT

LEMMA ElementAt ==
    ASSUME NEW S, NEW s \in Seq(S), NEW i \in DOMAIN s
    PROVE  s[i] \in S
OBVIOUS

LEMMA ShareValue ==
    ASSUME NEW s \in [value : Values, task : TaskType]
    PROVE  s.value \in Nat
<1>1. Values \subseteq Nat
  BY VarDiffAssumption
<1>2. s.value \in Values
  OBVIOUS
<1> QED
  BY <1>1, <1>2

\* The numbers of tasks are numbers.
LEMMA NumbersType ==
    ASSUME IInv
    PROVE  /\ number \in Nat /\ held.number \in Nat
           /\ \A i \in DOMAIN wire : wire[i].number \in Nat
           /\ \A i \in DOMAIN shares : shares[i].task.number \in Nat
<1>1. \A t \in TaskType : t.number \in Nat
  BY DEF TaskType
<1>2. /\ wire \in Seq(TaskType) /\ shares \in Seq([value : Values, task : TaskType])
      /\ held \in TaskType \union {NoTask} /\ number \in Nat
  BY DEF IInv, QueueType
<1>3. \A i \in DOMAIN wire : wire[i] \in TaskType
  BY <1>2, ElementAt
<1>4. \A i \in DOMAIN shares : shares[i] \in [value : Values, task : TaskType]
  BY <1>2, ElementAt
<1>5. held.number \in Nat
  BY <1>1, <1>2 DEF NoTask
<1> QED
  BY <1>1, <1>2, <1>3, <1>4, <1>5

\* A step that tunes keeps the issues, or numbers a new one.
LEMMA Renumbered ==
    ASSUME IInv, NEW p \in Pools, NEW want \in Wants, Tuned(p, want)
    PROVE  \/ vd'.issue = vd.issue /\ vd'.prior = vd.prior /\ number' = number
           \/ /\ number' = number + 1 /\ vd'.prior = vd.issue /\ vd.issue # NoIssue
              /\ vd'.issue.difficulty = Difficulty(vd'.issue.target)
<1>1. p \in Targets /\ want \in Nat
  BY VarDiffAssumption
<1>2. PICK v : v = vd
  OBVIOUS
<1>3. VdType(v)
  BY <1>2 DEF IInv
<1>4. vd' = Tune(v, p, want) /\ number' = number + (IF vd'.issue # vd.issue THEN 1 ELSE 0)
  BY <1>2 DEF Tuned
<1>5. \/ Tune(v, p, want).issue = v.issue /\ Tune(v, p, want).prior = v.prior
      \/ \E t \in Targets : /\ Tune(v, p, want).issue = Issue(t, Difficulty(t))
                            /\ Tune(v, p, want).issue # v.issue
                            /\ Tune(v, p, want).prior = v.issue
  BY <1>1, <1>3, TuneResult
<1>6. number \in Nat
  BY DEF IInv, QueueType
<1>7. CASE vd'.issue = vd.issue /\ vd'.prior = vd.prior
  BY <1>4, <1>6, <1>7
<1>8. ASSUME NEW t \in Targets, vd'.issue = Issue(t, Difficulty(t)), vd'.issue # vd.issue, vd'.prior = vd.issue
      PROVE  /\ number' = number + 1 /\ vd'.prior = vd.issue /\ vd.issue # NoIssue
             /\ vd'.issue.difficulty = Difficulty(vd'.issue.target)
  <2>1. number' = number + 1
    BY <1>4, <1>8
  <2>2. vd.issue # NoIssue
    BY <1>2, <1>3 DEF VdType, NoIssue
  <2>3. vd'.issue.target = t /\ vd'.issue.difficulty = Difficulty(t)
    BY <1>8 DEF Issue
  <2> QED
    BY <1>8, <2>1, <2>2, <2>3
<1> QED
  BY <1>2, <1>4, <1>5, <1>7, <1>8

-----------------------------------------------------------------------------
\* A step that tunes, and sends the task or not, keeps what is known of tasks.
LEMMA TunedInFlight ==
    ASSUME IInv, InFlight, NEW p \in Pools, NEW want \in Wants, Tuned(p, want),
           UNCHANGED <<held, shares, early>>,
           Send \/ (wire' = wire /\ vd'.issue.target = vd.issue.target)
    PROVE  InFlight'
<1>1. /\ wire \in Seq(TaskType) /\ shares \in Seq([value : Values, task : TaskType])
      /\ held \in TaskType \union {NoTask} /\ number \in Nat
  BY DEF IInv, QueueType
<1>2. \A t \in TaskType : t.number \in Nat
  BY DEF TaskType
<1>3. held.number \in Nat
  BY <1>1, <1>2 DEF NoTask
<1>4. \/ vd'.issue = vd.issue /\ vd'.prior = vd.prior /\ number' = number
      \/ /\ number' = number + 1 /\ vd'.prior = vd.issue /\ vd.issue # NoIssue
         /\ vd'.issue.difficulty = Difficulty(vd'.issue.target)
  BY Renumbered
<1>5. number' \in Nat /\ number <= number'
  BY <1>1, <1>4
<1>6. \A t : t.number \in Nat /\ Numbered(t, vd, number) => Numbered(t, vd', number')
  BY <1>1, <1>4 DEF Numbered
<1>7. PICK e : e = [target |-> vd'.issue.target, number |-> number']
  OBVIOUS
<1>8. e \in TaskType /\ e.number = number' /\ Numbered(e, vd', number')
  <2>1. [target |-> vd'.issue.target, number |-> number'] \in TaskType
    BY TuneStep
  <2>2. e.number = number' /\ e.target = vd'.issue.target /\ number' + 1 # number'
    BY <1>5, <1>7
  <2> QED
    BY <1>5, <1>7, <2>1, <2>2 DEF Numbered
<1>9. wire' = wire \/ wire' = Append(wire, e)
  BY <1>7 DEF Send
<1>10. \A i \in DOMAIN wire' :
           \/ i \in DOMAIN wire /\ i <= Len(wire) /\ wire'[i] = wire[i]
           \/ i = Len(wire) + 1 /\ wire'[i] = e
  <2>1. ASSUME NEW i \in DOMAIN wire', wire' = Append(wire, e)
        PROVE  \/ i \in DOMAIN wire /\ i <= Len(wire) /\ wire'[i] = wire[i]
               \/ i = Len(wire) + 1 /\ wire'[i] = e
    BY <1>1, <1>8, <2>1, AppendAt
  <2>2. ASSUME NEW i \in DOMAIN wire, wire' = wire
        PROVE  i <= Len(wire)
    BY <1>1, <2>2
  <2> QED
    BY <1>9, <2>1, <2>2
<1>11. \A i \in DOMAIN wire : wire[i].number \in Nat /\ i \in Nat
  BY <1>1, <1>2
<1>12. \A i \in DOMAIN shares : shares[i].task.number \in Nat
  <2>1. \A i \in DOMAIN shares : shares[i] \in [value : Values, task : TaskType]
    BY <1>1, ElementAt
  <2> QED
    BY <1>2, <2>1
<1>13. TasksKnown'
  <2>1. \A i \in DOMAIN wire' : Numbered(wire'[i], vd', number')
    BY <1>6, <1>8, <1>10, <1>11 DEF InFlight, TasksKnown
  <2>2. held' # NoTask => Numbered(held', vd', number')
    BY <1>3, <1>6 DEF InFlight, TasksKnown
  <2>3. \A i \in DOMAIN shares' : /\ Numbered(shares'[i].task, vd', number')
                                  /\ Meets(shares'[i].value, shares'[i].task.target)
    BY <1>6, <1>12 DEF InFlight, TasksKnown
  <2> QED
    BY <2>1, <2>2, <2>3 DEF TasksKnown
<1>14. InOrder'
  <2>1. /\ held.number <= number
        /\ \A i \in DOMAIN wire : held.number <= wire[i].number /\ wire[i].number <= number
        /\ \A i, j \in DOMAIN wire : i <= j => wire[i].number <= wire[j].number
    BY DEF InFlight, InOrder
  <2>2. held'.number <= number'
    BY <1>1, <1>3, <1>5, <2>1
  <2>3. \A i \in DOMAIN wire' : held'.number <= wire'[i].number /\ wire'[i].number <= number'
    BY <1>1, <1>3, <1>5, <1>8, <1>10, <1>11, <2>1
  <2>4. ASSUME NEW i \in DOMAIN wire', NEW j \in DOMAIN wire', i <= j
        PROVE  wire'[i].number <= wire'[j].number
    <3>1. Len(wire) \in Nat
      BY <1>1
    <3>2. CASE j = Len(wire) + 1 /\ wire'[j] = e
      BY <1>5, <1>8, <2>3, <3>2
    <3>3. CASE j \in DOMAIN wire /\ j <= Len(wire) /\ wire'[j] = wire[j]
      <4>1. i # Len(wire) + 1
        BY <1>11, <2>4, <3>1, <3>3
      <4> QED
        BY <1>10, <2>1, <2>4, <3>3, <4>1
    <3> QED
      BY <1>10, <3>2, <3>3
  <2>5. /\ \A i \in DOMAIN shares' : shares'[i].task.number <= held'.number
        /\ \A i, j \in DOMAIN shares' : i <= j => shares'[i].task.number <= shares'[j].task.number
    BY DEF InFlight, InOrder
  <2> QED
    BY <2>2, <2>3, <2>4, <2>5 DEF InOrder
<1>15. SettledOnce'
  <2> SUFFICES ASSUME vd'.prior = NoIssue, number' \notin early'
               PROVE  /\ held'.number = number'
                      /\ \A i \in DOMAIN wire' : wire'[i].number = number'
                      /\ \A i \in DOMAIN shares' : shares'[i].task.number = number'
    BY DEF SettledOnce
  <2>1. vd.prior = NoIssue /\ number' = number /\ number \notin early
    BY <1>4
  <2> QED
    BY <1>8, <1>10, <2>1 DEF InFlight, SettledOnce
<1> QED
  BY <1>13, <1>14, <1>15 DEF InFlight

\* It keeps what is known of the issues.
LEMMA TunedIssues ==
    ASSUME IInv, Issues, NEW p \in Pools, NEW want \in Wants, Tuned(p, want)
    PROVE  Issues'
<1>1. \/ vd'.issue = vd.issue /\ vd'.prior = vd.prior /\ number' = number
      \/ /\ number' = number + 1 /\ vd'.prior = vd.issue /\ vd.issue # NoIssue
         /\ vd'.issue.difficulty = Difficulty(vd'.issue.target)
  BY Renumbered
<1>2. vd.issue.difficulty <= Difficulty(vd.issue.target)
  BY DEF IInv, Within
<1>3. PriorWithin'
  BY <1>1, <1>2 DEF Issues, PriorWithin
<1>4. ExactIssues'
  <2>1. (ExactSeeds' <=> ExactSeeds) /\ number \in Nat
    BY DEF ExactSeeds, IInv, QueueType
  <2>2. CASE vd'.issue = vd.issue /\ vd'.prior = vd.prior /\ number' = number
    BY <2>1, <2>2 DEF Issues, ExactIssues, FirstOrExact, Recorded
  <2>3. CASE /\ number' = number + 1 /\ vd'.prior = vd.issue /\ vd.issue # NoIssue
             /\ vd'.issue.difficulty = Difficulty(vd'.issue.target)
    <3>1. Recorded(vd'.issue) /\ number' # 0 /\ (number = 0 => number' = 1)
      BY <2>1, <2>3 DEF Recorded
    <3>2. FirstOrExact(vd.issue, number = 0)
      BY DEF Issues, ExactIssues
    <3>3. FirstOrExact(vd.issue, number' = 1)
      BY <3>1, <3>2 DEF FirstOrExact
    <3> QED
      BY <2>1, <2>3, <3>1, <3>3 DEF ExactIssues, FirstOrExact, Recorded
  <2> QED
    BY <1>1, <2>2, <2>3
<1> QED
  BY <1>3, <1>4 DEF Issues

-----------------------------------------------------------------------------
\* What an accepted share is worth.
LEMMA CreditFair ==
    ASSUME IInv, PriorWithin, NEW s \in [value : Values, task : TaskType],
           Numbered(s.task, vd, number), Meets(s.value, s.task.target),
           Meets(s.value, Floor(vd).target)
    PROVE  /\ Credit(s.value) <= Proven(s.value)
           /\ s.task.number = number => Credit(s.value) >= vd.issue.difficulty
<1>1. s.value \in Nat
  BY ShareValue
<1>2. /\ vd.issue.target \in Targets /\ vd.issue.difficulty \in Nat
      /\ vd.issue.difficulty <= Difficulty(vd.issue.target)
  BY DEF IInv, VdType, Within, IssueType
<1>3. Proven(s.value) \in Nat
  BY <1>1, VarDiffAssumption, DivBounds DEF Proven
<1>4. PICK f : f = Floor(vd)
  OBVIOUS
<1>5. f = vd.issue \/ (f = vd.prior /\ f # NoIssue /\ f.difficulty < vd.issue.difficulty)
  BY <1>4 DEF Floor
<1>6. f.target \in Targets /\ f.difficulty \in Nat /\ f.difficulty <= vd.issue.difficulty
      /\ f.difficulty <= Difficulty(f.target)
  BY <1>2, <1>5 DEF IInv, VdType, IssueType, PriorWithin
<1>7. CASE Settles(s.value)
  <2>1. Meets(s.value, vd.issue.target)
    BY <1>7 DEF Settles
  <2>2. Difficulty(vd.issue.target) <= Proven(s.value) /\ Difficulty(vd.issue.target) \in Nat
    BY <1>1, <1>2, <2>1, MeetsProven, DifficultyType
  <2>3. Credit(s.value) = vd.issue.difficulty
    BY <1>2, <1>4, <1>6, <1>7 DEF Credit, Greatest
  <2> QED
    BY <1>2, <1>3, <2>2, <2>3
<1>8. CASE ~ Settles(s.value)
  <2>1. Credit(s.value) = f.difficulty
    BY <1>4, <1>8 DEF Credit
  <2>2. Difficulty(f.target) <= Proven(s.value) /\ Difficulty(f.target) \in Nat
    BY <1>1, <1>4, <1>6, MeetsProven, DifficultyType
  <2>3. s.task.number # number
    BY <1>8 DEF Settles, Numbered
  <2> QED
    BY <1>3, <1>6, <2>1, <2>2, <2>3
<1> QED
  BY <1>7, <1>8

\* A share that is denied.
LEMMA DeniedFair ==
    ASSUME IInv, SettledOnce, Issues, shares # <<>>,
           NEW s \in [value : Values, task : TaskType], s = shares[1], 1 \in DOMAIN shares,
           Numbered(s.task, vd, number), Meets(s.value, s.task.target),
           ~ Meets(s.value, Floor(vd).target)
    PROVE  \/ s.task.number + 2 <= number
           \/ /\ s.task.number + 1 = number
              /\ number \in early \/ Difficulty(s.task.target) = vd.issue.difficulty
           \/ /\ s.task.number = number /\ number = 1 /\ ~ ExactSeeds
              /\ Floor(vd).difficulty < vd.issue.difficulty
              /\ vd.issue.difficulty < Difficulty(Floor(vd).target)
<1>1. s.value \in Nat /\ s.task.number \in Nat /\ number \in Nat /\ s.task.number <= number
      /\ s.task.target \in Targets
  <2>1. s.value \in Nat
    BY ShareValue
  <2>2. s.task \in TaskType
    OBVIOUS
  <2>3. number \in Nat
    BY DEF IInv, QueueType
  <2> QED
    BY <2>1, <2>2, <2>3 DEF TaskType, Numbered
<1>2. /\ vd.issue.target \in Targets /\ vd.issue.difficulty \in Nat
      /\ Difficulty(vd.issue.target) \in Nat
      /\ number # 0 => vd.issue.difficulty = Difficulty(vd.issue.target)
  BY DifficultyType DEF IInv, VdType, IssueType, Issues, ExactIssues, FirstOrExact, Recorded
<1>3. ASSUME vd.prior # NoIssue
      PROVE  /\ vd.prior.target \in Targets /\ vd.prior.difficulty \in Nat
             /\ Difficulty(vd.prior.target) \in Nat
             /\ vd.prior.difficulty <= Difficulty(vd.prior.target)
             /\ number # 0 /\ FirstOrExact(vd.prior, number = 1)
  BY <1>3, DifficultyType DEF IInv, VdType, IssueType, Issues, PriorWithin, ExactIssues
<1>4. Floor(vd) = IF vd.prior # NoIssue /\ vd.prior.difficulty < vd.issue.difficulty
                  THEN vd.prior ELSE vd.issue
  BY DEF Floor
<1>5. ASSUME NEW t \in Targets, NEW u \in Targets, Meets(s.value, t), Difficulty(u) < Difficulty(t)
      PROVE  Meets(s.value, u)
  <2>1. Value(t) <= Value(u) /\ Value(t) \in Nat /\ Value(u) \in Nat
    BY <1>5, EasierIsMet, ValueType
  <2> QED
    BY <1>1, <1>5, <2>1 DEF Meets
<1>6. ASSUME s.task.number = number
      PROVE  /\ number = 1 /\ ~ ExactSeeds /\ Floor(vd).difficulty < vd.issue.difficulty
             /\ vd.issue.difficulty < Difficulty(Floor(vd).target)
  <2>1. Meets(s.value, vd.issue.target)
    BY <1>6 DEF Numbered
  <2>2. vd.prior # NoIssue /\ vd.prior.difficulty < vd.issue.difficulty /\ Floor(vd) = vd.prior
    BY <1>4, <2>1
  <2>3. vd.issue.difficulty = Difficulty(vd.issue.target)
    BY <1>2, <1>3, <2>2
  <2>4. ~ (Difficulty(vd.prior.target) < Difficulty(vd.issue.target))
    BY <1>2, <1>3, <1>5, <2>1, <2>2
  <2>5. ~ Recorded(vd.prior)
    BY <1>2, <1>3, <2>2, <2>3, <2>4 DEF Recorded
  <2>6. number = 1 /\ vd.prior.target.form = "compact" /\ ~ ExactSeeds
    BY <1>3, <2>2, <2>5 DEF FirstOrExact
  <2>7. Difficulty(vd.prior.target) # Difficulty(vd.issue.target)
    <3> SUFFICES ASSUME Difficulty(vd.prior.target) = Difficulty(vd.issue.target) PROVE FALSE
      OBVIOUS
    <3>1. Value(vd.issue.target) <= Value(vd.prior.target)
      BY <1>2, <1>3, <2>2, <2>6, CompactIsMet
    <3>2. Value(vd.issue.target) \in Nat /\ Value(vd.prior.target) \in Nat
      BY <1>2, <1>3, <2>2, ValueType
    <3> QED
      BY <1>1, <2>1, <2>2, <3>1, <3>2 DEF Meets
  <2> QED
    BY <1>2, <1>3, <2>2, <2>3, <2>4, <2>6, <2>7
<1>7. ASSUME s.task.number + 1 = number, number \notin early
      PROVE  Difficulty(s.task.target) = vd.issue.difficulty
  <2>1. vd.prior # NoIssue
    BY <1>1, <1>7 DEF SettledOnce
  <2>2. s.task.target = vd.prior.target
    BY <1>7, <2>1 DEF Numbered
  <2>3. ~ (vd.prior.difficulty < vd.issue.difficulty) /\ ~ Meets(s.value, vd.issue.target)
    BY <1>4, <2>1, <2>2
  <2>4. ~ (Difficulty(vd.issue.target) < Difficulty(vd.prior.target))
    BY <1>2, <1>3, <1>5, <2>1, <2>2, <2>3
  <2> QED
    BY <1>2, <1>3, <2>1, <2>2, <2>3, <2>4
<1> QED
  BY <1>1, <1>6, <1>7

-----------------------------------------------------------------------------
\* No share is judged.
LEMMA NoVerdict ==
    ASSUME last' = NoShare
    PROVE  Verdicts'
<1>1. last'.outcome = "none"
  BY DEF NoShare
<1> QED
  BY <1>1 DEF Verdicts, CreditIsProven, DeniedOnlyStale, NoneFresh

\* Nothing changes of the issues.
LEMMA SameIssues ==
    ASSUME Issues, number' = number, vd'.issue = vd.issue,
           vd'.prior = vd.prior \/ vd'.prior = NoIssue
    PROVE  Issues'
<1>1. PriorWithin'
  BY DEF Issues, PriorWithin
<1>2. ExactSeeds' <=> ExactSeeds
  BY DEF ExactSeeds
<1>3. ExactIssues'
  BY <1>2 DEF Issues, ExactIssues, FirstOrExact, Recorded
<1> QED
  BY <1>1, <1>3 DEF Issues

LEMMA ReceiveFair ==
    ASSUME IInv, InFlight, Receive
    PROVE  InFlight'
<1>1. wire \in Seq(TaskType) /\ wire # <<>>
  BY DEF IInv, QueueType, Receive
<1>2. 1 \in DOMAIN wire /\ held' = wire[1] /\ \A i \in DOMAIN wire : i \in Nat /\ 1 <= i
  BY <1>1, HeadAt DEF Receive
<1>3. \A i \in DOMAIN wire' : i \in Nat /\ i + 1 \in DOMAIN wire /\ wire'[i] = wire[i + 1]
  BY <1>1, TailAt DEF Receive
<1>4. UNCHANGED <<vd, shares, number, early>>
  BY DEF Receive
<1>5. TasksKnown'
  BY <1>2, <1>3, <1>4 DEF InFlight, TasksKnown
<1>6. \A i \in DOMAIN wire : wire[i].number \in Nat
  BY NumbersType
<1>7. InOrder'
  <2>1. /\ held.number <= number
        /\ \A i \in DOMAIN wire : held.number <= wire[i].number /\ wire[i].number <= number
        /\ \A i, j \in DOMAIN wire : i <= j => wire[i].number <= wire[j].number
        /\ \A i \in DOMAIN shares : shares[i].task.number <= held.number
        /\ \A i, j \in DOMAIN shares : i <= j => shares[i].task.number <= shares[j].task.number
    BY DEF InFlight, InOrder
  <2>2. held'.number <= number'
    BY <1>2, <1>4, <2>1
  <2>3. \A i \in DOMAIN wire' : held'.number <= wire'[i].number /\ wire'[i].number <= number'
    BY <1>2, <1>3, <1>4, <2>1
  <2>4. \A i, j \in DOMAIN wire' : i <= j => wire'[i].number <= wire'[j].number
    BY <1>3, <2>1
  <2>5. held.number \in Nat /\ held'.number \in Nat
    BY <1>2, <1>6, NumbersType
  <2>6. \A i \in DOMAIN shares : shares[i].task.number \in Nat
    BY NumbersType
  <2>7. \A i \in DOMAIN shares' : shares'[i].task.number <= held'.number
    BY <1>2, <1>4, <2>1, <2>5, <2>6
  <2> QED
    BY <1>4, <2>1, <2>2, <2>3, <2>4, <2>7 DEF InOrder
<1>8. SettledOnce'
  BY <1>2, <1>3, <1>4 DEF InFlight, SettledOnce
<1> QED
  BY <1>5, <1>7, <1>8 DEF InFlight

LEMMA FindFair ==
    ASSUME IInv, InFlight, NEW value \in Values, Find(value)
    PROVE  InFlight'
<1>1. shares \in Seq([value : Values, task : TaskType]) /\ held \in TaskType
  BY DEF IInv, QueueType, Find
<1>2. PICK e \in [value : Values, task : TaskType] : e = [value |-> value, task |-> held]
  BY <1>1
<1>3. shares' = Append(shares, e) /\ UNCHANGED <<vd, wire, held, number, early>>
  BY <1>2 DEF Find
<1>4. \A i \in DOMAIN shares' :
          \/ i \in DOMAIN shares /\ i <= Len(shares) /\ shares'[i] = shares[i]
          \/ i = Len(shares) + 1 /\ shares'[i] = e
  BY <1>1, <1>3, AppendAt
<1>5. e.task = held /\ e.value = value /\ Meets(value, held.target) /\ held # NoTask
  BY <1>2 DEF Find
<1>6. TasksKnown'
  <2>1. Numbered(e.task, vd, number) /\ Meets(e.value, e.task.target)
    BY <1>5 DEF InFlight, TasksKnown
  <2>2. \A i \in DOMAIN shares' : /\ Numbered(shares'[i].task, vd, number)
                                  /\ Meets(shares'[i].value, shares'[i].task.target)
    BY <1>4, <2>1 DEF InFlight, TasksKnown
  <2> QED
    BY <1>3, <2>2 DEF InFlight, TasksKnown
<1>7. InOrder'
  <2>1. /\ held.number \in Nat /\ Len(shares) \in Nat
        /\ \A i \in DOMAIN shares : i \in Nat
    BY <1>1 DEF TaskType
  <2>2. \A i \in DOMAIN shares' : shares'[i].task.number <= held'.number
    BY <1>3, <1>4, <1>5, <2>1 DEF InFlight, InOrder
  <2>3. ASSUME NEW i \in DOMAIN shares', NEW j \in DOMAIN shares', i <= j
        PROVE  shares'[i].task.number <= shares'[j].task.number
    <3>1. CASE j = Len(shares) + 1 /\ shares'[j] = e
      BY <1>3, <1>5, <2>2, <3>1
    <3>2. CASE j \in DOMAIN shares /\ j <= Len(shares) /\ shares'[j] = shares[j]
      <4>1. i # Len(shares) + 1
        BY <2>1, <2>3, <3>2
      <4> QED
        BY <1>4, <2>3, <3>2, <4>1 DEF InFlight, InOrder
    <3> QED
      BY <1>4, <3>1, <3>2
  <2>4. /\ held'.number <= number'
        /\ \A i \in DOMAIN wire' : held'.number <= wire'[i].number /\ wire'[i].number <= number'
        /\ \A i, j \in DOMAIN wire' : i <= j => wire'[i].number <= wire'[j].number
    BY <1>3 DEF InFlight, InOrder
  <2> QED
    BY <2>2, <2>3, <2>4 DEF InOrder
<1>8. SettledOnce'
  BY <1>3, <1>4, <1>5 DEF InFlight, SettledOnce
<1> QED
  BY <1>6, <1>7, <1>8 DEF InFlight

\* The share in front of the others, and the others.
LEMMA SubmitShares ==
    ASSUME IInv, Submit
    PROVE  /\ shares # <<>> /\ 1 \in DOMAIN shares
           /\ Head(shares) = shares[1] /\ Head(shares) \in [value : Values, task : TaskType]
           /\ \A i \in DOMAIN shares : i \in Nat /\ 1 <= i /\ shares[i].task.number \in Nat
           /\ \A i \in DOMAIN shares' :
                  i \in Nat /\ i + 1 \in DOMAIN shares /\ shares'[i] = shares[i + 1]
<1>1. shares \in Seq([value : Values, task : TaskType]) /\ shares # <<>>
  BY DEF IInv, QueueType, Submit
<1>2. 1 \in DOMAIN shares /\ Head(shares) = shares[1] /\ \A i \in DOMAIN shares : i \in Nat /\ 1 <= i
  BY <1>1, HeadAt
<1>3. \A i \in DOMAIN shares : shares[i] \in [value : Values, task : TaskType]
  BY <1>1, ElementAt
<1>4. \A i \in DOMAIN shares' : i \in Nat /\ i + 1 \in DOMAIN shares /\ shares'[i] = shares[i + 1]
  BY <1>1, TailAt DEF Submit
<1>5. \A s \in [value : Values, task : TaskType] : s.task.number \in Nat
  BY DEF TaskType
<1> QED
  BY <1>1, <1>2, <1>3, <1>4, <1>5

LEMMA SubmitInFlight ==
    ASSUME IInv, InFlight, Submit
    PROVE  InFlight'
<1>1. /\ shares # <<>> /\ 1 \in DOMAIN shares
      /\ Head(shares) = shares[1] /\ Head(shares) \in [value : Values, task : TaskType]
      /\ \A i \in DOMAIN shares : i \in Nat /\ 1 <= i /\ shares[i].task.number \in Nat
      /\ \A i \in DOMAIN shares' :
             i \in Nat /\ i + 1 \in DOMAIN shares /\ shares'[i] = shares[i + 1]
  BY SubmitShares
<1>2. UNCHANGED <<wire, held, number>>
  BY DEF Submit
<1>3. PICK s \in [value : Values, task : TaskType] : s = shares[1]
  BY <1>1
<1>4. vd' = vd \/ vd' = [vd EXCEPT !.prior = NoIssue]
  BY DEF Submit
<1>5. vd'.issue = vd.issue /\ (vd'.prior = vd.prior \/ vd'.prior = NoIssue)
  BY <1>4 DEF IInv, VdType
<1>6. \A t : Numbered(t, vd, number) => Numbered(t, vd', number)
  BY <1>5 DEF Numbered
<1>7. TasksKnown'
  BY <1>1, <1>2, <1>6 DEF InFlight, TasksKnown
<1>8. InOrder'
  BY <1>1, <1>2 DEF InFlight, InOrder
<1>9. SettledOnce'
  <2> SUFFICES ASSUME vd'.prior = NoIssue, number' \notin early'
               PROVE  /\ held'.number = number'
                      /\ \A i \in DOMAIN wire' : wire'[i].number = number'
                      /\ \A i \in DOMAIN shares' : shares'[i].task.number = number'
    BY DEF SettledOnce
  <2>1. number \notin early
    BY <1>2 DEF Submit
  <2>2. CASE vd.prior = NoIssue
    BY <1>1, <1>2, <2>1, <2>2 DEF InFlight, SettledOnce
  <2>3. CASE vd.prior # NoIssue
    <3>1. vd' # vd
      BY <2>3
    <3>2. /\ Meets(s.value, Floor(vd).target) /\ Settles(s.value)
          /\ early' = IF s.task.number < number /\ Meets(s.value, vd.issue.target)
                      THEN early \union {number} ELSE early
      BY <1>1, <1>3, <3>1 DEF Submit
    <3>3. Meets(s.value, vd.issue.target)
      BY <3>2 DEF Settles
    <3>4. ~ (s.task.number < number)
      BY <1>2, <3>2, <3>3
    <3>5. s.task.number <= number /\ s.task.number \in Nat /\ number \in Nat
      BY <1>1, <1>3 DEF InFlight, TasksKnown, Numbered, IInv, QueueType
    <3>6. s.task.number = number
      BY <3>4, <3>5
    <3>7. \A i \in DOMAIN wire : wire[i].number \in Nat
      BY NumbersType
    <3>8. held.number \in Nat
      BY NumbersType
    <3>9. held.number = number
      BY <1>1, <1>3, <3>5, <3>6, <3>8 DEF InFlight, InOrder
    <3>10. \A i \in DOMAIN wire : wire[i].number = number
      BY <3>5, <3>7, <3>9 DEF InFlight, InOrder
    <3>11. \A i \in DOMAIN shares : shares[i].task.number = number
      BY <1>1, <1>3, <3>5, <3>6, <3>9 DEF InFlight, InOrder
    <3> QED
      BY <1>1, <1>2, <3>9, <3>10, <3>11
  <2> QED
    BY <2>2, <2>3
<1> QED
  BY <1>7, <1>8, <1>9 DEF InFlight

LEMMA SubmitVerdicts ==
    ASSUME IInv, InFlight, Issues, Submit
    PROVE  Verdicts'
<1>1. /\ shares # <<>> /\ 1 \in DOMAIN shares
      /\ Head(shares) = shares[1] /\ Head(shares) \in [value : Values, task : TaskType]
      /\ \A i \in DOMAIN shares : i \in Nat /\ 1 <= i /\ shares[i].task.number \in Nat
      /\ \A i \in DOMAIN shares' :
             i \in Nat /\ i + 1 \in DOMAIN shares /\ shares'[i] = shares[i + 1]
  BY SubmitShares
<1>2. PICK s \in [value : Values, task : TaskType] : s = shares[1]
  BY <1>1
<1>3. Numbered(s.task, vd, number) /\ Meets(s.value, s.task.target)
  BY <1>1, <1>2 DEF InFlight, TasksKnown
<1>4. CASE Meets(s.value, Floor(vd).target)
  <2>1. PICK o \in {"forwarded", "absorbed"} : last' = Verdict(o, s, Credit(s.value))
    BY <1>1, <1>2, <1>4 DEF Submit
  <2>2. /\ last'.outcome = o /\ last'.share = s /\ last'.credit = Credit(s.value)
        /\ last'.number = number /\ last'.issue = vd.issue
    BY <2>1 DEF Verdict
  <2>3. /\ Credit(s.value) <= Proven(s.value)
        /\ s.task.number = number => Credit(s.value) >= vd.issue.difficulty
    BY <1>3, <1>4, CreditFair DEF Issues
  <2>4. CreditIsProven'
    BY <2>2, <2>3 DEF CreditIsProven, Proven
  <2>5. last'.outcome # "denied"
    BY <2>2
  <2> QED
    BY <2>4, <2>5 DEF Verdicts, DeniedOnlyStale, NoneFresh
<1>5. CASE ~ Meets(s.value, Floor(vd).target)
  <2>1. last' = Verdict("denied", s, 0)
    BY <1>1, <1>2, <1>5 DEF Submit
  <2>2. /\ last'.outcome = "denied" /\ last'.share = s /\ last'.issue = vd.issue
        /\ last'.number = number /\ last'.early = (number \in early) /\ last'.floor = Floor(vd)
    BY <2>1 DEF Verdict
  <2>3. CreditIsProven'
    BY <2>2 DEF CreditIsProven
  <2>4. \/ s.task.number + 2 <= number
        \/ /\ s.task.number + 1 = number
           /\ number \in early \/ Difficulty(s.task.target) = vd.issue.difficulty
        \/ /\ s.task.number = number /\ number = 1 /\ ~ ExactSeeds
           /\ Floor(vd).difficulty < vd.issue.difficulty
           /\ vd.issue.difficulty < Difficulty(Floor(vd).target)
    BY <1>1, <1>2, <1>3, <1>5, DeniedFair DEF InFlight
  <2>5. DeniedOnlyStale'
    BY <2>2, <2>4 DEF DeniedOnlyStale, UnderRounded, Difficulty
  <2>6. ExactSeeds' => NoneFresh'
    <3>1. ExactSeeds' <=> ExactSeeds
      BY DEF ExactSeeds
    <3>2. number \in Nat
      BY DEF IInv, QueueType
    <3> QED
      BY <2>2, <2>4, <3>1, <3>2 DEF NoneFresh
  <2> QED
    BY <2>3, <2>5, <2>6 DEF Verdicts
<1> QED
  BY <1>4, <1>5

LEMMA NextFair == IInv /\ FairInv /\ [Next]_vars => FairInv'
<1> SUFFICES ASSUME IInv, FairInv, [Next]_vars PROVE FairInv'
  OBVIOUS
<1>1. InFlight /\ Issues /\ Verdicts
  BY DEF FairInv
<1>2. ASSUME NEW p \in Pools, NEW want \in Wants, Push(p, want)
      PROVE  FairInv'
  <2>1. Tuned(p, want) /\ Send /\ UNCHANGED <<held, shares, early>> /\ last' = NoShare
    BY <1>2 DEF Push
  <2>2. InFlight'
    BY <1>1, <2>1, TunedInFlight
  <2>3. Issues'
    BY <1>1, <2>1, TunedIssues
  <2> QED
    BY <2>1, <2>2, <2>3, NoVerdict DEF FairInv
<1>3. ASSUME NEW p \in Pools, NewPool(p)
      PROVE  FairInv'
  <2>1. UNCHANGED <<vd, wire, held, shares, number, early>> /\ last' = NoShare
    BY <1>3 DEF NewPool
  <2>2. InFlight'
    BY <1>1, <2>1 DEF InFlight, TasksKnown, InOrder, SettledOnce
  <2>3. Issues'
    BY <1>1, <2>1, SameIssues
  <2> QED
    BY <2>1, <2>2, <2>3, NoVerdict DEF FairInv
<1>4. ASSUME NEW want \in Wants, Chunk(want)
      PROVE  FairInv'
  <2>1. PICK p \in Pools : p = pool
    BY DEF IInv, QueueType
  <2>2. /\ Tuned(p, want) /\ UNCHANGED <<held, shares, early>> /\ last' = NoShare
        /\ Send \/ (wire' = wire /\ vd'.issue.target = vd.issue.target)
    BY <1>4, <2>1 DEF Chunk
  <2>3. InFlight'
    BY <1>1, <2>2, TunedInFlight
  <2>4. Issues'
    BY <1>1, <2>2, TunedIssues
  <2> QED
    BY <2>2, <2>3, <2>4, NoVerdict DEF FairInv
<1>5. CASE Receive
  <2>1. vd' = vd /\ number' = number /\ last' = NoShare
    BY <1>5 DEF Receive
  <2>2. InFlight'
    BY <1>1, <1>5, ReceiveFair
  <2>3. Issues'
    BY <1>1, <2>1, SameIssues
  <2> QED
    BY <2>1, <2>2, <2>3, NoVerdict DEF FairInv
<1>6. ASSUME NEW value \in Values, Find(value)
      PROVE  FairInv'
  <2>1. vd' = vd /\ number' = number /\ last' = NoShare
    BY <1>6 DEF Find
  <2>2. InFlight'
    BY <1>1, <1>6, FindFair
  <2>3. Issues'
    BY <1>1, <2>1, SameIssues
  <2> QED
    BY <2>1, <2>2, <2>3, NoVerdict DEF FairInv
<1>7. CASE Submit
  <2>1. (vd' = vd \/ vd' = [vd EXCEPT !.prior = NoIssue]) /\ number' = number
    BY <1>7 DEF Submit
  <2>2. vd'.issue = vd.issue /\ (vd'.prior = vd.prior \/ vd'.prior = NoIssue) /\ number' = number
    BY <2>1 DEF IInv, VdType
  <2>3. InFlight'
    BY <1>1, <1>7, SubmitInFlight
  <2>4. Issues'
    BY <1>1, <2>2, SameIssues
  <2>5. Verdicts'
    BY <1>1, <1>7, SubmitVerdicts
  <2> QED
    BY <2>3, <2>4, <2>5 DEF FairInv
<1>8. CASE UNCHANGED vars
  <2>1. UNCHANGED <<vd, wire, held, shares, number, early, last>>
    BY <1>8 DEF vars
  <2>2. InFlight'
    BY <1>1, <2>1 DEF InFlight, TasksKnown, InOrder, SettledOnce
  <2>3. Issues'
    BY <1>1, <2>1, SameIssues
  <2>4. Verdicts'
    BY <1>1, <2>1 DEF Verdicts, CreditIsProven, DeniedOnlyStale, UnderRounded, NoneFresh, ExactSeeds
  <2> QED
    BY <2>2, <2>3, <2>4 DEF FairInv
<1> QED
  BY <1>2, <1>3, <1>4, <1>5, <1>6, <1>7, <1>8 DEF Next

LEMMA FairAlways == Spec => []FairInv
<1>1. Init => FairInv
  BY InitFair
<1>2. IInv /\ FairInv /\ [Next]_vars => FairInv'
  BY NextFair
<1> QED
  BY <1>1, <1>2, Invariance, PTL DEF Spec

\* A share is credited with no more than its hash has proven, and with no less
\* than what is issued if it was found under it, whatever was retuned while it
\* was on its way (submit): for every seed.
THEOREM CreditProven == Spec => []CreditIsProven
<1>1. FairInv => CreditIsProven
  BY DEF FairInv, Verdicts
<1> QED
  BY <1>1, FairAlways, PTL

\* What submit denies, from any seed, is only a share whose target was replaced
\* twice, or once with a share before it that met the next one, or once by a
\* stricter one of the same difficulty; or a share of the first target after
\* the constructor's, if that was rounded past it.
THEOREM VerdictsAreFair == Spec => []VerdictsFair
<1>1. FairInv => VerdictsFair
  BY DEF FairInv, Verdicts, VerdictsFair
<1> QED
  BY <1>1, FairAlways, PTL

\* A seed is exact when its square is within the scale of compact targets.
LEMMA SmallSeedsExact ==
    ASSUME NEW d \in Nat \ {0}, d * d <= U32
    PROVE  Difficulty(DifficultyTarget(d)) = d
<1> DEFINE q == U32 \div d
<1>1. U32 \in Nat \ {0}
  BY VarDiffAssumption
<1>2. q \in Nat /\ d * q <= U32 /\ U32 < d * q + d /\ d <= q
  BY <1>1, DivBounds, DivAtLeast
<1>3. Greatest(1, d) = d /\ DifficultyTarget(d) = Compact(Greatest(1, Least(U32, q)))
  BY DEF Greatest, DifficultyTarget
<1> HIDE DEF q
<1>4. q <= U32
  <2>1. q * 1 <= q * d /\ q * d = d * q /\ q * 1 = q
    BY <1>2, MulMono
  <2>2. d * q \in Nat
    BY <1>2
  <2> QED
    BY <1>1, <1>2, <2>1, <2>2
<1>5. Greatest(1, Least(U32, q)) = q
  BY <1>1, <1>2, <1>4 DEF Greatest, Least
<1> DEFINE e == U32 \div q
<1>6. Difficulty(DifficultyTarget(d)) = e
  BY <1>3, <1>5 DEF Difficulty, Compact
<1>7. e \in Nat /\ q * e <= U32 /\ d <= e
  <2>1. q * d <= U32 /\ q \in Nat \ {0}
    BY <1>2
  <2> QED
    BY <1>1, <2>1, DivBounds, DivAtLeast
<1> HIDE DEF e
<1>8. ~ (d + 1 <= e)
  <2>1. d + 1 <= e => q * (d + 1) <= q * e
    BY <1>2, <1>7, MulMono
  <2>2. q * (d + 1) = d * q + q /\ d * q \in Nat /\ q * e \in Nat
    BY <1>2, <1>7
  <2> QED
    BY <1>1, <1>2, <1>7, <2>1, <2>2
<1> QED
  BY <1>6, <1>7, <1>8

\* No share of the target there is is ever denied for its difficulty, if what the
\* constructor starts from is small: up to 65535, which is 4 threads (hub.ts).
THEOREM SmallSeedsAreFair ==
    ASSUME \A seed \in Seeds : Greatest(MinDifficulty, seed) * Greatest(MinDifficulty, seed) <= U32
    PROVE  Spec => []NoneFresh
<1>1. ASSUME NEW seed \in Seeds
      PROVE  Difficulty(DifficultyTarget(Greatest(MinDifficulty, seed))) = Greatest(MinDifficulty, seed)
  <2>1. PICK d : d = Greatest(MinDifficulty, seed)
    OBVIOUS
  <2>2. seed \in 0 .. U32 /\ MinDifficulty \in 1 .. U32 /\ U32 \in Nat
    BY VarDiffAssumption
  <2>3. d \in Nat \ {0}
    BY <2>1, <2>2 DEF Greatest
  <2>4. d * d <= U32
    BY <2>1
  <2> QED
    BY <2>1, <2>3, <2>4, SmallSeedsExact
<1>2. ExactSeeds
  BY <1>1 DEF ExactSeeds
<1>3. FairInv => NoneFresh
  BY <1>2 DEF FairInv, Verdicts
<1> QED
  BY <1>3, FairAlways, PTL
=============================================================================
