-------------------------- MODULE NonceGrantsProofs -------------------------
(***************************************************************************)
(* Proofs about the nonce allocation of NonceGrants, for every number of   *)
(* links and miners, every size of the nonce space and every set of        *)
(* well-formed layouts.                                                    *)
(***************************************************************************)
EXTENDS NonceGrants, TLAPS, SequenceTheorems, WellFoundedInduction

-----------------------------------------------------------------------------
\* The library's well-foundedness of < on Nat, as a least element.
LEMMA LeastElement ==
    ASSUME NEW T, T \subseteq Nat, T # {}
    PROVE  \E x \in T : \A y \in T : x <= y
<1> DEFINE R == OpToRel(<, Nat)
<1>1. IsWellFoundedOn(R, Nat)
    BY NatLessThanWellFounded
<1> HIDE DEF R
<1>2. PICK x \in T : \A y \in T : ~ (<<y, x>> \in R)
    BY <1>1, WFMin, Zenon
<1>3. \A y \in T : ~ (y < x)
    BY <1>2 DEF R, OpToRel
<1> QED
    BY <1>3

\* What a space of the allocator is made of.
LEMMA SpaceParts ==
    ASSUME NEW sp, SpaceOK(sp)
    PROVE  /\ sp.segments \in Seq(Segment)
           /\ DOMAIN sp.segments = 1 .. Len(sp.segments)
           /\ Len(sp.segments) \in Nat
           /\ \A i \in DOMAIN sp.segments :
                 sp.segments[i].base \in Nat /\ sp.segments[i].size \in Nat
           /\ sp.index \in Nat \ {0}
           /\ sp.cursor \in Nat
           /\ sp = [segments |-> sp.segments, index |-> sp.index, cursor |-> sp.cursor]
<1>1. sp.segments \in Seq(Segment) /\ sp.index \in Nat \ {0} /\ sp.cursor \in Nat
      /\ sp = [segments |-> sp.segments, index |-> sp.index, cursor |-> sp.cursor]
    BY DEF SpaceOK, Space
<1>2. /\ DOMAIN sp.segments = 1 .. Len(sp.segments) /\ Len(sp.segments) \in Nat
      /\ sp.segments \in [1 .. Len(sp.segments) -> Segment]
    BY <1>1, LenProperties
<1>3. \A i \in DOMAIN sp.segments : sp.segments[i] \in Segment
    BY <1>2
<1> QED
    BY <1>1, <1>2, <1>3 DEF Segment

\* A segment's nonces are the interval that begins at its base.
LEMMA SegmentMember ==
    ASSUME NEW sp, SpaceOK(sp), NEW k \in DOMAIN sp.segments, NEW n
    PROVE  n \in SegmentNonces(sp, k) <=>
               /\ n \in Int
               /\ sp.segments[k].base <= n
               /\ n < sp.segments[k].base + sp.segments[k].size
<1>1. sp.segments[k].base \in Nat /\ sp.segments[k].size \in Nat
    BY SpaceParts
<1> QED
    BY <1>1 DEF SegmentNonces

-----------------------------------------------------------------------------
\* The nonces ahead of the allocator are none of those behind it: segments do
\* not overlap.
LEMMA BehindNotAhead ==
    ASSUME NEW sp, SpaceOK(sp)
    PROVE  Stock(sp) \intersect Behind(sp) = {}
<1> DEFINE segs == sp.segments
<1>1. /\ DOMAIN segs = 1 .. Len(segs) /\ Len(segs) \in Nat
      /\ \A i \in DOMAIN segs : segs[i].base \in Nat /\ segs[i].size \in Nat
      /\ sp.index \in Nat /\ sp.cursor \in Nat
    BY SpaceParts
<1>2. \A i, j \in DOMAIN segs : i < j =>
        \/ segs[i].base + segs[i].size <= segs[j].base
        \/ segs[j].base + segs[j].size <= segs[i].base
    BY DEF SpaceOK, WellFormed
<1>3. \A k \in DOMAIN segs : \A n \in SegmentNonces(sp, k) :
        n \in Int /\ segs[k].base <= n /\ n < segs[k].base + segs[k].size
    BY SegmentMember
<1>4. SUFFICES ASSUME NEW n \in Stock(sp), n \in Behind(sp) PROVE FALSE
    OBVIOUS
<1>5. PICK i \in DOMAIN segs :
        /\ n \in SegmentNonces(sp, i)
        /\ i > sp.index \/ (i = sp.index /\ n >= segs[i].base + sp.cursor)
    BY <1>4 DEF Stock
<1>6. PICK j \in DOMAIN segs :
        /\ n \in SegmentNonces(sp, j)
        /\ j < sp.index \/ (j = sp.index /\ n < segs[j].base + sp.cursor)
    BY <1>4 DEF Behind
<1> HIDE DEF segs
<1>7. n \in Int /\ i \in Nat /\ j \in Nat
    BY <1>1, <1>3, <1>5
<1>8. j < i
    BY <1>1, <1>5, <1>6, <1>7
<1>9. \/ segs[j].base + segs[j].size <= segs[i].base
      \/ segs[i].base + segs[i].size <= segs[j].base
    BY <1>2, <1>8
<1>10. /\ segs[i].base <= n /\ n < segs[i].base + segs[i].size
       /\ segs[j].base <= n /\ n < segs[j].base + segs[j].size
    BY <1>3, <1>5, <1>6
<1>11. /\ segs[i].base \in Nat /\ segs[i].size \in Nat
       /\ segs[j].base \in Nat /\ segs[j].size \in Nat
    BY <1>1
<1> QED
    BY <1>7, <1>9, <1>10, <1>11

-----------------------------------------------------------------------------
\* take() with a result: a non-empty range of what was ahead, which is then
\* behind (nonce.ts:85-106).
LEMMA TakeGrants ==
    ASSUME NEW sp, SpaceOK(sp), NEW count \in Nat \ {0}, Usable(sp) # {}
    PROVE  LET t == Take(sp, count) IN
           /\ SpaceOK(t.space)
           /\ t.space.segments = sp.segments
           /\ t.grant.start \in Nat /\ t.grant.limit \in Nat
           /\ t.grant.start < t.grant.limit
           /\ t.grant # NoGrant
           /\ NoncesOf(t.grant) \subseteq Stock(sp)
           /\ Stock(t.space) = Stock(sp) \ NoncesOf(t.grant)
           /\ Behind(t.space) = Behind(sp) \union NoncesOf(t.grant)
<1> DEFINE segs == sp.segments
           i     == CHOOSE k \in Usable(sp) : \A m \in Usable(sp) : k <= m
           from  == Passed(sp, i)
           left  == segs[i].size - from
           size  == IF count < left THEN count ELSE left
           start == segs[i].base + from
           limit == IF start + size < NonceTop THEN start + size ELSE NonceTop
           sp2   == [sp EXCEPT !.index = i, !.cursor = from + size]
           range == [start |-> start, limit |-> limit]
<1>1. /\ DOMAIN segs = 1 .. Len(segs) /\ Len(segs) \in Nat
      /\ \A k \in DOMAIN segs : segs[k].base \in Nat /\ segs[k].size \in Nat
      /\ segs \in Seq(Segment)
    BY SpaceParts
<1>2. /\ sp.index \in Nat /\ sp.index >= 1 /\ sp.cursor \in Nat
      /\ NonceTop \in Nat
    BY SpaceParts, NonceAssumption DEF NonceTop
<1>M. \A k \in DOMAIN segs : \A n : n \in SegmentNonces(sp, k) <=>
        n \in Int /\ segs[k].base <= n /\ n < segs[k].base + segs[k].size
    BY SegmentMember
<1>3. i \in Usable(sp) /\ \A m \in Usable(sp) : i <= m
  <2>1. Usable(sp) \subseteq Nat
      BY <1>1, <1>2 DEF Usable, Ahead
  <2>2. \E w \in Usable(sp) : \A m \in Usable(sp) : w <= m
      BY <2>1, LeastElement
  <2> QED
      BY <2>2
<1>F. from = IF i = sp.index THEN sp.cursor ELSE 0
    BY DEF Passed
<1>6. Take(sp, count) = [grant |-> range, space |-> sp2]
    BY DEF Take
<1>7. /\ sp2.segments = segs /\ sp2.index = i /\ sp2.cursor = from + size
  <2> HIDE DEF i, from, size
  <2>1. sp \in [segments : Seq(Segment), index : Nat \ {0}, cursor : Nat]
      BY DEF SpaceOK, Space
  <2> QED BY <2>1
<1>13. \A k : SegmentNonces(sp2, k) = SegmentNonces(sp, k)
  <2> HIDE DEF i, from, size, sp2
  <2> QED BY <1>7 DEF SegmentNonces
<1>0. range.start = start /\ range.limit = limit
    OBVIOUS
<1>D. start = segs[i].base + from /\ left = segs[i].size - from
    OBVIOUS
<1>4. /\ i \in DOMAIN segs /\ i \in Nat /\ i >= sp.index /\ i <= Len(segs)
      /\ from \in Nat /\ from < segs[i].size
      /\ start < NonceTop
  <2>1. i \in Ahead(sp) /\ from < segs[i].size /\ start < NonceTop
      BY <1>3 DEF Usable
  <2> HIDE DEF i, from, start, segs
  <2>2. i \in sp.index .. Len(segs)
      BY <2>1 DEF Ahead, segs
  <2> QED BY <1>1, <1>2, <1>F, <2>1, <2>2
<1>S. /\ size = (IF count < left THEN count ELSE left)
      /\ limit = (IF start + size < NonceTop THEN start + size ELSE NonceTop)
    OBVIOUS
<1> HIDE DEF i, from, left, size, start, limit, range, sp2
<1>B. segs[i].base \in Nat /\ segs[i].size \in Nat
    BY <1>1, <1>4
<1>5. /\ left \in Nat /\ size \in Nat /\ size > 0 /\ from + size <= segs[i].size
      /\ start \in Nat /\ limit \in Nat /\ start < limit /\ limit <= NonceTop
      /\ limit <= start + size
      /\ limit = start + size \/ limit = NonceTop
  <2> HIDE DEF segs
  <2>1. left \in Nat /\ left > 0 /\ start \in Nat
      BY <1>4, <1>B, <1>D
  <2>2. size \in Nat /\ size > 0 /\ size <= left
      BY <2>1, <1>S
  <2>3. from + size <= segs[i].size
      BY <1>4, <1>B, <1>D, <2>1, <2>2
  <2> QED BY <1>2, <1>4, <1>S, <2>1, <2>2, <2>3
<1>8. SpaceOK(sp2)
  <2>1. sp2 \in Space
    <3>1. sp \in Space /\ i \in Nat \ {0} /\ from + size \in Nat
        BY <1>2, <1>4, <1>5 DEF SpaceOK
    <3>2. ASSUME NEW a \in Nat \ {0}, NEW b \in Nat
          PROVE  [sp EXCEPT !.index = a, !.cursor = b] \in Space
        BY <3>1 DEF Space
    <3> HIDE DEF i, from, size
    <3> QED BY <3>1, <3>2 DEF sp2
  <2>2. WellFormed(sp2.segments)
      BY <1>7 DEF SpaceOK
  <2>3. sp2.index <= Len(sp2.segments) + 1 /\ sp2.cursor <= sp2.segments[sp2.index].size
      BY <1>1, <1>4, <1>5, <1>7
  <2> QED BY <2>1, <2>2, <2>3 DEF SpaceOK
<1>9. \A n : n \in NoncesOf(range) <=> n \in Int /\ start <= n /\ n < limit
    BY <1>0, <1>5 DEF NoncesOf
\* Between the old position and segment i there is nothing below NonceTop.
<1>11. \A k \in DOMAIN segs : k >= sp.index /\ k < i =>
          \A n \in 0 .. NonceTop - 1 : n \in SegmentNonces(sp, k) =>
              k = sp.index /\ n < segs[k].base + sp.cursor
  <2> SUFFICES ASSUME NEW k \in DOMAIN segs, k >= sp.index, k < i,
                      NEW n \in 0 .. NonceTop - 1, n \in SegmentNonces(sp, k)
               PROVE  k = sp.index /\ n < segs[k].base + sp.cursor
      OBVIOUS
  <2>1. k \notin Usable(sp)
      BY <1>1, <1>3, <1>4 DEF Usable, Ahead
  <2>2. \/ Passed(sp, k) >= segs[k].size
        \/ segs[k].base + Passed(sp, k) >= NonceTop
    <3>1. Passed(sp, k) \in Nat
        BY <1>2 DEF Passed
    <3>2. k \in sp.index .. Len(sp.segments)
        BY <1>1, <1>2
    <3>3. ~ (/\ Passed(sp, k) < sp.segments[k].size
             /\ sp.segments[k].base + Passed(sp, k) < NonceTop)
        BY <2>1, <3>2 DEF Usable, Ahead
    <3>4. segs[k].size \in Nat /\ segs[k].base \in Nat /\ NonceTop \in Nat /\ segs = sp.segments
        BY <1>1, <1>2
    <3> QED BY <3>1, <3>3, <3>4
  <2>3. /\ n \in Int /\ segs[k].base <= n /\ n < segs[k].base + segs[k].size
        /\ segs[k].base \in Nat /\ segs[k].size \in Nat
      BY <1>1, <1>M
  <2>4. Passed(sp, k) = IF k = sp.index THEN sp.cursor ELSE 0
      BY DEF Passed
  <2> HIDE DEF segs
  <2> QED BY <1>2, <2>2, <2>3, <2>4
<1>14. \A n \in 0 .. NonceTop - 1 : n \in NoncesOf(range) <=>
          n \in SegmentNonces(sp, i) /\ n >= segs[i].base + from /\ n < segs[i].base + from + size
  <2>1. \A n : n \in SegmentNonces(sp, i) <=>
          n \in Int /\ segs[i].base <= n /\ n < segs[i].base + segs[i].size
      BY <1>M, <1>4
  <2> HIDE DEF segs
  <2> TAKE n \in 0 .. NonceTop - 1
  <2>2. n \in Int /\ n < NonceTop
      BY <1>2
  <2>3. n \in NoncesOf(range) <=> start <= n /\ n < limit
      BY <1>9, <2>2
  <2>4. n < limit <=> n < start + size
      BY <1>2, <1>5, <2>2
  <2>6. /\ from \in Nat /\ size \in Nat /\ from + size <= segs[i].size
        /\ start = segs[i].base + from
        /\ segs[i].base \in Nat /\ segs[i].size \in Nat
      BY <1>4, <1>5, <1>B, <1>D
  <2>5. start <= n /\ n < start + size =>
            segs[i].base <= n /\ n < segs[i].base + segs[i].size
    <3> HIDE DEF i
    <3> QED BY <2>2, <2>6
  <2> QED BY <2>1, <2>2, <2>3, <2>4, <2>5, <2>6
<1>15. NoncesOf(range) \subseteq 0 .. NonceTop - 1
    BY <1>2, <1>5, <1>9
<1>16. \A n \in 0 .. NonceTop - 1 : n \in Stock(sp) <=>
          \E k \in DOMAIN segs : n \in SegmentNonces(sp, k)
              /\ (k > i \/ (k = i /\ n >= segs[k].base + from))
  <2> TAKE n \in 0 .. NonceTop - 1
  <2>1. \A k \in DOMAIN segs : n \in SegmentNonces(sp, k) =>
          ( (k > sp.index \/ (k = sp.index /\ n >= segs[k].base + sp.cursor))
            <=> (k > i \/ (k = i /\ n >= segs[k].base + from)) )
    <3> TAKE k \in DOMAIN segs
    <3> HAVE n \in SegmentNonces(sp, k)
    <3>1. k \in Nat /\ segs[k].base \in Nat /\ n \in Int /\ segs[k].base <= n
        BY <1>1, <1>M
    <3>2. k >= sp.index /\ k < i => k = sp.index /\ n < segs[k].base + sp.cursor
        BY <1>11
    <3> HIDE DEF segs
    <3> QED BY <1>2, <1>4, <1>F, <3>1, <3>2
  <2> QED BY <2>1 DEF Stock
<1>17. \A n \in 0 .. NonceTop - 1 : n \in Behind(sp) <=>
          \E k \in DOMAIN segs : n \in SegmentNonces(sp, k)
              /\ (k < i \/ (k = i /\ n < segs[k].base + from))
  <2> TAKE n \in 0 .. NonceTop - 1
  <2>1. \A k \in DOMAIN segs : n \in SegmentNonces(sp, k) =>
          ( (k < sp.index \/ (k = sp.index /\ n < segs[k].base + sp.cursor))
            <=> (k < i \/ (k = i /\ n < segs[k].base + from)) )
    <3> TAKE k \in DOMAIN segs
    <3> HAVE n \in SegmentNonces(sp, k)
    <3>1. k \in Nat /\ segs[k].base \in Nat /\ n \in Int /\ segs[k].base <= n
        BY <1>1, <1>M
    <3>2. k >= sp.index /\ k < i => k = sp.index /\ n < segs[k].base + sp.cursor
        BY <1>11
    <3> HIDE DEF segs
    <3> QED BY <1>2, <1>4, <1>F, <3>1, <3>2
  <2> QED BY <2>1 DEF Behind
<1>18. \A n \in 0 .. NonceTop - 1 : n \in Stock(sp2) <=>
          \E k \in DOMAIN segs : n \in SegmentNonces(sp, k)
              /\ (k > i \/ (k = i /\ n >= segs[k].base + (from + size)))
    BY <1>7, <1>13, Zenon DEF Stock
<1>19. \A n \in 0 .. NonceTop - 1 : n \in Behind(sp2) <=>
          \E k \in DOMAIN segs : n \in SegmentNonces(sp, k)
              /\ (k < i \/ (k = i /\ n < segs[k].base + (from + size)))
    BY <1>7, <1>13, Zenon DEF Behind
<1>20. /\ Stock(sp) \subseteq 0 .. NonceTop - 1 /\ Behind(sp) \subseteq 0 .. NonceTop - 1
       /\ Stock(sp2) \subseteq 0 .. NonceTop - 1 /\ Behind(sp2) \subseteq 0 .. NonceTop - 1
    BY DEF Stock, Behind
<1>21. SpaceOK(sp2) /\ Stock(sp2) \intersect Behind(sp2) = {}
       /\ Stock(sp) \intersect Behind(sp) = {}
    BY <1>8, BehindNotAhead
<1>22. NoncesOf(range) \subseteq Stock(sp)
    BY <1>4, <1>14, <1>15, <1>16
<1>23. NoncesOf(range) \subseteq Behind(sp2)
  <2> SUFFICES ASSUME NEW n \in NoncesOf(range) PROVE n \in Behind(sp2)
      OBVIOUS
  <2>1. /\ n \in 0 .. NonceTop - 1 /\ n \in SegmentNonces(sp, i)
        /\ n < segs[i].base + from + size
      BY <1>14, <1>15
  <2>2. n < segs[i].base + (from + size)
    <3> HIDE DEF segs
    <3> QED BY <1>4, <1>5, <1>B, <2>1
  <2> QED BY <1>4, <1>19, <2>1, <2>2
\* Arithmetic on the position of n in segment i.
<1>P. \A n \in 0 .. NonceTop - 1 :
          /\ n >= segs[i].base + (from + size) => n >= segs[i].base + from
          /\ n < segs[i].base + from => n < segs[i].base + (from + size)
          /\ n \in SegmentNonces(sp, i) /\ n \notin NoncesOf(range) =>
               /\ n >= segs[i].base + from => n >= segs[i].base + (from + size)
               /\ n < segs[i].base + (from + size) => n < segs[i].base + from
  <2> TAKE n \in 0 .. NonceTop - 1
  <2>1. n \in NoncesOf(range) <=>
          n \in SegmentNonces(sp, i) /\ n >= segs[i].base + from /\ n < segs[i].base + from + size
      BY <1>14
  <2> HIDE DEF segs
  <2>2. n \in Int
      BY <1>2
  <2>3. /\ segs[i].base \in Nat /\ from \in Nat /\ size \in Nat
        /\ segs[i].base + (from + size) = segs[i].base + from + size
      BY <1>4, <1>5, <1>B
  <2>4. PICK a, b : a = segs[i].base + from /\ b = segs[i].base + (from + size)
      OBVIOUS
  <2>5. a \in Nat /\ b \in Nat /\ a <= b
      BY <2>3, <2>4
  <2>6. n \in NoncesOf(range) <=> n \in SegmentNonces(sp, i) /\ n >= a /\ n < b
      BY <2>1, <2>3, <2>4
  <2>7. /\ n >= b => n >= a
        /\ n < a => n < b
        /\ n \in SegmentNonces(sp, i) /\ n \notin NoncesOf(range) =>
               /\ n >= a => n >= b
               /\ n < b => n < a
      BY <2>2, <2>5, <2>6
  <2> QED BY <2>4, <2>7
<1>24. Stock(sp2) = Stock(sp) \ NoncesOf(range)
  <2>1. ASSUME NEW n \in Stock(sp2) PROVE n \in Stock(sp) /\ n \notin NoncesOf(range)
    <3>1. n \in Stock(sp)
        BY <1>16, <1>18, <1>20, <1>P
    <3> QED BY <1>21, <1>23, <3>1
  <2>2. ASSUME NEW n \in Stock(sp), n \notin NoncesOf(range) PROVE n \in Stock(sp2)
      BY <1>16, <1>18, <1>20, <1>P, <2>2
  <2> QED BY <2>1, <2>2
<1>25. Behind(sp2) = Behind(sp) \union NoncesOf(range)
  <2>1. ASSUME NEW n \in Behind(sp) PROVE n \in Behind(sp2)
      BY <1>17, <1>19, <1>20, <1>P
  <2>2. ASSUME NEW n \in Behind(sp2), n \notin NoncesOf(range) PROVE n \in Behind(sp)
      BY <1>17, <1>19, <1>20, <1>P, <2>2
  <2> QED BY <1>23, <2>1, <2>2
<1>26. range # NoGrant
    BY <1>0, <1>2, <1>5 DEF NoGrant
<1> QED
    BY <1>0, <1>5, <1>6, <1>7, <1>8, <1>22, <1>24, <1>25, <1>26

\* take() without a result: nothing was ahead, and the space is used up.
LEMMA TakeRefuses ==
    ASSUME NEW sp, SpaceOK(sp), NEW count \in Nat \ {0}, Usable(sp) = {}
    PROVE  LET t == Take(sp, count) IN
           /\ SpaceOK(t.space)
           /\ t.grant = NoGrant
           /\ Stock(t.space) = {} /\ Stock(sp) = {}
           /\ Behind(t.space) = Behind(sp)
<1> DEFINE segs == sp.segments
           sp2  == [sp EXCEPT !.index = Len(segs) + 1, !.cursor = 0]
<1>1. /\ DOMAIN segs = 1 .. Len(segs) /\ Len(segs) \in Nat
      /\ \A k \in DOMAIN segs : segs[k].base \in Nat /\ segs[k].size \in Nat
      /\ sp.index \in Nat /\ sp.cursor \in Nat /\ NonceTop \in Nat
    BY SpaceParts, NonceAssumption DEF NonceTop
<1>2. Take(sp, count) = [grant |-> NoGrant, space |-> sp2]
    BY DEF Take
<1>3. sp2.segments = segs /\ sp2.index = Len(segs) + 1 /\ sp2.cursor = 0 /\ sp2 \in Space
  <2>1. sp \in [segments : Seq(Segment), index : Nat \ {0}, cursor : Nat]
      BY DEF SpaceOK, Space
  <2>2. Len(segs) + 1 \in Nat \ {0}
      BY <1>1
  <2> QED BY <2>1, <2>2 DEF Space
<1> HIDE DEF sp2
<1>4. SpaceOK(sp2)
    BY <1>1, <1>3 DEF SpaceOK
<1>5. \A k : SegmentNonces(sp2, k) = SegmentNonces(sp, k)
    BY <1>3 DEF SegmentNonces
<1>6. \A k \in DOMAIN segs : \A n \in 0 .. NonceTop - 1 :
        n \in SegmentNonces(sp, k) =>
            k < sp.index \/ (k = sp.index /\ n < segs[k].base + sp.cursor)
  <2> SUFFICES ASSUME NEW k \in DOMAIN segs, k >= sp.index,
                      NEW n \in 0 .. NonceTop - 1, n \in SegmentNonces(sp, k)
               PROVE  k = sp.index /\ n < segs[k].base + sp.cursor
      BY <1>1
  <2>1. /\ n \in Int /\ segs[k].base <= n /\ n < segs[k].base + segs[k].size
        /\ segs[k].base \in Nat /\ segs[k].size \in Nat
      BY <1>1, SegmentMember
  <2>2. Passed(sp, k) = (IF k = sp.index THEN sp.cursor ELSE 0) /\ Passed(sp, k) \in Nat
      BY <1>1 DEF Passed
  <2>3. \/ Passed(sp, k) >= segs[k].size
        \/ segs[k].base + Passed(sp, k) >= NonceTop
      BY <1>1, <2>2 DEF Usable, Ahead
  <2> HIDE DEF segs
  <2> QED BY <1>1, <2>1, <2>2, <2>3
<1>7. Stock(sp2) = {}
    BY <1>1, <1>3 DEF Stock
<1>8. Stock(sp) = {}
  <2> SUFFICES ASSUME NEW n \in Stock(sp) PROVE FALSE
      OBVIOUS
  <2>1. PICK k \in DOMAIN segs :
          /\ n \in SegmentNonces(sp, k)
          /\ k > sp.index \/ (k = sp.index /\ n >= segs[k].base + sp.cursor)
      BY DEF Stock
  <2>2. n \in 0 .. NonceTop - 1 /\ k \in Nat /\ segs[k].base \in Nat
      BY <1>1 DEF Stock
  <2>3. k < sp.index \/ (k = sp.index /\ n < segs[k].base + sp.cursor)
      BY <1>6, <2>1, <2>2
  <2> HIDE DEF segs
  <2> QED BY <1>1, <2>1, <2>2, <2>3
<1>9. Behind(sp2) = Behind(sp)
  <2>1. \A k \in DOMAIN segs : k < sp2.index
      BY <1>1, <1>3
  <2> QED BY <1>3, <1>5, <1>6, <2>1, Zenon DEF Behind
<1> QED
    BY <1>2, <1>4, <1>7, <1>8, <1>9

\* A new job's space: the allocator has passed nothing (nonce.ts:26).
LEMMA FreshSpace ==
    ASSUME NEW layout, WellFormed(layout)
    PROVE  SpaceOK(CreateSpace(layout)) /\ Behind(CreateSpace(layout)) = {}
<1> DEFINE sp == CreateSpace(layout)
<1>1. /\ layout \in Seq(Segment) /\ Len(layout) \in Nat /\ DOMAIN layout = 1 .. Len(layout)
    BY LenProperties DEF WellFormed
<1>2. /\ sp.segments = layout /\ sp.index = 1 /\ sp.cursor = 0 /\ sp \in Space
    BY <1>1 DEF CreateSpace, Space
<1>3. \A k \in DOMAIN layout : layout[k].size \in Nat /\ layout[k].base \in Nat
  <2>1. \A k \in DOMAIN layout : layout[k] \in Segment
      BY <1>1, ElementOfSeq
  <2> QED BY <2>1 DEF Segment
<1> HIDE DEF sp
<1>4. SpaceOK(sp)
    BY <1>1, <1>2, <1>3 DEF SpaceOK
<1>5. Behind(sp) = {}
  <2> SUFFICES ASSUME NEW n \in Behind(sp) PROVE FALSE
      OBVIOUS
  <2>1. PICK k \in DOMAIN layout :
          /\ n \in SegmentNonces(sp, k)
          /\ k < 1 \/ (k = 1 /\ n < layout[k].base + 0)
      BY <1>2 DEF Behind
  <2>2. layout[k].base <= n /\ n \in Int /\ k \in Nat /\ k >= 1 /\ layout[k].base \in Nat
      BY <1>1, <1>2, <1>3, <1>4, <2>1, SegmentMember
  <2> QED BY <2>1, <2>2
<1> QED BY <1>4, <1>5 DEF sp

\* Ledger.record keeps the shape of a ledger (nonce.ts:64-75).
LEMMA RecordType ==
    ASSUME NEW led \in LedgerType, NEW id \in Links \X Nat, NEW range \in Interval
    PROVE  Record(led, id, range) \in LedgerType
<1> DEFINE turned == IF led.job # id
                     THEN [job |-> id, ranges |-> <<>>, prior |-> led.ranges]
                     ELSE led
           n == Len(turned.ranges)
<1>1. turned \in LedgerType
    BY DEF LedgerType
<1>2. Record(led, id, range) =
        IF n > 0 /\ turned.ranges[n].limit = range.start
        THEN [turned EXCEPT !.ranges[n].limit = range.limit]
        ELSE [turned EXCEPT !.ranges = Append(@, range)]
    BY DEF Record
<1> HIDE DEF turned
<1>3. turned.ranges \in Seq(Interval) /\ n \in Nat
    BY <1>1, LenProperties DEF LedgerType
<1>4. ASSUME n > 0
      PROVE  [turned EXCEPT !.ranges[n].limit = range.limit] \in LedgerType
  <2>1. n \in 1 .. Len(turned.ranges)
      BY <1>3, <1>4
  <2>2. turned.ranges[n] \in Interval
      BY <1>3, <2>1, ElementOfSeq
  <2>3. [turned.ranges[n] EXCEPT !.limit = range.limit] \in Interval
      BY <2>2 DEF Interval
  <2>4. [turned.ranges EXCEPT ![n] = [turned.ranges[n] EXCEPT !.limit = range.limit]]
            \in Seq(Interval)
      BY <1>3, <2>1, <2>3, ExceptSeq
  <2>5. [turned.ranges EXCEPT ![n].limit = range.limit] \in Seq(Interval)
      BY <2>4
  <2> HIDE DEF n
  <2> QED BY <1>1, <2>5 DEF LedgerType
<1>5. [turned EXCEPT !.ranges = Append(@, range)] \in LedgerType
  <2>1. Append(turned.ranges, range) \in Seq(Interval)
      BY <1>3, AppendProperties
  <2> QED BY <1>1, <2>1 DEF LedgerType
<1> QED
    BY <1>2, <1>4, <1>5

-----------------------------------------------------------------------------
(***************************************************************************)
(* The inductive invariant: GrantsDisjoint is not inductive by itself, as  *)
(* nothing in it says where the allocator will cut next.  GrantedIsBehind  *)
(* does: what was granted of the current job is behind the allocator, and  *)
(* take() only cuts from what is ahead of it.                              *)
(***************************************************************************)
GrantsNonEmpty == \A k \in DOMAIN given : given[k].start < given[k].limit

JobsPast == \A k \in DOMAIN given : given[k].job[2] <= job[given[k].job[1]]

IInv == TypeOK /\ GrantsNonEmpty /\ JobsPast /\ GrantedIsBehind /\ GrantsDisjoint

\* The initial state has the invariant.
LEMMA GrantsInit == Init => IInv
<1> SUFFICES ASSUME Init PROVE IInv
    OBVIOUS
<1>1. given = <<>> /\ DOMAIN given = {} /\ given \in Seq(GrantRecord)
    BY DEF Init
<1>2. SpaceOK(CreateSpace(<<>>))
  <2>1. WellFormed(<<>>)
      BY DEF WellFormed
  <2> QED BY <2>1, FreshSpace
<1>3. EmptyLedger \in LedgerType
    BY DEF EmptyLedger, LedgerType
<1>4. TypeOK
    BY <1>1, <1>2, <1>3, GrantsAssumption DEF Init, TypeOK, SpaceOK
<1> QED
    BY <1>1, <1>4 DEF Init, IInv, GrantsNonEmpty, JobsPast, GrantedIsBehind, GrantsDisjoint

\* Facts about the grants that every step uses.
LEMMA GivenFacts ==
    ASSUME TypeOK
    PROVE  /\ Len(given) \in Nat /\ DOMAIN given = 1 .. Len(given)
           /\ \A k \in DOMAIN given :
                /\ given[k] \in GrantRecord
                /\ given[k].start \in Nat /\ given[k].limit \in Nat
                /\ given[k].job \in Links \X Nat
                /\ given[k].client \in Clients \union {NoJob}
<1>1. given \in Seq(GrantRecord)
    BY DEF TypeOK
<1>2. Len(given) \in Nat /\ DOMAIN given = 1 .. Len(given)
    BY <1>1, LenProperties
<1>3. \A k \in DOMAIN given : given[k] \in GrantRecord
    BY <1>1, <1>2, ElementOfSeq
<1> QED
    BY <1>2, <1>3 DEF GrantRecord

\* A new job's space has granted nothing, and no grant is of that job yet.
LEMMA AcceptStep ==
    ASSUME IInv, NEW l \in Links, NEW layout \in Layouts, Accept(l, layout)
    PROVE  IInv'
<1>1. /\ TypeOK /\ WellFormed(layout) /\ MaxJobs \in Nat
      /\ SpaceOK(CreateSpace(layout)) /\ Behind(CreateSpace(layout)) = {}
    BY FreshSpace, GrantsAssumption DEF IInv
<1>2. /\ given' = given /\ ledger' = ledger
      /\ job' = [job EXCEPT ![l] = job[l] + 1]
      /\ space' = [space EXCEPT ![l] = CreateSpace(layout)]
      /\ job[l] < MaxJobs
    BY DEF Accept
<1>3. job \in [Links -> 0 .. MaxJobs] /\ space \in [Links -> Space]
    BY <1>1 DEF TypeOK
<1>4. TypeOK'
  <2>1. job' \in [Links -> 0 .. MaxJobs]
      BY <1>1, <1>2, <1>3
  <2>2. space' \in [Links -> Space] /\ \A m \in Links : SpaceOK(space'[m])
      BY <1>1, <1>2, <1>3 DEF TypeOK, SpaceOK
  <2> QED BY <1>1, <1>2, <2>1, <2>2 DEF TypeOK, SpaceOK
<1>5. JobsPast'
    BY <1>1, <1>2, <1>3, GivenFacts DEF IInv, JobsPast
<1>6. GrantedIsBehind'
  <2> SUFFICES ASSUME NEW m \in Links, job'[m] > 0
               PROVE  Covered(m)' = Behind(space'[m])
      BY DEF GrantedIsBehind, Behind
  <2>1. CASE m = l
    <3>1. Live(m)' = {}
        BY <1>1, <1>2, <1>3, <2>1, GivenFacts DEF IInv, JobsPast, Live, JobId
    <3> QED BY <1>1, <1>2, <1>3, <2>1, <3>1 DEF Covered
  <2>2. CASE m # l
    <3>1. job'[m] = job[m] /\ space'[m] = space[m] /\ Live(m)' = Live(m)
        BY <1>2, <1>3, <2>2 DEF Live, JobId
    <3> QED BY <1>2, <3>1 DEF IInv, GrantedIsBehind, Covered
  <2> QED BY <2>1, <2>2
<1> QED
    BY <1>2, <1>4, <1>5, <1>6 DEF IInv, GrantsNonEmpty, GrantsDisjoint

\* A grant is ahead of the allocator, hence apart from every earlier one.
LEMMA GrantStep ==
    ASSUME IInv, NEW l \in Links, NEW c \in Clients, NEW count \in Counts, Grant(l, c, count)
    PROVE  IInv'
<1> DEFINE taken == Take(space[l], count)
           range == taken.grant
           entry == [job |-> JobId(l), client |-> c, start |-> range.start, limit |-> range.limit]
           n     == Len(given)
<1>1. /\ TypeOK /\ GrantsNonEmpty /\ JobsPast /\ GrantedIsBehind /\ GrantsDisjoint
      /\ SpaceOK(space[l]) /\ count \in Nat \ {0}
    BY GrantsAssumption DEF IInv, TypeOK
<1>2. /\ job[l] > 0 /\ range # NoGrant
      /\ space' = [space EXCEPT ![l] = taken.space]
      /\ ledger' = [ledger EXCEPT ![c] = Record(ledger[c], JobId(l), range)]
      /\ given' = Append(given, entry)
      /\ job' = job
    BY DEF Grant
<1>3. Usable(space[l]) # {}
    BY <1>1, <1>2, TakeRefuses
<1>4. /\ SpaceOK(taken.space)
      /\ range.start \in Nat /\ range.limit \in Nat /\ range.start < range.limit
      /\ NoncesOf(range) \subseteq Stock(space[l])
      /\ Behind(taken.space) = Behind(space[l]) \union NoncesOf(range)
    BY <1>1, <1>3, TakeGrants
<1>5. range \in Interval
  <2>1. range = [start |-> range.start, limit |-> range.limit]
      BY <1>3 DEF Take
  <2> HIDE DEF range
  <2> QED BY <1>4, <2>1 DEF Interval
<1> HIDE DEF range, taken
<1>6. job \in [Links -> 0 .. MaxJobs] /\ space \in [Links -> Space] /\ MaxJobs \in Nat
      /\ ledger \in [Clients -> LedgerType] /\ given \in Seq(GrantRecord)
    BY <1>1, GrantsAssumption DEF TypeOK
<1>7. JobId(l) \in Links \X Nat
    BY <1>6 DEF JobId
<1>8. entry \in GrantRecord
    BY <1>4, <1>7 DEF GrantRecord
<1>9. /\ n \in Nat /\ DOMAIN given = 1 .. n
      /\ given' \in Seq(GrantRecord) /\ DOMAIN given' = 1 .. (n + 1)
      /\ \A k \in 1 .. n : given'[k] = given[k]
      /\ given'[n + 1] = entry
  <2>1. n \in Nat /\ DOMAIN given = 1 .. n
      BY <1>1, GivenFacts
  <2>2. /\ given' \in Seq(GrantRecord) /\ Len(given') = n + 1
        /\ \A k \in 1 .. n : given'[k] = given[k]
        /\ given'[n + 1] = entry
      BY <1>2, <1>6, <1>8, AppendProperties
  <2>3. DOMAIN given' = 1 .. (n + 1)
      BY <2>2, LenProperties
  <2> QED BY <2>1, <2>2, <2>3
<1>10. entry.start = range.start /\ entry.limit = range.limit /\ entry.job = JobId(l)
    OBVIOUS
<1> HIDE DEF entry, n
<1>11. TypeOK'
  <2>1. \A m \in Links : SpaceOK(space'[m])
      BY <1>1, <1>2, <1>4, <1>6 DEF TypeOK
  <2>2. space' \in [Links -> Space]
      BY <1>2, <1>4, <1>6 DEF SpaceOK
  <2>3. ledger' \in [Clients -> LedgerType]
    <3>1. Record(ledger[c], JobId(l), range) \in LedgerType
        BY <1>5, <1>6, <1>7, RecordType
    <3> QED BY <1>2, <1>6, <3>1
  <2> QED BY <1>2, <1>6, <1>9, <2>1, <2>2, <2>3 DEF TypeOK, SpaceOK
<1>12. GrantsNonEmpty'
    BY <1>1, <1>4, <1>9, <1>10 DEF GrantsNonEmpty
<1>13. JobsPast'
  <2>1. \A k \in 1 .. n : given'[k].job[2] <= job'[given'[k].job[1]]
      BY <1>1, <1>2, <1>9 DEF JobsPast
  <2>2. JobId(l)[1] = l /\ JobId(l)[2] = job[l] /\ job[l] \in Nat
      BY <1>6 DEF JobId
  <2>3. given'[n + 1].job[2] <= job'[given'[n + 1].job[1]]
      BY <1>2, <1>9, <1>10, <2>2
  <2> QED BY <1>9, <2>1, <2>3 DEF JobsPast
<1>14. GrantedIsBehind'
  <2> SUFFICES ASSUME NEW m \in Links, job'[m] > 0
               PROVE  Covered(m)' = Behind(space'[m])
      BY DEF GrantedIsBehind, Behind
  <2>0. NoncesOf(entry) = NoncesOf(range) /\ n + 1 \notin 1 .. n
      BY <1>9, <1>10 DEF NoncesOf
  <2>1. CASE m = l
    <3>1. Live(l)' = Live(l) \union {n + 1}
        BY <1>2, <1>9, <1>10, <2>0 DEF Live, JobId
    <3>2. \A k \in Live(l) : given'[k] = given[k]
        BY <1>9 DEF Live
    <3>3. Covered(l)' = Covered(l) \union NoncesOf(range)
      <4>1. NoncesOf(given'[n + 1]) = NoncesOf(range)
          BY <1>9, <2>0
      <4>2. \A y : y \in Covered(l)' <=> \E k \in Live(l) \union {n + 1} : y \in NoncesOf(given'[k])
          BY <3>1 DEF Covered
      <4>3. \A y : y \in Covered(l) <=> \E k \in Live(l) : y \in NoncesOf(given'[k])
          BY <3>2 DEF Covered
      <4> QED BY <4>1, <4>2, <4>3
    <3>4. Covered(l) = Behind(space[l])
        BY <1>1, <1>2 DEF GrantedIsBehind
    <3>5. space'[m] = taken.space /\ Covered(m)' = Covered(l)'
        BY <1>2, <1>6, <2>1 DEF Covered, Live, JobId
    <3> QED BY <1>4, <3>3, <3>4, <3>5
  <2>2. CASE m # l
    <3>1. job'[m] = job[m] /\ space'[m] = space[m]
        BY <1>2, <1>6, <2>2
    <3>2. JobId(l) # JobId(m) /\ JobId(m)' = JobId(m)
        BY <1>2, <2>2 DEF JobId
    <3>3. Live(m)' = Live(m)
        BY <1>9, <1>10, <2>0, <3>2 DEF Live
    <3>4. \A k \in Live(m) : given'[k] = given[k]
        BY <1>9 DEF Live
    <3>5. Covered(m) = Behind(space[m])
        BY <1>1, <3>1 DEF GrantedIsBehind
    <3> QED BY <3>1, <3>3, <3>4, <3>5 DEF Covered
  <2> QED BY <2>1, <2>2
<1>15. GrantsDisjoint'
  <2>1. \A i \in 1 .. n : given[i].job = JobId(l) =>
            given[i].limit <= range.start \/ range.limit <= given[i].start
    <3> SUFFICES ASSUME NEW i \in 1 .. n, given[i].job = JobId(l)
                 PROVE  given[i].limit <= range.start \/ range.limit <= given[i].start
        OBVIOUS
    <3>1. /\ given[i].start \in Nat /\ given[i].limit \in Nat
          /\ given[i].start < given[i].limit
        BY <1>1, <1>9, GivenFacts DEF GrantsNonEmpty
    <3>2. NoncesOf(given[i]) \subseteq Behind(space[l])
      <4>1. i \in Live(l)
          BY <1>9 DEF Live
      <4> QED BY <1>1, <1>2, <4>1 DEF GrantedIsBehind, Covered
    <3>3. NoncesOf(given[i]) \intersect NoncesOf(range) = {}
        BY <1>1, <1>4, <3>2, BehindNotAhead
    <3>4. \A x \in Nat :
            ~ (given[i].start <= x /\ x < given[i].limit /\ range.start <= x /\ x < range.limit)
        BY <1>4, <3>1, <3>3 DEF NoncesOf
    <3> QED BY <1>4, <3>1, <3>4
  <2>2. \A i \in 1 .. n : given'[i].job = given'[n + 1].job =>
            \/ given'[i].limit <= given'[n + 1].start
            \/ given'[n + 1].limit <= given'[i].start
      BY <1>9, <1>10, <2>1
  <2>3. \A i, j \in 1 .. n : i # j /\ given'[i].job = given'[j].job =>
            given'[i].limit <= given'[j].start \/ given'[j].limit <= given'[i].start
      BY <1>1, <1>9 DEF GrantsDisjoint
  <2>4. \A i \in DOMAIN given' : i \in 1 .. n \/ i = n + 1
      BY <1>9
  <2> QED BY <2>2, <2>3, <2>4 DEF GrantsDisjoint
<1> QED
    BY <1>11, <1>12, <1>13, <1>14, <1>15 DEF IInv

\* A refusal passes over nothing but empty segments.
LEMMA RefuseStep ==
    ASSUME IInv, NEW l \in Links, NEW count \in Counts, Refuse(l, count)
    PROVE  IInv'
<1> DEFINE taken == Take(space[l], count)
<1>1. /\ TypeOK /\ GrantedIsBehind /\ SpaceOK(space[l]) /\ count \in Nat \ {0}
    BY GrantsAssumption DEF IInv, TypeOK
<1>2. /\ taken.grant = NoGrant
      /\ space' = [space EXCEPT ![l] = taken.space]
      /\ job' = job /\ ledger' = ledger /\ given' = given
    BY DEF Refuse
<1>3. Usable(space[l]) = {}
    BY <1>1, <1>2, TakeGrants
<1>4. SpaceOK(taken.space) /\ Behind(taken.space) = Behind(space[l])
    BY <1>1, <1>3, TakeRefuses
<1> HIDE DEF taken
<1>5. space \in [Links -> Space] /\ job \in [Links -> 0 .. MaxJobs]
    BY <1>1 DEF TypeOK
<1>6. /\ space' \in [Links -> Space]
      /\ \A m \in Links : SpaceOK(space'[m]) /\ Behind(space'[m]) = Behind(space[m])
    BY <1>1, <1>2, <1>4, <1>5 DEF TypeOK, SpaceOK
<1>7. TypeOK'
    BY <1>1, <1>2, <1>6 DEF TypeOK, SpaceOK
<1>8. GrantedIsBehind'
  <2> SUFFICES ASSUME NEW m \in Links, job'[m] > 0
               PROVE  Covered(m)' = Behind(space'[m])
      BY DEF GrantedIsBehind, Behind
  <2>1. Live(m)' = Live(m)
      BY <1>2 DEF Live, JobId
  <2> QED BY <1>1, <1>2, <1>6, <2>1 DEF GrantedIsBehind, Covered
<1> QED
    BY <1>2, <1>7, <1>8 DEF IInv, GrantsNonEmpty, JobsPast, GrantsDisjoint

\* A miner that leaves changes the name on its grants and not their ranges.
LEMMA DetachStep ==
    ASSUME IInv, NEW c \in Clients, Detach(c)
    PROVE  IInv'
<1>1. /\ TypeOK /\ GrantedIsBehind /\ GrantsNonEmpty /\ JobsPast /\ GrantsDisjoint
    BY DEF IInv
<1>2. /\ space' = space /\ job' = job
      /\ ledger' = [ledger EXCEPT ![c] = EmptyLedger]
      /\ given' = [k \in DOMAIN given |->
                     IF given[k].client = c THEN [given[k] EXCEPT !.client = NoJob]
                                            ELSE given[k]]
    BY DEF Detach
<1>3. Len(given) \in Nat /\ DOMAIN given = 1 .. Len(given)
      /\ \A k \in DOMAIN given : given[k] \in GrantRecord
    BY <1>1, GivenFacts
<1>4. \A k \in DOMAIN given :
        /\ given'[k] \in GrantRecord
        /\ given'[k].start = given[k].start /\ given'[k].limit = given[k].limit
        /\ given'[k].job = given[k].job
    BY <1>2, <1>3 DEF GrantRecord
<1>5. DOMAIN given' = DOMAIN given
    BY <1>2
<1>6. given' \in Seq(GrantRecord)
  <2> DEFINE e(k) == IF given[k].client = c THEN [given[k] EXCEPT !.client = NoJob]
                                            ELSE given[k]
  <2>1. given' = [k \in 1 .. Len(given) |-> e(k)]
      BY <1>2, <1>3
  <2>2. \A k \in 1 .. Len(given) : e(k) \in GrantRecord
      BY <1>3 DEF GrantRecord
  <2> HIDE DEF e
  <2>3. given' \in [1 .. Len(given) -> GrantRecord]
      BY <2>1, <2>2
  <2> QED BY <1>3, <2>3, SeqDef
<1>7. TypeOK'
  <2>1. EmptyLedger \in LedgerType
      BY DEF EmptyLedger, LedgerType
  <2>2. ledger' \in [Clients -> LedgerType]
      BY <1>1, <1>2, <2>1 DEF TypeOK
  <2> QED BY <1>1, <1>2, <1>6, <2>2 DEF TypeOK, SpaceOK
<1>8. GrantedIsBehind'
  <2> SUFFICES ASSUME NEW m \in Links, job'[m] > 0
               PROVE  Covered(m)' = Behind(space'[m])
      BY DEF GrantedIsBehind, Behind
  <2>1. Live(m)' = Live(m)
      BY <1>2, <1>4, <1>5 DEF Live, JobId
  <2>2. \A k \in Live(m) : NoncesOf(given'[k]) = NoncesOf(given[k])
      BY <1>4 DEF NoncesOf, Live
  <2>3. Covered(m) = Behind(space[m])
      BY <1>1, <1>2 DEF GrantedIsBehind
  <2> QED BY <1>2, <2>1, <2>2, <2>3 DEF Covered
<1>9. GrantsNonEmpty' /\ JobsPast' /\ GrantsDisjoint'
    BY <1>1, <1>2, <1>4, <1>5 DEF GrantsNonEmpty, JobsPast, GrantsDisjoint
<1> QED
    BY <1>7, <1>8, <1>9 DEF IInv

\* Every step keeps the invariant.
LEMMA GrantsNext == IInv /\ [Next]_vars => IInv'
<1> SUFFICES ASSUME IInv, [Next]_vars PROVE IInv'
    OBVIOUS
<1>1. CASE \E l \in Links, layout \in Layouts : Accept(l, layout)
    BY <1>1, AcceptStep
<1>2. CASE \E l \in Links, c \in Clients, count \in Counts : Grant(l, c, count)
    BY <1>2, GrantStep
<1>3. CASE \E l \in Links, count \in Counts : Refuse(l, count)
    BY <1>3, RefuseStep
<1>4. CASE \E c \in Clients : Detach(c)
    BY <1>4, DetachStep
<1>5. CASE UNCHANGED vars
  <2>1. UNCHANGED <<job, space, ledger, given>>
      BY <1>5 DEF vars
  <2>2. TypeOK'
      BY <2>1 DEF IInv, TypeOK, SpaceOK
  <2>3. GrantedIsBehind'
    <3> SUFFICES ASSUME NEW m \in Links, job'[m] > 0
                 PROVE  Covered(m)' = Behind(space'[m])
        BY DEF GrantedIsBehind, Behind
    <3>1. Live(m)' = Live(m)
        BY <2>1 DEF Live, JobId
    <3> QED BY <2>1, <3>1 DEF IInv, GrantedIsBehind, Covered
  <2> QED BY <2>1, <2>2, <2>3 DEF IInv, GrantsNonEmpty, JobsPast, GrantsDisjoint
<1> QED
    BY <1>1, <1>2, <1>3, <1>4, <1>5 DEF Next

-----------------------------------------------------------------------------
\* The invariant holds in every behaviour.
LEMMA GrantsInvariant == Spec => []IInv
<1> QED
    BY GrantsInit, GrantsNext, PTL DEF Spec

\* The positions of the allocator and the ledgers keep their type and bounds,
\* whatever the interleaving of grants, new jobs and detaches.
THEOREM TypeCorrect == Spec => []TypeOK
<1>1. IInv => TypeOK
    BY DEF IInv
<1> QED
    BY <1>1, GrantsInvariant, PTL

\* No nonce of a job is ever granted twice (README: "it slices the nonce space
\* so no two miners overlap").
THEOREM NoOverlap == Spec => []GrantsDisjoint
<1>1. IInv => GrantsDisjoint
    BY DEF IInv
<1> QED
    BY <1>1, GrantsInvariant, PTL

\* What was granted of a job is exactly what the allocator has passed: no
\* nonce below the cut at the top of the space is skipped.
THEOREM NoGap == Spec => []GrantedIsBehind
<1>1. IInv => GrantedIsBehind
    BY DEF IInv
<1> QED
    BY <1>1, GrantsInvariant, PTL

-----------------------------------------------------------------------------
(***************************************************************************)
(* The refinement of NonceOnce, step by step: a new job publishes a stock, *)
(* a grant hands out what it cuts, a miner that leaves takes its nonces    *)
(* with it, and a refusal is a stutter, for there was nothing left.        *)
(***************************************************************************)
\* What a miner holds of the current job of a link, by its members.
LEMMA HeldMember ==
    ASSUME NEW l, NEW c, NEW n
    PROVE  n \in HeldBy(l, c) <=>
               \E k \in DOMAIN given :
                   given[k].job = JobId(l) /\ given[k].client = c /\ n \in NoncesOf(given[k])
<1> QED
    BY DEF HeldBy, Live

LEMMA OnceInits == Init => Once!OnceInit
<1> SUFFICES ASSUME Init PROVE Once!OnceInit
    OBVIOUS
<1>1. Stock(CreateSpace(<<>>)) = {}
    BY DEF Stock, CreateSpace
<1>2. \A l \in Links : space[l] = CreateSpace(<<>>)
    BY DEF Init
<1>3. Free = [l \in Links |-> {}]
    BY <1>1, <1>2 DEF Free
<1>4. \A l, c : HeldBy(l, c) = {}
    BY DEF HeldBy, Live, Init
<1>5. Held = [l \in Links |-> [c \in Clients \union {NoJob} |-> {}]]
    BY <1>4 DEF Held
<1> QED
    BY <1>3, <1>5 DEF Once!OnceInit

\* A new job publishes its whole layout, and nobody holds any of it.
LEMMA OnceAccept ==
    ASSUME IInv, NEW l \in Links, NEW layout \in Layouts, Accept(l, layout)
    PROVE  Once!Publish(l, Stock(CreateSpace(layout)))
<1>1. /\ TypeOK /\ JobsPast
      /\ job \in [Links -> 0 .. MaxJobs] /\ space \in [Links -> Space] /\ MaxJobs \in Nat
    BY GrantsAssumption DEF IInv, TypeOK
<1>2. /\ given' = given
      /\ job' = [job EXCEPT ![l] = job[l] + 1]
      /\ space' = [space EXCEPT ![l] = CreateSpace(layout)]
    BY DEF Accept
<1>3. Free' = [Free EXCEPT ![l] = Stock(CreateSpace(layout))]
    BY <1>1, <1>2 DEF Free, Stock
<1>4. \A c : HeldBy(l, c)' = {}
  <2>1. Live(l)' = {}
      BY <1>1, <1>2, GivenFacts DEF JobsPast, Live, JobId
  <2> QED BY <2>1 DEF HeldBy
<1>5. \A m \in Links : m # l => \A c : HeldBy(m, c)' = HeldBy(m, c)
    BY <1>1, <1>2 DEF HeldBy, Live, JobId, NoncesOf
<1>6. Held' = [Held EXCEPT ![l] = [c \in Clients \union {NoJob} |-> {}]]
    BY <1>4, <1>5 DEF Held
<1> QED
    BY <1>3, <1>6 DEF Once!Publish

\* A grant hands what it cuts to the miner that asked.
LEMMA OnceGrant ==
    ASSUME IInv, NEW l \in Links, NEW c \in Clients, NEW count \in Counts, Grant(l, c, count)
    PROVE  \E some \in SUBSET Free[l] : Once!Hand(l, c, some)
<1> DEFINE taken == Take(space[l], count)
           range == taken.grant
           entry == [job |-> JobId(l), client |-> c, start |-> range.start, limit |-> range.limit]
           some  == NoncesOf(range)
           n     == Len(given)
<1>1. /\ TypeOK /\ SpaceOK(space[l]) /\ count \in Nat \ {0}
      /\ space \in [Links -> Space] /\ given \in Seq(GrantRecord)
    BY GrantsAssumption DEF IInv, TypeOK
<1>2. /\ range # NoGrant
      /\ space' = [space EXCEPT ![l] = taken.space]
      /\ given' = Append(given, entry)
      /\ job' = job
    BY DEF Grant
<1>3. Usable(space[l]) # {}
    BY <1>1, <1>2, TakeRefuses
<1>4. /\ range.start \in Nat /\ range.limit \in Nat /\ range.start < range.limit
      /\ some \subseteq Stock(space[l])
      /\ Stock(taken.space) = Stock(space[l]) \ some
    BY <1>1, <1>3, TakeGrants
<1> HIDE DEF taken, range
<1>5. /\ n \in Nat /\ DOMAIN given = 1 .. n /\ DOMAIN given' = 1 .. (n + 1)
      /\ \A k \in 1 .. n : given'[k] = given[k]
      /\ given'[n + 1] = entry
  <2>1. n \in Nat /\ DOMAIN given = 1 .. n
      BY <1>1, GivenFacts
  <2>2. Len(given') = n + 1 /\ DOMAIN given' = 1 .. (n + 1)
      BY <1>2, <2>1
  <2> QED BY <1>2, <2>1, <2>2
<1>6. /\ entry.job = JobId(l) /\ entry.client = c /\ NoncesOf(entry) = some
    BY DEF NoncesOf
<1> HIDE DEF entry, n
<1>7. range.start \in some
    BY <1>4 DEF NoncesOf
<1> HIDE DEF some
<1>8. \A m, d : JobId(m)' = JobId(m)
    BY <1>2 DEF JobId
<1>9. \A m, d : HeldBy(m, d)' = HeldBy(m, d) \union
                    (IF JobId(m) = JobId(l) /\ d = c THEN some ELSE {})
  <2> SUFFICES ASSUME NEW m, NEW d, NEW y
               PROVE  y \in HeldBy(m, d)' <=>
                         \/ y \in HeldBy(m, d)
                         \/ JobId(m) = JobId(l) /\ d = c /\ y \in some
      OBVIOUS
  <2>1. y \in HeldBy(m, d)' <=>
          \E k \in 1 .. (n + 1) :
              given'[k].job = JobId(m) /\ given'[k].client = d /\ y \in NoncesOf(given'[k])
      BY <1>5, <1>8 DEF HeldBy, Live, NoncesOf
  <2>2. y \in HeldBy(m, d) <=>
          \E k \in 1 .. n :
              given'[k].job = JobId(m) /\ given'[k].client = d /\ y \in NoncesOf(given'[k])
      BY <1>5, HeldMember
  <2>3. \A k : k \in 1 .. (n + 1) <=> k \in 1 .. n \/ k = n + 1
      BY <1>5
  <2> QED BY <1>5, <1>6, <2>1, <2>2, <2>3
<1>10. \A m \in Links : JobId(m) = JobId(l) <=> m = l
    BY DEF JobId
<1>11. Held' = [Held EXCEPT ![l][c] = Held[l][c] \union some]
  <2>1. \A m \in Links : m # l => Held'[m] = Held[m]
      BY <1>9, <1>10 DEF Held
  <2>2. Held'[l] = [Held[l] EXCEPT ![c] = Held[l][c] \union some]
      BY <1>9, <1>10 DEF Held
  <2>3. Held' = [m \in Links |-> Held'[m]] /\ Held = [m \in Links |-> Held[m]]
      BY DEF Held
  <2> QED BY <2>1, <2>2, <2>3
<1>12. Free' = [Free EXCEPT ![l] = Free[l] \ some]
  <2>1. \A m \in Links : Stock(space[m])' = IF m = l THEN Stock(taken.space) ELSE Stock(space[m])
      BY <1>1, <1>2 DEF Stock
  <2> QED BY <1>4, <2>1 DEF Free
<1>13. some # {} /\ some \subseteq Free[l]
    BY <1>4, <1>7 DEF Free
<1> QED
    BY <1>11, <1>12, <1>13 DEF Once!Hand

\* A refusal changes nothing a miner could be granted.
LEMMA OnceRefuse ==
    ASSUME IInv, NEW l \in Links, NEW count \in Counts, Refuse(l, count)
    PROVE  Free' = Free /\ Held' = Held
<1> DEFINE taken == Take(space[l], count)
<1>1. /\ SpaceOK(space[l]) /\ count \in Nat \ {0} /\ space \in [Links -> Space]
    BY GrantsAssumption DEF IInv, TypeOK
<1>2. /\ taken.grant = NoGrant
      /\ space' = [space EXCEPT ![l] = taken.space]
      /\ job' = job /\ given' = given
    BY DEF Refuse
<1>3. Usable(space[l]) = {}
    BY <1>1, <1>2, TakeGrants
<1>4. Stock(taken.space) = Stock(space[l])
    BY <1>1, <1>3, TakeRefuses
<1> HIDE DEF taken
<1>5. \A m \in Links : Stock(space[m])' = Stock(space[m])
    BY <1>1, <1>2, <1>4 DEF Stock
<1> QED
    BY <1>2, <1>5 DEF Free, Held, HeldBy, Live, JobId, NoncesOf

\* A miner that leaves leaves its nonces to nobody.
LEMMA OnceDetach ==
    ASSUME IInv, NEW c \in Clients, Detach(c)
    PROVE  Once!Leave(c)
<1>1. TypeOK /\ c # NoJob /\ NoJob \notin Clients
    BY GrantsAssumption DEF IInv
<1>2. /\ space' = space /\ job' = job
      /\ given' = [k \in DOMAIN given |->
                     IF given[k].client = c THEN [given[k] EXCEPT !.client = NoJob]
                                            ELSE given[k]]
    BY DEF Detach
<1>3. \A k \in DOMAIN given :
        /\ given'[k].job = given[k].job
        /\ NoncesOf(given'[k]) = NoncesOf(given[k])
        /\ given'[k].client = IF given[k].client = c THEN NoJob ELSE given[k].client
    BY <1>1, <1>2, GivenFacts DEF GrantRecord, NoncesOf
<1>4. DOMAIN given' = DOMAIN given
    BY <1>2
<1>5. \A m : JobId(m)' = JobId(m)
    BY <1>2 DEF JobId
<1>6. \A m, d : HeldBy(m, d)' = IF d = c THEN {}
                                ELSE IF d = NoJob THEN HeldBy(m, NoJob) \union HeldBy(m, c)
                                ELSE HeldBy(m, d)
  <2> TAKE m, d
  <2>1. \A y : y \in HeldBy(m, d)' <=>
                 \E k \in DOMAIN given :
                     /\ given'[k].job = JobId(m) /\ given'[k].client = d
                     /\ y \in NoncesOf(given'[k])
      BY <1>4, <1>5 DEF HeldBy, Live, NoncesOf
  <2>2. \A y : y \in HeldBy(m, d)' <=>
                 /\ d # c
                 /\ y \in HeldBy(m, d) \/ (d = NoJob /\ y \in HeldBy(m, c))
      BY <1>1, <1>3, <2>1, HeldMember
  <2> QED BY <1>1, <2>2
<1>7. Held' = [m \in Links |->
                 [Held[m] EXCEPT ![NoJob] = Held[m][NoJob] \union Held[m][c], ![c] = {}]]
    BY <1>1, <1>6 DEF Held
<1>8. Free' = Free
    BY <1>2 DEF Free, Stock
<1> QED
    BY <1>7, <1>8 DEF Once!Leave

LEMMA OnceSteps == IInv /\ [Next]_vars => [Once!OnceNext]_(Once!onceVars)
<1> SUFFICES ASSUME IInv, [Next]_vars PROVE [Once!OnceNext]_(Once!onceVars)
    OBVIOUS
<1>N. NoJob \notin Clients
    BY GrantsAssumption
<1>1. ASSUME NEW l \in Links, NEW layout \in Layouts, Accept(l, layout) PROVE Once!OnceNext
  <2>1. Once!Publish(l, Stock(CreateSpace(layout)))
      BY <1>1, OnceAccept
  <2>2. Stock(CreateSpace(layout)) \in SUBSET (0 .. NonceTop - 1)
      BY DEF Stock
  <2> QED BY <2>1, <2>2 DEF Once!OnceNext
<1>2. ASSUME NEW l \in Links, NEW c \in Clients, NEW count \in Counts, Grant(l, c, count)
      PROVE  Once!OnceNext
  <2>1. \E some \in SUBSET Free[l] : Once!Hand(l, c, some)
      BY <1>2, OnceGrant
  <2> QED BY <1>N, <2>1 DEF Once!OnceNext
<1>3. ASSUME NEW l \in Links, NEW count \in Counts, Refuse(l, count)
      PROVE  UNCHANGED Once!onceVars
    BY <1>3, OnceRefuse DEF Once!onceVars
<1>4. ASSUME NEW c \in Clients, Detach(c) PROVE Once!OnceNext
  <2>1. Once!Leave(c)
      BY <1>4, OnceDetach
  <2> QED BY <1>N, <2>1 DEF Once!OnceNext
<1>5. ASSUME UNCHANGED vars PROVE UNCHANGED Once!onceVars
    BY <1>5 DEF vars, Once!onceVars, Free, Held, HeldBy, Live, JobId, NoncesOf, Stock
<1> QED
    BY <1>1, <1>2, <1>3, <1>4, <1>5 DEF Next

\* The allocation implements NonceOnce: whatever the interleaving of new jobs,
\* grants and departures, each grant moves nonces from the stock of a job to
\* one miner and nothing ever returns to the stock (README: "it slices the
\* nonce space so no two miners overlap").
THEOREM AllocationRefines == Spec => ImplementsOnce
<1>1. Init => Once!OnceInit
    BY OnceInits
<1>2. IInv /\ [Next]_vars => [Once!OnceNext]_(Once!onceVars)
    BY OnceSteps
<1>3. Spec => []IInv
    BY GrantsInvariant
<1> QED
    BY <1>1, <1>2, <1>3, PTL DEF Spec, ImplementsOnce, Once!OnceSpec

\* The steps of NonceOnce keep its nonces with one holder or in stock.
InOnePlace(f, g, H) ==
    \A l \in Links : \A h \in H :
        /\ g[l][h] \intersect f[l] = {}
        /\ \A k \in H \ {h} : g[l][h] \intersect g[l][k] = {}

LEMMA PublishedOnce ==
    ASSUME NEW H, NEW f, NEW g \in [Links -> [H -> SUBSET Nat]], InOnePlace(f, g, H),
           NEW f2, NEW g2, NEW l \in Links, NEW stock,
           f \in [Links -> SUBSET Nat],
           f2 = [f EXCEPT ![l] = stock], g2 = [g EXCEPT ![l] = [h \in H |-> {}]]
    PROVE  InOnePlace(f2, g2, H)
<1> QED
    BY DEF InOnePlace

LEMMA HandedOnce ==
    ASSUME NEW H, NEW f, NEW g \in [Links -> [H -> SUBSET Nat]], InOnePlace(f, g, H),
           NEW f2, NEW g2, NEW l \in Links, NEW h \in H, NEW some \in SUBSET f[l],
           f \in [Links -> SUBSET Nat],
           f2 = [f EXCEPT ![l] = f[l] \ some],
           g2 = [g EXCEPT ![l] = [g[l] EXCEPT ![h] = g[l][h] \union some]]
    PROVE  InOnePlace(f2, g2, H)
<1>1. /\ f2[l] = f[l] \ some /\ \A m \in Links : m # l => f2[m] = f[m] /\ g2[m] = g[m]
      /\ g2[l][h] = g[l][h] \union some
      /\ \A k \in H : k # h => g2[l][k] = g[l][k]
    OBVIOUS
<1>2. ASSUME NEW m \in Links, NEW k \in H
      PROVE  /\ g2[m][k] \intersect f2[m] = {}
             /\ \A j \in H \ {k} : g2[m][k] \intersect g2[m][j] = {}
  <2>1. /\ \A j \in H : g[m][j] \intersect f[m] = {}
        /\ \A i \in H : \A j \in H \ {i} : g[m][i] \intersect g[m][j] = {}
      BY DEF InOnePlace
  <2>2. CASE m # l
      BY <1>1, <2>1, <2>2
  <2>3. CASE m = l
      BY <1>1, <2>1, <2>3
  <2> QED BY <2>2, <2>3
<1> QED
    BY <1>2 DEF InOnePlace

LEMMA LeftOnce ==
    ASSUME NEW H, NEW f, NEW g \in [Links -> [H -> SUBSET Nat]], InOnePlace(f, g, H),
           NEW g2, NEW h \in H, NEW gone \in H, h # gone,
           g2 = [l \in Links |-> [g[l] EXCEPT ![gone] = g[l][gone] \union g[l][h], ![h] = {}]]
    PROVE  InOnePlace(f, g2, H)
<1>1. ASSUME NEW m \in Links
      PROVE  /\ g2[m][h] = {} /\ g2[m][gone] = g[m][gone] \union g[m][h]
             /\ \A k \in H : k # h /\ k # gone => g2[m][k] = g[m][k]
    OBVIOUS
<1>2. ASSUME NEW m \in Links, NEW k \in H
      PROVE  /\ g2[m][k] \intersect f[m] = {}
             /\ \A j \in H \ {k} : g2[m][k] \intersect g2[m][j] = {}
  <2>1. /\ \A j \in H : g[m][j] \intersect f[m] = {}
        /\ \A i \in H : \A j \in H \ {i} : g[m][i] \intersect g[m][j] = {}
      BY DEF InOnePlace
  <2>2. g2[m][k] \intersect f[m] = {}
      BY <1>1, <2>1
  <2>3. ASSUME NEW j \in H \ {k} PROVE g2[m][k] \intersect g2[m][j] = {}
      BY <1>1, <2>1
  <2> QED BY <2>2, <2>3
<1> QED
    BY <1>2 DEF InOnePlace

\* No nonce of the present job of a link is held by two miners, or by one and
\* still in stock, and none that a miner took along when it left is granted again
\* (the promise of NonceOnce, kept by allocate, Ledger.record and detach).
THEOREM HeldByOne == Spec => []Once!HeldOnce
<1> DEFINE H == Clients \union {NoJob}
<1>1. Once!HeldOnce <=> InOnePlace(Free, Held, H)
    BY DEF Once!HeldOnce, InOnePlace
<1>2. IInv => Free \in [Links -> SUBSET Nat] /\ Held \in [Links -> [H -> SUBSET Nat]]
  <2>1. \A l \in Links : Stock(space[l]) \in SUBSET Nat
      BY GrantsAssumption, NonceAssumption DEF Stock
  <2>2. IInv => \A l \in Links, c \in H : HeldBy(l, c) \in SUBSET Nat
    <3> SUFFICES ASSUME IInv, NEW l \in Links, NEW c \in H, NEW n \in HeldBy(l, c)
                 PROVE  n \in Nat
        OBVIOUS
    <3>1. PICK k \in DOMAIN given : n \in NoncesOf(given[k])
        BY HeldMember
    <3>2. given[k].start \in Nat /\ given[k].limit \in Nat
        BY GivenFacts DEF IInv, TypeOK, GrantRecord
    <3> QED BY <3>1, <3>2 DEF NoncesOf
  <2> QED BY <2>1, <2>2 DEF Free, Held
<1>3. Init => Once!HeldOnce
  <2>1. Once!OnceInit => Once!HeldOnce
      BY DEF Once!OnceInit, Once!HeldOnce
  <2> QED BY <2>1, OnceInits
<1>4. IInv /\ Once!HeldOnce /\ [Next]_vars => Once!HeldOnce'
  <2> SUFFICES ASSUME IInv, Once!HeldOnce, [Next]_vars PROVE Once!HeldOnce'
      OBVIOUS
  <2>1. [Once!OnceNext]_(Once!onceVars)
      BY OnceSteps
  <2>2. PICK f, g, f2, g2 : f = Free /\ g = Held /\ f2 = Free' /\ g2 = Held'
      OBVIOUS
  <2>3. /\ f \in [Links -> SUBSET Nat] /\ g \in [Links -> [H -> SUBSET Nat]] /\ InOnePlace(f, g, H)
      BY <1>1, <1>2, <2>2
  <2>4. Once!HeldOnce' <=> InOnePlace(f2, g2, H)
      BY <2>2 DEF Once!HeldOnce, InOnePlace
  <2>5. ASSUME NEW l \in Links, NEW stock, Once!Publish(l, stock) PROVE InOnePlace(f2, g2, H)
    <3>1. f2 = [f EXCEPT ![l] = stock] /\ g2 = [g EXCEPT ![l] = [h \in H |-> {}]]
        BY <2>2, <2>5 DEF Once!Publish
    <3> QED BY <2>3, <3>1, PublishedOnce
  <2>6. ASSUME NEW l \in Links, NEW h \in H, NEW some, Once!Hand(l, h, some)
        PROVE  InOnePlace(f2, g2, H)
    <3>1. /\ some \in SUBSET f[l]
          /\ f2 = [f EXCEPT ![l] = f[l] \ some]
          /\ g2 = [g EXCEPT ![l] = [g[l] EXCEPT ![h] = g[l][h] \union some]]
        BY <2>2, <2>6 DEF Once!Hand
    <3> QED BY <2>3, <3>1, HandedOnce
  <2>7. ASSUME NEW h \in H \ {NoJob}, Once!Leave(h) PROVE InOnePlace(f2, g2, H)
    <3>1. /\ f2 = f
          /\ g2 = [l \in Links |->
                      [g[l] EXCEPT ![NoJob] = g[l][NoJob] \union g[l][h], ![h] = {}]]
        BY <2>2, <2>7 DEF Once!Leave
    <3> QED BY <2>3, <3>1, LeftOnce
  <2>8. CASE UNCHANGED Once!onceVars
      BY <2>2, <2>3, <2>4, <2>8 DEF Once!onceVars
  <2>9. CASE Once!OnceNext
      BY <2>4, <2>5, <2>6, <2>7, <2>9 DEF Once!OnceNext
  <2> QED BY <2>1, <2>8, <2>9
<1> QED
    BY <1>3, <1>4, GrantsInvariant, PTL DEF Spec

-----------------------------------------------------------------------------
(***************************************************************************)
(* The ledgers.  LedgersExact speaks of the grants of a stay, and nothing  *)
(* in it says which of the two lists of a ledger has them: the ranges      *)
(* cover the stay with the last job, the prior ranges the stay before it,  *)
(* and the last grant of a miner is of the job its ledger names, so that a *)
(* grant of another job ends a stay exactly when Ledger.record moves the   *)
(* ranges over.  No range is empty: one that grows keeps what it covered.  *)
(***************************************************************************)
InRanges(ranges, n) ==
    \E k \in DOMAIN ranges : ranges[k].start <= n /\ n < ranges[k].limit

Solid(ranges) == \A k \in DOMAIN ranges : ranges[k].start < ranges[k].limit

Last(c) == {m \in Of(c) : \A j \in Of(c) : j <= m}

StayCovered(c) ==
    \A k \in Stay(c) : \A n \in NoncesOf(given[k]) : InRanges(ledger[c].ranges, n)

StayBeforeCovered(c) ==
    \A k \in StayBefore(c) : \A n \in NoncesOf(given[k]) : InRanges(ledger[c].prior, n)

GrantedTo(c, n) == \E k \in Of(c) : n \in NoncesOf(given[k])

OwnsGranted(c) ==
    \A n \in 0 .. NonceSize - 1 :
        InRanges(ledger[c].ranges, n) \/ InRanges(ledger[c].prior, n) => GrantedTo(c, n)

LastIsOfJob(c) == Of(c) # {} => \E m \in Last(c) : given[m].job = ledger[c].job

LedgerOK(c) ==
    /\ Solid(ledger[c].ranges) /\ Solid(ledger[c].prior)
    /\ StayCovered(c)
    /\ StayBeforeCovered(c)
    /\ OwnsGranted(c)
    /\ LastIsOfJob(c)

LedgersOK == \A c \in Clients : LedgerOK(c)

\* Ledger.record for the job the ledger has: the ranges cover what they did
\* and the new range, whether it is appended or grown onto the last one.
LEMMA RecordGrows ==
    ASSUME NEW led \in LedgerType, NEW id, NEW range \in Interval,
           led.job = id, Solid(led.ranges), range.start < range.limit
    PROVE  LET rec == Record(led, id, range) IN
           /\ rec.job = id /\ rec.prior = led.prior /\ Solid(rec.ranges)
           /\ \A x \in Int : InRanges(rec.ranges, x) <=>
                 InRanges(led.ranges, x) \/ (range.start <= x /\ x < range.limit)
<1> DEFINE n    == Len(led.ranges)
           grow == [led.ranges EXCEPT ![n].limit = range.limit]
           more == Append(led.ranges, range)
<1>1. /\ led.ranges \in Seq(Interval) /\ n \in Nat /\ DOMAIN led.ranges = 1 .. n
      /\ range.start \in Nat /\ range.limit \in Nat
      /\ led = [job |-> led.job, ranges |-> led.ranges, prior |-> led.prior]
    BY LenProperties DEF LedgerType, Interval
<1>2. \A k \in 1 .. n : /\ led.ranges[k] \in Interval
                        /\ led.ranges[k].start \in Nat /\ led.ranges[k].limit \in Nat
                        /\ led.ranges[k].start < led.ranges[k].limit
  <2>1. \A k \in 1 .. n : led.ranges[k] \in Interval
      BY <1>1, ElementOfSeq
  <2> QED BY <1>1, <2>1 DEF Interval, Solid
<1>3. Record(led, id, range) =
        IF n > 0 /\ led.ranges[n].limit = range.start
        THEN [led EXCEPT !.ranges = grow] ELSE [led EXCEPT !.ranges = more]
    BY <1>1 DEF Record
<1>4. /\ [led EXCEPT !.ranges = grow].job = id /\ [led EXCEPT !.ranges = more].job = id
      /\ [led EXCEPT !.ranges = grow].prior = led.prior
      /\ [led EXCEPT !.ranges = more].prior = led.prior
      /\ [led EXCEPT !.ranges = grow].ranges = grow
      /\ [led EXCEPT !.ranges = more].ranges = more
  <2> HIDE DEF grow, more
  <2> QED BY <1>1
<1>5. ASSUME n > 0, led.ranges[n].limit = range.start
      PROVE  /\ Solid(grow)
             /\ \A x \in Int : InRanges(grow, x) <=>
                   InRanges(led.ranges, x) \/ (range.start <= x /\ x < range.limit)
  <2>1. DOMAIN grow = 1 .. n /\ n \in 1 .. n
      BY <1>1, <1>5
  <2>2. \A k \in 1 .. n : k # n => grow[k] = led.ranges[k]
      BY <1>1, <2>1
  <2>3. grow[n].start = led.ranges[n].start /\ grow[n].limit = range.limit
      BY <1>1, <1>2, <2>1 DEF Interval
  <2> HIDE DEF grow, n
  <2>4. Solid(grow)
      BY <1>1, <1>2, <1>5, <2>1, <2>2, <2>3 DEF Solid
  <2>5. \A x \in Int :
          (grow[n].start <= x /\ x < grow[n].limit) <=>
            \/ led.ranges[n].start <= x /\ x < led.ranges[n].limit
            \/ range.start <= x /\ x < range.limit
      BY <1>1, <1>2, <1>5, <2>1, <2>3
  <2>6. \A x \in Int : InRanges(grow, x) <=>
          InRanges(led.ranges, x) \/ (range.start <= x /\ x < range.limit)
      BY <1>1, <2>1, <2>2, <2>5 DEF InRanges
  <2> QED BY <2>4, <2>6
<1>6. /\ Solid(more)
      /\ \A x \in Int : InRanges(more, x) <=>
            InRanges(led.ranges, x) \/ (range.start <= x /\ x < range.limit)
  <2>1. /\ DOMAIN more = 1 .. (n + 1)
        /\ \A k \in 1 .. n : more[k] = led.ranges[k]
        /\ more[n + 1] = range
      BY <1>1, AppendProperties
  <2>2. \A k : k \in 1 .. (n + 1) <=> k \in 1 .. n \/ k = n + 1
      BY <1>1
  <2> HIDE DEF more, n
  <2> QED BY <1>1, <1>2, <2>1, <2>2 DEF Solid, InRanges
<1> HIDE DEF grow, more, n
<1> QED
    BY <1>3, <1>4, <1>5, <1>6

\* Ledger.record for another job: the ranges are the new one, and those there
\* were become the prior ones.
LEMMA RecordTurns ==
    ASSUME NEW led \in LedgerType, NEW id, NEW range \in Interval,
           led.job # id, range.start < range.limit
    PROVE  LET rec == Record(led, id, range) IN
           /\ rec.job = id /\ rec.prior = led.ranges /\ Solid(rec.ranges)
           /\ \A x \in Int : InRanges(rec.ranges, x) <=> range.start <= x /\ x < range.limit
<1>1. Record(led, id, range) =
        [job |-> id, ranges |-> Append(<<>>, range), prior |-> led.ranges]
    BY DEF Record
<1>2. /\ DOMAIN Append(<<>>, range) = {1} /\ Append(<<>>, range)[1] = range
    OBVIOUS
<1> QED
    BY <1>1, <1>2 DEF Solid, InRanges

\* A ledger with its grants as they were stays exact.
LEMMA LedgerKept ==
    ASSUME TypeOK, NEW c \in Clients, LedgerOK(c), ledger'[c] = ledger[c],
           Of(c)' = Of(c),
           \A k \in Of(c) : given'[k].job = given[k].job /\ given'[k].start = given[k].start
                            /\ given'[k].limit = given[k].limit
    PROVE  LedgerOK(c)'
<1>1. \A k \in Of(c) : NoncesOf(given[k])' = NoncesOf(given[k])
    BY DEF NoncesOf
<1>2. Stay(c)' = Stay(c) /\ Stay(c) \subseteq Of(c)
    BY DEF Stay
<1>3. StayBefore(c)' = StayBefore(c) /\ StayBefore(c) \subseteq Of(c)
    BY <1>2 DEF StayBefore
<1>4. Last(c)' = Last(c) /\ Last(c) \subseteq Of(c)
    BY DEF Last
<1>5. StayCovered(c)'
    BY <1>1, <1>2 DEF LedgerOK, StayCovered, InRanges
<1>6. StayBeforeCovered(c)'
    BY <1>1, <1>3 DEF LedgerOK, StayBeforeCovered, InRanges
<1>7. OwnsGranted(c)'
    BY <1>1 DEF LedgerOK, OwnsGranted, GrantedTo, InRanges
<1>8. LastIsOfJob(c)'
    BY <1>4 DEF LedgerOK, LastIsOfJob
<1>9. Solid(ledger'[c].ranges) /\ Solid(ledger'[c].prior)
    BY DEF LedgerOK
<1> QED
    BY <1>5, <1>6, <1>7, <1>8, <1>9 DEF LedgerOK, Solid

\* A grant: the miner's ledger records it, in the list its stay calls for.
LEMMA LedgerGrant ==
    ASSUME IInv, LedgersOK,
           NEW l \in Links, NEW c \in Clients, NEW count \in Counts, Grant(l, c, count)
    PROVE  LedgersOK'
<1> DEFINE taken == Take(space[l], count)
           range == taken.grant
           id    == JobId(l)
           entry == [job |-> id, client |-> c, start |-> range.start, limit |-> range.limit]
           n     == Len(given)
<1>1. /\ TypeOK /\ TypeOK' /\ SpaceOK(space[l]) /\ count \in Nat \ {0}
      /\ ledger \in [Clients -> LedgerType] /\ given \in Seq(GrantRecord)
    BY GrantStep, GrantsAssumption DEF IInv, TypeOK
<1>2. /\ range # NoGrant
      /\ ledger' = [ledger EXCEPT ![c] = Record(ledger[c], id, range)]
      /\ given' = Append(given, entry)
    BY DEF Grant
<1>3. Usable(space[l]) # {}
    BY <1>1, <1>2, TakeRefuses
<1>4. range.start \in Nat /\ range.limit \in Nat /\ range.start < range.limit
    BY <1>1, <1>3, TakeGrants
<1>5. range \in Interval
  <2>1. range = [start |-> range.start, limit |-> range.limit]
      BY <1>3 DEF Take
  <2> HIDE DEF range
  <2> QED BY <1>4, <2>1 DEF Interval
<1> HIDE DEF range, taken
<1>6. /\ n \in Nat /\ DOMAIN given = 1 .. n /\ DOMAIN given' = 1 .. (n + 1)
      /\ \A k \in 1 .. n : given'[k] = given[k]
      /\ given'[n + 1] = entry
  <2>1. n \in Nat /\ DOMAIN given = 1 .. n
      BY <1>1, GivenFacts
  <2>2. Len(given') = n + 1 /\ DOMAIN given' = 1 .. (n + 1)
      BY <1>2, <2>1
  <2> QED BY <1>2, <2>1, <2>2
<1>7. /\ entry.job = id /\ entry.client = c
      /\ entry.start = range.start /\ entry.limit = range.limit
    OBVIOUS
<1> HIDE DEF entry, n, id
<1>8. \A k : k \in 1 .. (n + 1) <=> k \in 1 .. n \/ k = n + 1
    BY <1>6
<1>9. \A k \in 1 .. n : k # n + 1 /\ k < n + 1 /\ k <= n + 1 /\ ~ (k >= n + 1)
    BY <1>6
<1>10. \A d \in Clients : Of(d) \subseteq 1 .. n
    BY <1>6 DEF Of
<1>11. Of(c)' = Of(c) \union {n + 1}
    BY <1>6, <1>7, <1>8, <1>9 DEF Of
<1>12. \A d \in Clients : d # c => LedgerOK(d)'
  <2> SUFFICES ASSUME NEW d \in Clients, d # c PROVE LedgerOK(d)'
      OBVIOUS
  <2>1. Of(d)' = Of(d)
      BY <1>6, <1>7, <1>8 DEF Of
  <2>2. \A k \in Of(d) : given'[k] = given[k]
      BY <1>6, <1>10
  <2>3. ledger'[d] = ledger[d]
      BY <1>1, <1>2
  <2> QED BY <1>1, <2>1, <2>2, <2>3, LedgerKept DEF LedgersOK
<1>13. \A k \in Of(c) : given'[k] = given[k] /\ k \in Nat
    BY <1>6, <1>10
<1>14. PICK led \in LedgerType : led = ledger[c]
    BY <1>1
<1>15. ledger'[c] = Record(led, id, range)
    BY <1>1, <1>2, <1>14
<1>16. /\ Solid(led.ranges) /\ Solid(led.prior)
       /\ LedgerOK(c)
    BY <1>14 DEF LedgersOK, LedgerOK
<1>17. \A x \in NoncesOf(given'[n + 1]) : x \in Int /\ range.start <= x /\ x < range.limit
    BY <1>4, <1>6, <1>7 DEF NoncesOf
<1>18. \A k \in Of(c) : \A x \in NoncesOf(given'[k]) : x \in Int
    BY <1>1, <1>6, <1>10, <1>13, GivenFacts DEF NoncesOf
<1>19. LastIsOfJob(c)'
  <2>1. ledger'[c].job = id
      BY <1>4, <1>5, <1>15, <1>16, RecordGrows, RecordTurns
  <2>2. n + 1 \in Last(c)'
      BY <1>6, <1>9, <1>10, <1>11 DEF Last
  <2> QED BY <1>6, <1>7, <2>1, <2>2 DEF LastIsOfJob
<1>20. ASSUME NEW x \in 0 .. NonceSize - 1, GrantedTo(c, x) \/ (range.start <= x /\ x < range.limit)
       PROVE  GrantedTo(c, x)'
  <2>1. CASE GrantedTo(c, x)
      BY <1>11, <1>13, <2>1 DEF GrantedTo, NoncesOf
  <2>2. CASE range.start <= x /\ x < range.limit
    <3>1. x \in NoncesOf(given'[n + 1])
        BY <1>4, <1>6, <1>7, <2>2, NonceAssumption DEF NoncesOf
    <3> QED BY <1>11, <3>1 DEF GrantedTo, NoncesOf
  <2> QED BY <1>20, <2>1, <2>2
<1>21. \A x \in 0 .. NonceSize - 1 : x \in Int
    BY NonceAssumption
<1>22. ASSUME led.job = id PROVE LedgerOK(c)'
  <2>1. /\ ledger'[c].job = id /\ ledger'[c].prior = led.prior /\ Solid(ledger'[c].ranges)
        /\ \A x \in Int : InRanges(ledger'[c].ranges, x) <=>
              InRanges(led.ranges, x) \/ (range.start <= x /\ x < range.limit)
      BY <1>4, <1>5, <1>15, <1>16, <1>22, RecordGrows
  <2>2. Stay(c)' = Stay(c) \union {n + 1}
      BY <1>6, <1>7, <1>9, <1>10, <1>11, <1>13, <1>14, <1>22, <2>1 DEF Stay
  <2>3. StayBefore(c)' = StayBefore(c)
    <3>1. Of(c)' \ Stay(c)' = Of(c) \ Stay(c)
        BY <1>9, <1>10, <1>11, <2>2
    <3> QED BY <1>13, <3>1 DEF StayBefore
  <2>4. StayCovered(c)'
    <3>1. \A k \in Stay(c) : k \in Of(c)
        BY DEF Stay
    <3>2. \A k \in Stay(c) : \A x \in NoncesOf(given'[k]) : InRanges(ledger'[c].ranges, x)
        BY <1>13, <1>14, <1>16, <1>18, <2>1, <3>1 DEF LedgerOK, StayCovered
    <3>3. \A x \in NoncesOf(given'[n + 1]) : InRanges(ledger'[c].ranges, x)
        BY <1>17, <2>1
    <3>4. \A k \in Stay(c)' : \A x \in NoncesOf(given'[k]) : InRanges(ledger'[c].ranges, x)
        BY <2>2, <3>2, <3>3
    <3> QED BY <3>4 DEF StayCovered, NoncesOf, InRanges
  <2>5. StayBeforeCovered(c)'
    <3>1. \A k \in StayBefore(c) : k \in Of(c)
        BY DEF StayBefore
    <3>2. \A k \in StayBefore(c)' : \A x \in NoncesOf(given'[k]) : InRanges(ledger'[c].prior, x)
        BY <1>13, <1>14, <1>16, <2>1, <2>3, <3>1 DEF LedgerOK, StayBeforeCovered
    <3> QED BY <3>2 DEF StayBeforeCovered, NoncesOf, InRanges
  <2>6. OwnsGranted(c)'
    <3>1. \A x \in 0 .. NonceSize - 1 :
            InRanges(ledger'[c].ranges, x) \/ InRanges(ledger'[c].prior, x) =>
                GrantedTo(c, x) \/ (range.start <= x /\ x < range.limit)
        BY <1>14, <1>16, <1>21, <2>1 DEF LedgerOK, OwnsGranted
    <3> QED BY <1>20, <3>1 DEF OwnsGranted, InRanges
  <2>7. Solid(ledger'[c].ranges) /\ Solid(ledger'[c].prior)
      BY <1>16, <2>1
  <2> QED BY <1>19, <2>4, <2>5, <2>6, <2>7 DEF LedgerOK, Solid
<1>23. ASSUME led.job # id PROVE LedgerOK(c)'
  <2>1. /\ ledger'[c].job = id /\ ledger'[c].prior = led.ranges /\ Solid(ledger'[c].ranges)
        /\ \A x \in Int : InRanges(ledger'[c].ranges, x) <=> range.start <= x /\ x < range.limit
      BY <1>4, <1>5, <1>15, <1>23, RecordTurns
\* The last grant so far is of the job the ledger had.
  <2>2. Of(c) # {} => \E m \in Of(c) : (\A j \in Of(c) : j <= m) /\ given[m].job = led.job
      BY <1>14, <1>16 DEF LedgerOK, LastIsOfJob, Last
  <2>3. Stay(c)' = {n + 1}
    <3>1. n + 1 \in Stay(c)'
        BY <1>6, <1>7, <1>9, <1>10, <1>11, <2>1 DEF Stay
    <3>2. ASSUME NEW k \in Of(c), k \in Stay(c)' PROVE FALSE
      <4>1. PICK m \in Of(c) : (\A j \in Of(c) : j <= m) /\ given[m].job = led.job
          BY <2>2
      <4>2. m >= k /\ m \in Of(c)' /\ given'[m].job = led.job
          BY <1>11, <1>13, <4>1
      <4>3. given'[m].job = id
          BY <2>1, <3>2, <4>2 DEF Stay
      <4> QED BY <1>23, <4>2, <4>3
    <3>3. Stay(c)' \subseteq Of(c)'
        BY DEF Stay
    <3> QED BY <1>11, <3>1, <3>2, <3>3
  <2>4. StayBefore(c)' \subseteq Stay(c)
    <3> SUFFICES ASSUME NEW k \in StayBefore(c)' PROVE k \in Stay(c)
        OBVIOUS
    <3>1. Of(c)' \ Stay(c)' = Of(c)
        BY <1>9, <1>10, <1>11, <2>3
    <3>2. k \in Of(c) /\ \A m \in Of(c) : m >= k => given[m].job = given[k].job
        BY <1>13, <3>1 DEF StayBefore
    <3>3. PICK m \in Of(c) : (\A j \in Of(c) : j <= m) /\ given[m].job = led.job
        BY <2>2, <3>2
    <3>4. given[k].job = led.job
        BY <1>13, <3>2, <3>3
    <3> QED BY <1>14, <3>2, <3>4 DEF Stay
  <2>5. StayCovered(c)'
    <3>1. \A k \in Stay(c)' : \A x \in NoncesOf(given'[k]) : InRanges(ledger'[c].ranges, x)
        BY <1>17, <2>1, <2>3
    <3> QED BY <3>1 DEF StayCovered, NoncesOf, InRanges
  <2>6. StayBeforeCovered(c)'
    <3>1. \A k \in Stay(c) : k \in Of(c)
        BY DEF Stay
    <3>2. \A k \in StayBefore(c)' : \A x \in NoncesOf(given'[k]) : InRanges(ledger'[c].prior, x)
        BY <1>13, <1>14, <1>16, <2>1, <2>4, <3>1 DEF LedgerOK, StayCovered
    <3> QED BY <3>2 DEF StayBeforeCovered, NoncesOf, InRanges
  <2>7. OwnsGranted(c)'
    <3>1. \A x \in 0 .. NonceSize - 1 :
            InRanges(ledger'[c].ranges, x) \/ InRanges(ledger'[c].prior, x) =>
                GrantedTo(c, x) \/ (range.start <= x /\ x < range.limit)
        BY <1>14, <1>16, <1>21, <2>1 DEF LedgerOK, OwnsGranted
    <3> QED BY <1>20, <3>1 DEF OwnsGranted, InRanges
  <2>8. Solid(ledger'[c].ranges) /\ Solid(ledger'[c].prior)
      BY <1>16, <2>1
  <2> QED BY <1>19, <2>5, <2>6, <2>7, <2>8 DEF LedgerOK, Solid
<1>24. LedgerOK(c)'
    BY <1>22, <1>23
<1> QED
    BY <1>12, <1>24 DEF LedgersOK

LEMMA LedgersInit == Init => LedgersOK
<1> SUFFICES ASSUME Init, NEW c \in Clients PROVE LedgerOK(c)
    BY DEF LedgersOK
<1>1. Of(c) = {}
    BY DEF Of, Init
<1>2. ledger[c].ranges = <<>> /\ ledger[c].prior = <<>>
    BY DEF Init, EmptyLedger
<1> QED
    BY <1>1, <1>2 DEF LedgerOK, StayCovered, Stay, StayBeforeCovered, StayBefore, OwnsGranted,
                      LastIsOfJob, InRanges, Solid

\* A miner that leaves has an empty ledger and no grants; the others keep theirs.
LEMMA LedgerDetach ==
    ASSUME IInv, LedgersOK, NEW c \in Clients, Detach(c)
    PROVE  LedgersOK'
<1>1. TypeOK /\ ledger \in [Clients -> LedgerType] /\ NoJob \notin Clients
    BY GrantsAssumption DEF IInv, TypeOK
<1>2. /\ ledger' = [ledger EXCEPT ![c] = EmptyLedger]
      /\ given' = [k \in DOMAIN given |->
                     IF given[k].client = c THEN [given[k] EXCEPT !.client = NoJob]
                                            ELSE given[k]]
    BY DEF Detach
<1>3. \A k \in DOMAIN given :
        /\ given'[k].job = given[k].job
        /\ given'[k].start = given[k].start /\ given'[k].limit = given[k].limit
        /\ given'[k].client = IF given[k].client = c THEN NoJob ELSE given[k].client
    BY <1>1, <1>2, GivenFacts DEF GrantRecord
<1>4. DOMAIN given' = DOMAIN given
    BY <1>2
<1>5. ASSUME NEW d \in Clients, d # c PROVE LedgerOK(d)'
  <2>1. Of(d)' = Of(d) /\ Of(d) \subseteq DOMAIN given
      BY <1>1, <1>3, <1>4, <1>5 DEF Of
  <2>2. ledger'[d] = ledger[d]
      BY <1>1, <1>2, <1>5
  <2> QED BY <1>1, <1>3, <2>1, <2>2, LedgerKept DEF LedgersOK
<1>6. LedgerOK(c)'
  <2>1. Of(c)' = {}
      BY <1>1, <1>3, <1>4 DEF Of
  <2>2. ledger'[c].ranges = <<>> /\ ledger'[c].prior = <<>>
      BY <1>1, <1>2 DEF EmptyLedger
  <2> QED BY <2>1, <2>2 DEF LedgerOK, StayCovered, Stay, StayBeforeCovered, StayBefore,
                            OwnsGranted, LastIsOfJob, InRanges, Solid
<1> QED
    BY <1>5, <1>6 DEF LedgersOK

LEMMA LedgersNext == IInv /\ LedgersOK /\ [Next]_vars => LedgersOK'
<1> SUFFICES ASSUME IInv, LedgersOK, [Next]_vars PROVE LedgersOK'
    OBVIOUS
<1>1. ASSUME ledger' = ledger, given' = given PROVE LedgersOK'
  <2>1. TypeOK /\ \A d \in Clients : LedgerOK(d) /\ Of(d)' = Of(d)
      BY <1>1 DEF IInv, LedgersOK, Of
  <2> QED BY <1>1, <2>1, LedgerKept DEF LedgersOK
<1>2. CASE \E l \in Links, layout \in Layouts : Accept(l, layout)
    BY <1>1, <1>2 DEF Accept
<1>3. CASE \E l \in Links, c \in Clients, count \in Counts : Grant(l, c, count)
    BY <1>3, LedgerGrant
<1>4. CASE \E l \in Links, count \in Counts : Refuse(l, count)
    BY <1>1, <1>4 DEF Refuse
<1>5. CASE \E c \in Clients : Detach(c)
    BY <1>5, LedgerDetach
<1>6. CASE UNCHANGED vars
    BY <1>1, <1>6 DEF vars
<1> QED
    BY <1>2, <1>3, <1>4, <1>5, <1>6 DEF Next

\* What the lists of a ledger cover is what it owns.
LEMMA LedgersMeanExact == TypeOK /\ LedgersOK => LedgersExact
<1> SUFFICES ASSUME TypeOK, LedgersOK PROVE LedgersExact
    OBVIOUS
<1>1. \A c : \A n : Owns(ledger[c], n) <=>
          InRanges(ledger[c].ranges, n) \/ InRanges(ledger[c].prior, n)
    BY DEF Owns, InRanges
<1>2. \A c \in Clients : StayCovered(c) /\ StayBeforeCovered(c) /\ OwnsGranted(c)
    BY DEF LedgersOK, LedgerOK
<1>3. StaysCredited
    BY <1>1, <1>2 DEF StaysCredited, StayCovered, StayBeforeCovered
<1>4. OwnsOnlyGranted
    BY <1>1, <1>2 DEF OwnsOnlyGranted, OwnsGranted, GrantedTo, Of
<1> QED
    BY <1>3, <1>4 DEF LedgersExact

\* A ledger owns every nonce of the miner's stay with its last job and of the
\* stay before, so that a late share is credited, and nothing the miner was
\* never granted, for any order of links, jobs and grants (Ledger.record and
\* Ledger.owns, nonce.ts).
THEOREM LedgersCorrect == Spec => []LedgersExact
<1>1. Init => LedgersOK
    BY LedgersInit
<1>2. IInv /\ LedgersOK /\ [Next]_vars => LedgersOK'
    BY LedgersNext
<1>3. IInv /\ LedgersOK => LedgersExact
    BY LedgersMeanExact DEF IInv
<1> QED
    BY <1>1, <1>2, <1>3, GrantsInvariant, PTL DEF Spec
=============================================================================
