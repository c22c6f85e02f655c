------------------------------ MODULE RxArgon ------------------------------
(***************************************************************************)
(* Argon2d as initCache uses it to fill the memory of a cache                *)
(* (argon2_core.c), with its three ways to fill a segment: portable           *)
(* (argon2_ref.c), with 128 bit registers (argon2_ssse3.c) and with 256 bit   *)
(* registers (argon2_avx2.c).  A block's content is told apart by the pass    *)
(* that wrote it; what a block holds is the draw of its first word, so any    *)
(* draw may follow.                                                          *)
(***************************************************************************)
EXTENDS Integers, Sequences, SequencesExt

CONSTANTS
  Lanes,          \* RANDOMX_ARGON_LANES, 1 in this build
  SegmentLength,  \* blocks of a segment
  Passes,         \* RANDOMX_ARGON_ITERATIONS, 3 in the code
  RandBits        \* width of the draw, 32 in the code

SyncPoints == 4
LaneLength == SegmentLength * SyncPoints
MemoryBlocks == Lanes * LaneLength

\* randomx_argon2_validate_inputs and the static assertions on the configuration.
ASSUME ArgonInputsValid ==
  /\ {Lanes, SegmentLength, Passes, RandBits} \subseteq Nat
  /\ Lanes > 0 /\ Passes > 0 /\ MemoryBlocks >= 8 * Lanes
  /\ 2 * LaneLength <= 2^RandBits

VARIABLES
  impl,       \* cache->argonImpl
  stage,      \* "start", "segment" (between two), "block" (within one) or "filled"
  position,   \* pass, slice, lane and index of argon2_position_t
  currOffset, prevOffset,
  memory,     \* per block, the pass (from 1) that wrote it last; 0: never
  carried,    \* the block a vector implementation keeps in its registers
  used,       \* ghost: the blocks the last fill_block was made from
  mixed       \* ghost: the words it mixed with each other, and where it left them

argonVars == <<impl, stage, position, currOffset, prevOffset, memory, carried, used, mixed>>

Block(offset) == [offset |-> offset, pass |-> memory[offset]]
NoBlock == [offset |-> 0, pass |-> 0]
Unused == [prev |-> NoBlock, pseudo |-> NoBlock, ref |-> NoBlock, into |-> NoBlock]

---------------------------------------------------------------------------
(* One round of Blake2 on 16 words, as the words it passes to G: four columns, *)
(* then four diagonals.  A vector register is the tuple of its words; eight    *)
(* of them, A0 A1 B0 B1 C0 C1 D0 D1, are two or one times 16 words.            *)
RefRound(v) ==
  [columns |-> {<<v[0], v[4], v[8], v[12]>>, <<v[1], v[5], v[9], v[13]>>,
                <<v[2], v[6], v[10], v[14]>>, <<v[3], v[7], v[11], v[15]>>},
   diagonals |-> {<<v[0], v[5], v[10], v[15]>>, <<v[1], v[6], v[11], v[12]>>,
                  <<v[2], v[7], v[8], v[13]>>, <<v[3], v[4], v[9], v[14]>>}]
RefRoundOn(half, i) ==
  RefRound([k \in 0 .. 15 |-> IF half = 1 THEN 16 * i + k ELSE 2 * i + 16 * (k \div 2) + (k % 2)])
Words == 0 .. 127
RefMixing ==
  LET all(half, part) == UNION {RefRoundOn(half, i)[part] : i \in 0 .. 7}
  IN [steps |-> <<all(1, "columns"), all(1, "diagonals"), all(2, "columns"), all(2, "diagonals")>>,
      layout |-> [w \in Words |-> w]]

GLanes(a, b, c, d) == {<<a[k], b[k], c[k], d[k]>> : k \in DOMAIN a}
GBoth(r) == GLanes(r[1], r[3], r[5], r[7]) \cup GLanes(r[2], r[4], r[6], r[8])

\* _mm_alignr_epi8(a, b, 8)
Alignr(a, b) == <<b[2], a[1]>>
Diagonalize128(r) ==
  <<r[1], r[2], Alignr(r[4], r[3]), Alignr(r[3], r[4]), r[6], r[5],
    Alignr(r[7], r[8]), Alignr(r[8], r[7])>>
\* mutant: the last row is turned the way Diagonalize128 does
Undiagonalize128Twice(r) ==
  <<r[1], r[2], Alignr(r[3], r[4]), Alignr(r[4], r[3]), r[6], r[5],
    Alignr(r[7], r[8]), Alignr(r[8], r[7])>>
Undiagonalize128(r) ==
  <<r[1], r[2], Alignr(r[3], r[4]), Alignr(r[4], r[3]), r[6], r[5],
    Alignr(r[8], r[7]), Alignr(r[7], r[8])>>

\* _mm256_permute4x64_epi64(a, _MM_SHUFFLE(z, y, x, w)), and the blends that
\* take the words at the even (0xCC) or odd (0x33) places from b.
Permute(a, z, y, x, w) == <<a[w + 1], a[x + 1], a[y + 1], a[z + 1]>>
BlendCC(a, b) == <<a[1], b[2], a[3], b[4]>>
Blend33(a, b) == <<b[1], a[2], b[3], a[4]>>
Swapped(a) == Permute(a, 2, 3, 0, 1)
Diagonalize256Columns(r) ==
  <<r[1], r[2], Permute(r[3], 0, 3, 2, 1), Permute(r[4], 0, 3, 2, 1),
    Permute(r[5], 1, 0, 3, 2), Permute(r[6], 1, 0, 3, 2),
    Permute(r[7], 2, 1, 0, 3), Permute(r[8], 2, 1, 0, 3)>>
Undiagonalize256Columns(r) ==
  <<r[1], r[2], Permute(r[3], 2, 1, 0, 3), Permute(r[4], 2, 1, 0, 3),
    Permute(r[5], 1, 0, 3, 2), Permute(r[6], 1, 0, 3, 2),
    Permute(r[7], 0, 3, 2, 1), Permute(r[8], 0, 3, 2, 1)>>
Diagonalize256Rows(r) ==
  <<r[1], r[2], Swapped(Blend33(r[3], r[4])), Swapped(BlendCC(r[3], r[4])), r[6], r[5],
    Swapped(BlendCC(r[7], r[8])), Swapped(Blend33(r[7], r[8]))>>
Undiagonalize256Rows(r) ==
  <<r[1], r[2], Swapped(BlendCC(r[3], r[4])), Swapped(Blend33(r[3], r[4])), r[6], r[5],
    Swapped(Blend33(r[7], r[8])), Swapped(BlendCC(r[7], r[8]))>>

\* BLAKE2_ROUND, BLAKE2_ROUND_1 and BLAKE2_ROUND_2.
Diagonal(form, r) ==
  CASE form = "128" -> Diagonalize128(r)
    [] form = "256columns" -> Diagonalize256Columns(r)
    [] form = "256rows" -> Diagonalize256Rows(r)
Straight(form, r) ==
  CASE form = "128" -> Undiagonalize128(r)
    [] form = "256columns" -> Undiagonalize256Columns(r)
    [] form = "256rows" -> Undiagonalize256Rows(r)

\* A loop of rounds, each on the eight registers of file that its tuple of places names.
Rounds(form, file, places) ==
  LET round(s, p) ==
        LET r == [k \in 1 .. 8 |-> s.file[p[k]]]
            d == Diagonal(form, r)
            out == Straight(form, d)
        IN [file |-> [j \in DOMAIN s.file |->
                        IF j \in {p[k] : k \in 1 .. 8} THEN out[CHOOSE k \in 1 .. 8 : p[k] = j] ELSE s.file[j]],
            columns |-> s.columns \cup GBoth(r),
            diagonals |-> s.diagonals \cup GBoth(d)]
  IN FoldLeft(round, [file |-> file, columns |-> {}, diagonals |-> {}], places)
\* What two loops of rounds did to a file of registers of width words.
Mixing(width, first, second) ==
  [steps |-> <<first.columns, first.diagonals, second.columns, second.diagonals>>,
   layout |-> [w \in Words |-> second.file[w \div width][(w % width) + 1]]]

\* fill_block of argon2_ssse3.c and of argon2_avx2.c.
Mixing128 ==
  LET first == Rounds("128", [j \in 0 .. 63 |-> <<2 * j, 2 * j + 1>>],
                      [i \in 1 .. 8 |-> [k \in 1 .. 8 |-> 8 * (i - 1) + k - 1]])
      second == Rounds("128", first.file, [i \in 1 .. 8 |-> [k \in 1 .. 8 |-> 8 * (k - 1) + i - 1]])
  IN Mixing(2, first, second)
Mixing256 ==
  LET first == Rounds("256columns", [j \in 0 .. 31 |-> [k \in 1 .. 4 |-> 4 * j + k - 1]],
                      [i \in 1 .. 4 |-> <<8 * i - 8, 8 * i - 4, 8 * i - 7, 8 * i - 3,
                                          8 * i - 6, 8 * i - 2, 8 * i - 5, 8 * i - 1>>])
      second == Rounds("256rows", first.file, [i \in 1 .. 4 |-> [k \in 1 .. 8 |-> 4 * (k - 1) + i - 1]])
  IN Mixing(4, first, second)
MixingOf ==
  CASE impl = "ref" -> RefMixing [] impl = "ssse3" -> Mixing128 [] impl = "avx2" -> Mixing256

---------------------------------------------------------------------------
(* The block a draw refers to.                                               *)
\* mutant: the area takes in the block before the current one
referenceAreaLate(sameLane) ==
  LET before == IF position.pass = 0 THEN position.slice * SegmentLength ELSE LaneLength - SegmentLength
  IN IF sameLane THEN before + position.index
     ELSE before - (IF position.index = 0 THEN 1 ELSE 0)
referenceArea(sameLane) ==
  LET before == IF position.pass = 0 THEN position.slice * SegmentLength ELSE LaneLength - SegmentLength
  IN IF sameLane THEN before + position.index - 1
     ELSE before - (IF position.index = 0 THEN 1 ELSE 0)
randomx_argon2_index_alpha(rand, sameLane) ==
  LET area == referenceArea(sameLane)
      square == (rand * rand) \div 2^RandBits
      relative == area - 1 - ((area * square) \div 2^RandBits)
      start == IF position.pass = 0 \/ position.slice = SyncPoints - 1 THEN 0
               ELSE (position.slice + 1) * SegmentLength
  IN (start + relative) % LaneLength

ArgonInit ==
  /\ impl \in {"ref", "ssse3", "avx2"}
  /\ stage = "start" /\ position = [pass |-> 0, slice |-> 0, lane |-> 0, index |-> 0]
  /\ currOffset = 0 /\ prevOffset = 0
  /\ memory = [b \in 0 .. MemoryBlocks - 1 |-> 0]
  /\ carried = NoBlock /\ used = Unused /\ mixed = <<>>

\* randomx_argon2_initialize: the first two blocks of every lane.
Initialize ==
  /\ stage = "start" /\ stage' = "segment"
  /\ memory' = [b \in DOMAIN memory |-> IF b % LaneLength < 2 THEN 1 ELSE 0]
  /\ UNCHANGED <<impl, position, currOffset, prevOffset, carried, used, mixed>>

\* fill_segment up to its loop.
EnterSegment ==
  LET starting == IF position.pass = 0 /\ position.slice = 0 THEN 2 ELSE 0
      curr == position.lane * LaneLength + position.slice * SegmentLength + starting
      prev == IF curr % LaneLength = 0 THEN curr + LaneLength - 1 ELSE curr - 1
  IN
  /\ stage = "segment" /\ stage' = "block"
  /\ position' = [position EXCEPT !.index = starting]
  /\ currOffset' = curr /\ prevOffset' = prev
  /\ carried' = IF impl = "ref" THEN NoBlock ELSE Block(prev)
  /\ UNCHANGED <<impl, memory, used, mixed>>

\* mutant: the registers of a vector implementation keep their input
CarryInput(written) == carried
Carry(written) == IF impl = "ref" THEN NoBlock ELSE written
\* One round of the loop: prev_offset is rotated, the reference is drawn from the
\* block before, and the block is made of both and, from the second pass on, of
\* what it held.
FillBlock(rand, drawnLane) ==
  LET prev == IF currOffset % LaneLength = 1 THEN currOffset - 1 ELSE prevOffset
      refLane == IF position.pass = 0 /\ position.slice = 0 THEN position.lane ELSE drawnLane
      ref == LaneLength * refLane + randomx_argon2_index_alpha(rand, refLane = position.lane)
  IN
  /\ stage = "block" /\ position.index < SegmentLength
  /\ memory' = [memory EXCEPT ![currOffset] = position.pass + 1]
  /\ carried' = Carry([offset |-> currOffset, pass |-> position.pass + 1])
  /\ used' = [prev |-> IF impl = "ref" THEN Block(prev) ELSE carried,
              pseudo |-> Block(prev), ref |-> Block(ref), into |-> Block(currOffset)]
  /\ mixed' = MixingOf
  /\ position' = [position EXCEPT !.index = @ + 1]
  /\ currOffset' = currOffset + 1 /\ prevOffset' = prev + 1
  /\ UNCHANGED <<impl, stage>>

\* fill_memory_blocks_st: the lanes of a slice, the slices of a pass, the passes.
LeaveSegment ==
  LET lastLane == position.lane = Lanes - 1
      lastSlice == lastLane /\ position.slice = SyncPoints - 1
  IN
  /\ stage = "block" /\ position.index = SegmentLength
  /\ position' = [pass |-> position.pass + (IF lastSlice THEN 1 ELSE 0),
                  slice |-> IF lastLane THEN (position.slice + 1) % SyncPoints ELSE position.slice,
                  lane |-> (position.lane + 1) % Lanes, index |-> 0]
  /\ stage' = IF lastSlice /\ position.pass = Passes - 1 THEN "filled" ELSE "segment"
  /\ currOffset' = 0 /\ prevOffset' = 0 /\ carried' = NoBlock /\ used' = Unused /\ mixed' = <<>>
  /\ UNCHANGED <<impl, memory>>

ArgonNext ==
  \/ Initialize
  \/ EnterSegment
  \/ \E rand \in 0 .. 2^RandBits - 1, drawnLane \in 0 .. Lanes - 1 : FillBlock(rand, drawnLane)
  \/ LeaveSegment

---------------------------------------------------------------------------
SliceOf(offset) == (offset % LaneLength) \div SegmentLength
LaneOf(offset) == offset \div LaneLength

\* A block is made of blocks that are written: the one before it in its lane, and
\* one that is neither itself nor that one ("all but the previous",
\* argon2_core.c:112), and in another lane never of the slice being filled
\* ("Other lanes : all already finished segments", argon2_core.c:99).  It is
\* written once in every pass.
MadeOfWritten ==
  used # Unused =>
    /\ used.pseudo.pass >= 1 /\ used.ref.pass >= 1
    /\ used.pseudo.offset = (LaneOf(used.into.offset) * LaneLength)
                            + ((used.into.offset + LaneLength - 1) % LaneLength)
    /\ used.ref.offset \notin {used.into.offset, used.pseudo.offset}
    /\ LaneOf(used.ref.offset) # LaneOf(used.into.offset) =>
         SliceOf(used.ref.offset) # SliceOf(used.into.offset)
    /\ used.into.pass = position.pass

\* The vector implementations never read the previous block again: they go on with
\* what their registers hold.  It is the block the portable one reads, across
\* segments, lanes and passes.
CarriedIsPrevious == used.prev = used.pseudo

\* A block is made of what the algorithm says, read or carried.
BlocksSound == MadeOfWritten /\ CarriedIsPrevious

\* The three implementations mix the same words in the same order and put each
\* back where it was, whatever way they lay them out in registers: a cache does
\* not depend on the processor it is built on.
MixedAlike == used # Unused => mixed = RefMixing
=============================================================================
