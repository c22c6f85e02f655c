------------------------------- MODULE RxIsa -------------------------------
(***************************************************************************)
(* The words, memory and floating point values of the RandomX virtual      *)
(* machine, and the fields of its instructions.  Words have WordBits bits   *)
(* (64 in the code) and immediates ImmBits (32); the other constants are    *)
(* the ones of configuration.h and common.hpp, scaled with them.            *)
(***************************************************************************)
EXTENDS Integers, Sequences, SequencesExt, Bitwise

CONSTANTS
  WordBits,          \* width of an integer register
  ImmBits,           \* width of an immediate
  AlignBits,         \* log2 of the bytes of a word
  L1Bits, L2Bits, L3Bits,  \* log2 of the scratchpad levels
  JumpBits, JumpOffset,    \* RANDOMX_JUMP_BITS, RANDOMX_JUMP_OFFSET
  StoreL3,           \* StoreL3Condition
  FloatRange         \* floating point values are 0 .. FloatRange - 1

ASSUME WidthsFit ==
  /\ {WordBits, ImmBits, AlignBits, L1Bits, L2Bits, L3Bits, JumpBits,
      JumpOffset, StoreL3, FloatRange} \subseteq Nat
  /\ AlignBits < L1Bits /\ L1Bits <= L2Bits /\ L2Bits <= L3Bits
  /\ L3Bits < ImmBits /\ ImmBits < WordBits
  /\ JumpBits > 0

RegistersCount == 8
RegisterCountFlt == RegistersCount \div 2
RegisterNeedsDisplacement == 5
RegisterNeedsSib == 4
\* mutant: one bit above the ones a branch changes is tested
ConditionMaskAbove == 2^JumpBits
ConditionMask == 2^JumpBits - 1

Word == 0 .. 2^WordBits - 1
Imm == 0 .. 2^ImmBits - 1
Wrap(x) == x % 2^WordBits
Inverted(x) == 2^WordBits - 1 - x
Signed(x) == IF x >= 2^(WordBits - 1) THEN x - 2^WordBits ELSE x
\* The 32 bits of an immediate as a register holds them.
signExtend(imm) == IF imm >= 2^(ImmBits - 1) THEN Wrap(imm - 2^ImmBits) ELSE imm

Shl(x, n) == Wrap(x * 2^n)
Shr(x, n) == x \div 2^n
rotr(x, n) == Shr(x, n) + Shl(x % 2^n, WordBits - n)
rotl(x, n) == Shl(x % 2^(WordBits - n), n) + Shr(x, WordBits - n)

\* Products, from halves so that no intermediate leaves a word by much.
HalfBits == WordBits \div 2
Lo(x) == x % 2^HalfBits
Hi(x) == x \div 2^HalfBits
Mul(a, b) == Wrap(Lo(a) * Lo(b) + Shl(Lo(Lo(a) * Hi(b) + Hi(a) * Lo(b)), HalfBits))
mulh(a, b) ==
  LET x00 == Lo(a) * Lo(b)   x01 == Lo(a) * Hi(b)
      x10 == Hi(a) * Lo(b)   x11 == Hi(a) * Hi(b)
      m1 == Lo(x10) + Lo(x01) + Hi(x00)
      m2 == Hi(x10) + Hi(x01) + Lo(x11) + Hi(m1)
      m3 == Hi(x11) + Hi(m2)
  IN Wrap(Shl(m3, HalfBits) + Lo(m2))
smulh(a, b) ==
  Wrap(mulh(a, b) - (IF Signed(a) < 0 THEN b ELSE 0) - (IF Signed(b) < 0 THEN a ELSE 0))

isZeroOrPowerOf2(x) == x = 0 \/ \E k \in 0 .. ImmBits - 1 : x = 2^k
BitLength(x) == CHOOSE n \in 0 .. ImmBits : x < 2^n /\ (n > 0 => x >= 2^(n - 1))
randomx_reciprocal(divisor) ==
  LET p == 2^(WordBits - 1)   shift == BitLength(divisor)
  IN (p \div divisor) * 2^shift + ((p % divisor) * 2^shift) \div divisor

(***************************************************************************)
(* Memory: a scratchpad nobody wrote holds Fresh; m is what was stored.     *)
(***************************************************************************)
Fresh(a) == Wrap(a * 4129 + 40503)
Load(m, a) == IF a \in DOMAIN m THEN m[a] ELSE Fresh(a)
Store(m, a, v) == [x \in DOMAIN m \cup {a} |-> IF x = a THEN v ELSE m[x]]
LevelMask(bits) == 2^bits - 2^AlignBits
ScratchpadL1Mask == LevelMask(L1Bits)
ScratchpadL2Mask == LevelMask(L2Bits)
ScratchpadL3Mask == LevelMask(L3Bits)

(***************************************************************************)
(* The floating point unit: an operation is some function of its operands,  *)
(* the rounding mode and nothing else, and no two of them commute.          *)
(***************************************************************************)
Mix(k, x, y, rm) == (k * 31 + x * 17 + y * 5 + rm * 3 + x * y) % FloatRange
FSwap(x) == (x * 7 + 3) % FloatRange
FScale(x) == (x * 11 + 5) % FloatRange
FConvert(w) == w % FloatRange
FMaskE(x) == (x * 13 + 1) % FloatRange

(***************************************************************************)
(* Instructions.  mem, shift and cond are the three fields of mod.          *)
(***************************************************************************)
getModMem(ins) == ins.mem
getModShift(ins) == ins.shift
getModCond(ins) == ins.cond
FltReg(n) == n % RegisterCountFlt
\* Register files: r the integers, f the floats: f0-3, e0-3, a0-3.
FReg(n) == FltReg(n)
EReg(n) == RegisterCountFlt + FltReg(n)
AReg(n) == 2 * RegisterCountFlt + FltReg(n)
=============================================================================
