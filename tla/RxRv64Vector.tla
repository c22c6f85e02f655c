---------------------------- MODULE RxRv64Vector ----------------------------
(***************************************************************************)
(* The RISC-V compiler for processors with vector registers                  *)
(* (jit_compiler_rv64_vector.cpp), with and without the bit manipulation      *)
(* extensions (zb).  It shares the literal widths of RxRv64 but none of its    *)
(* code: a branch goes behind the last code that wrote its register            *)
(* (last_modified), as on AArch64.                                           *)
(***************************************************************************)
EXTENDS RxRv64

RvvStart(c) == [c EXCEPT !.usage = [n \in DOMAIN @ |-> Here(c)]]

LowMax == 2^(LowBits - 1) - 1
High(imm) == (imm - SignedLow(imm, LowBits)) % 2^ImmBits
\* Tmp (x5) := the sign extended imm.
imm_to_x5(imm) ==
  LET low == SignedLow(imm, LowBits) IN
  IF High(imm) = 0 THEN <<<<"movi", Tmp, Tmp, Wrap(low)>>>>
  ELSE IF low = 0 THEN <<<<"movi", Tmp, Tmp, Narrow(High(imm))>>>>
  ELSE <<<<"movi", Tmp, Tmp, Narrow(High(imm))>>, <<"addw", Tmp, Tmp, low>>>>

\* Loads Tmp from an address that is known when the program is compiled ...
RvvLoadFixed(at) ==
  IF at <= LowMax THEN <<<<"load", Tmp, Zero, at>>>>
  ELSE IF at <= 2 * LowMax THEN <<<<"addi", Tmp, Zero, LowMax>>, <<"load", Tmp, Tmp, at - LowMax>>>>
  ELSE <<<<"movi", Tmp, Tmp, Narrow(High(at))>>, <<"load", Tmp, Tmp, SignedLow(at, LowBits)>>>>
\* ... or from register src, moved by the immediate within its level.
RvvLoadMoved(ins) ==
  LET bits == RvLevel(ins)   imm == SignedLow(ins.imm, bits) IN
  (IF imm \in -LowMax - 1 .. LowMax THEN <<<<"addi", Tmp, ins.src, imm>>>>
   ELSE imm_to_x5(imm % 2^ImmBits) \o <<<<"add", Tmp, Tmp, ins.src>>>>)
  \o <<<<"andi", Tmp, Tmp, LevelMask(bits)>>, <<"load", Tmp, Tmp, 0>>>>
RvvLoad(ins) ==
  IF ins.src = ins.dst THEN RvvLoadFixed((ins.imm & ScratchpadL3Mask)) ELSE RvvLoadMoved(ins)
\* The floating point forms pass no destination, so they never take the fixed address.
RvvLoadFloat(ins) ==
  LET load == RvvLoadMoved(ins)
  IN SubSeq(load, 1, Len(load) - 1) \o <<<<"fcvt", FTmp, Tmp>>>>

RvvImmediate(ins, op, imm) == imm_to_x5(imm) \o <<<<op, ins.dst, ins.dst, Tmp>>>>
Rvv_IADD_RS(ins, zb) ==
  LET shift == getModShift(ins) IN
  (IF shift = 0 THEN <<<<"add", ins.dst, ins.dst, ins.src>>>>
   ELSE IF zb THEN <<<<"adds", ins.dst, ins.dst, ins.src, shift>>>>
   ELSE <<<<"slli", Tmp, ins.src, shift>>, <<"add", ins.dst, ins.dst, Tmp>>>>)
  \o (IF ins.dst = RegisterNeedsDisplacement THEN RvvImmediate(ins, "add", ins.imm) ELSE <<>>)
Rvv_ISUB_R(ins) ==
  IF ins.src # ins.dst THEN <<<<"sub", ins.dst, ins.dst, ins.src>>>>
  ELSE IF ins.imm = 2^(ImmBits - 1)
  THEN <<<<"movi", Tmp, Tmp, Narrow(2^(ImmBits - 1))>>, <<"sub", ins.dst, ins.dst, Tmp>>>>
  ELSE RvvImmediate(ins, "add", (-ins.imm) % 2^ImmBits)
Rvv_Register(ins) ==   \* IMUL_R, IXOR_R
  IF ins.src # ins.dst THEN <<<<RvName[ins.op], ins.dst, ins.dst, ins.src>>>>
  ELSE RvvImmediate(ins, RvName[ins.op], ins.imm)
Rvv_Memory(ins) == RvvLoad(ins) \o <<<<RvName[ins.op], ins.dst, ins.dst, Tmp>>>>
\* The rotations by a register are the scalar compiler's; a count of the immediate
\* goes through two scratch registers.
RvvTurnImm(d, zb, right) ==
  IF zb THEN <<<<"rori", d, d, right>>>>
  ELSE <<<<"srli", Tmp, d, right>>, <<"slli", Tmp2, d, (-right) % WordBits>>, <<"or", d, Tmp, Tmp2>>>>
Rvv_Turn(ins, zb) ==
  CASE ins.op = "ISWAP_R" -> Rv_ISWAP_R(ins)
    [] ins.src # ins.dst -> Rv_Turn(ins, zb)
    [] ins.op = "IROR_R" -> RvvTurnImm(ins.dst, zb, ins.imm % WordBits)
    [] OTHER -> RvvTurnImm(ins.dst, zb, (-ins.imm) % WordBits)
Rvv_FloatMemory(ins) ==
  RvvLoadFloat(ins) \o (IF ins.op = "FDIV_M" THEN <<<<"fmask", FTmp>>>> ELSE <<>>)
  \o <<<<RvName[ins.op], RvFloatDst(ins), FTmp>>>>
Rvv_CBRANCH(ins, c) ==
  LET shift == getModCond(ins) + JumpOffset
      imm == ((ins.imm | 2^shift) & (2^ImmBits - 1 - 2^(shift - 1)))
  IN <<<<"movi", Tmp2, Tmp2, ConditionMask * 2^shift>>>> \o RvvImmediate(ins, "add", imm)
     \o <<<<"and", Tmp, ins.dst, Tmp2>>, <<"jz", c.usage[ins.dst], Tmp, 2^WordBits - 1>>>>
\* One bit further right than the interpreter: the mode selects two bits of a constant.
Rvv_CFROUND(ins, c, v2, zb) ==
  LET imm == (ins.imm - 1) % WordBits
      turned == IF imm = 0 THEN <<>>
                ELSE IF zb THEN <<<<"rori", Tmp, ins.src, imm>>>>
                ELSE <<<<"srli", Tmp, ins.src, imm>>,
                       <<"slli", Tmp2, ins.src, (-imm) % WordBits>>, <<"or", Tmp, Tmp, Tmp2>>>>
      from == IF imm = 0 THEN ins.src ELSE Tmp
      test == IF v2 THEN <<<<"andi", Tmp2, from, 120>>,
                           <<"jnz", Here(c) + Len(turned) + 4, Tmp2, 2^WordBits - 1>>>> ELSE <<>>
  IN turned \o test \o <<<<"andi", Tmp, from, 6>>, <<"round", 0, Tmp, 1>>>>
Rvv_ISTORE(ins) ==
  LET bits == IF getModCond(ins) < StoreL3 THEN RvLevel(ins) ELSE L3Bits
  IN imm_to_x5(SignedLow(ins.imm, bits) % 2^ImmBits)
     \o <<<<"add", Tmp, Tmp, ins.dst>>, <<"andi", Tmp, Tmp, LevelMask(bits)>>, <<"store", ins.src, Tmp>>>>

Rvv_AddSub(ins, zb) ==
  CASE ins.op = "IADD_RS" -> Rvv_IADD_RS(ins, zb)
    [] ins.op = "ISUB_R" -> Rvv_ISUB_R(ins)
    [] OTHER -> Rvv_Memory(ins)
Rvv_Multiply(ins, c) ==
  CASE ins.op = "IMUL_R" -> Rvv_Register(ins)
    [] ins.op \in OpsHigh -> Rv_Plain(ins)
    [] ins.op = "IMUL_RCP" -> IF isZeroOrPowerOf2(ins.imm) THEN <<>> ELSE Rv_IMUL_RCP(ins, c)
    [] OTHER -> Rvv_Memory(ins)
Rvv_Logic(ins) ==
  CASE ins.op = "INEG_R" -> <<<<"neg", ins.dst, ins.dst>>>>
    [] ins.op = "IXOR_R" -> Rvv_Register(ins)
    [] OTHER -> Rvv_Memory(ins)
Rvv_Floating(ins) == IF ins.op \in OpsFloatMemory THEN Rvv_FloatMemory(ins) ELSE Rv_Floating(ins)
RvvCode(ins, c, v2, zb) ==
  CASE ins.op \in OpsAddSub -> Rvv_AddSub(ins, zb)
    [] ins.op \in OpsMultiply -> Rvv_Multiply(ins, c)
    [] ins.op \in OpsRotate \cup {"ISWAP_R"} -> Rvv_Turn(ins, zb)
    [] ins.op \in OpsLogic \ (OpsRotate \cup {"ISWAP_R"}) -> Rvv_Logic(ins)
    [] ins.op \in OpsFloating -> Rvv_Floating(ins)
    [] ins.op = "CBRANCH" -> Rvv_CBRANCH(ins, c)
    [] ins.op = "CFROUND" -> Rvv_CFROUND(ins, c, v2, zb)
    [] ins.op = "ISTORE" -> Rvv_ISTORE(ins)
    [] OTHER -> <<>>

\* generateProgramVectorRV64: the code of an instruction, then last_modified.
RvvCompile(ins, c, v2, zb) ==
  LET at == [c EXCEPT !.offsets = Append(@, Here(c))]
      done == Emit(at, RvvCode(ins, at, v2, zb))
  IN [done EXCEPT !.usage = Touch(@, RvTouches(ins), Here(done)), !.rcp = RvLiterals(ins, c)]
=============================================================================
