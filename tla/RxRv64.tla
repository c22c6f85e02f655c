------------------------------- MODULE RxRv64 -------------------------------
(***************************************************************************)
(* The RISC-V compiler (jit_compiler_rv64.cpp), with and without the bit     *)
(* manipulation extensions (zb: __riscv_zba and __riscv_zbb).  An immediate   *)
(* is added in one instruction when its LowBits (12) signed low bits suffice, *)
(* otherwise built from its high part.                                        *)
(***************************************************************************)
EXTENDS RxCpu

LowBits == (3 * ImmBits) \div 8
Zero == 11           \* x0, always 0; also the base of the scratchpad

\* The low n bits of x as a signed number.
SignedLow(x, n) == LET l == x % 2^n IN IF l >= 2^(n - 1) THEN l - 2^n ELSE l
\* unsigned32ToSigned2sCompl
RvSigned(imm) == SignedLow(imm, ImmBits)

\* d := x + imm, for a signed 32 bit imm; t is free when x = d.
emitImm32(imm, d, x, t) ==
  LET limm == SignedLow(imm, LowBits)
      uimm == imm \div 2^LowBits + (IF limm < 0 THEN 1 ELSE 0)
      d1 == IF x # d THEN d ELSE t
      x1 == IF x # d THEN x ELSE d1
  IN IF uimm = 0 THEN <<<<"addi", d, x, limm>>>>
     ELSE <<<<"movi", d1, d1, Narrow(uimm * 2^LowBits)>>>>
          \o (IF limm # 0 THEN <<<<"addw", d1, d1, limm>>>> ELSE <<>>)
          \o (IF x1 # Zero THEN <<<<"add", d, d, x1>>>> ELSE <<>>)

RvLevel(ins) == IF getModMem(ins) # 0 THEN L1Bits ELSE L2Bits
\* Tmp2 := address of base + imm in a level; the immediate is cut to the level first.
RvAddress(base, imm, bits) ==
  emitImm32(SignedLow(imm, bits), Tmp2, base, Tmp) \o <<<<"andi", Tmp2, Tmp2, LevelMask(bits)>>>>
RvAddressReg(ins) == RvAddress(ins.src, ins.imm, RvLevel(ins))
RvAddressRegImm(ins) == emitImm32((ins.imm & ScratchpadL3Mask), Tmp2, Zero, Tmp)
RvAddressRegDst(ins) ==
  RvAddress(ins.dst, ins.imm, IF getModCond(ins) < StoreL3 THEN RvLevel(ins) ELSE L3Bits)
loadFromScratchpad(ins) ==
  (IF ins.src # ins.dst THEN RvAddressReg(ins) ELSE RvAddressRegImm(ins))
  \o <<<<"load", Tmp, Tmp2, 0>>>>

RvName == [IADD_M |-> "add", ISUB_M |-> "sub", IMUL_R |-> "mul", IMUL_M |-> "mul",
           IXOR_R |-> "xor", IXOR_M |-> "xor", IMULH_R |-> "mulh", IMULH_M |-> "mulh",
           ISMULH_R |-> "smulh", ISMULH_M |-> "smulh",
           FADD_R |-> "fadd", FADD_M |-> "fadd", FSUB_R |-> "fsub", FSUB_M |-> "fsub",
           FMUL_R |-> "fmul", FDIV_M |-> "fdiv"]

Rv_IADD_RS(ins, zb) ==
  LET shift == getModShift(ins)
      added == IF shift = 0 THEN <<<<"add", ins.dst, ins.dst, ins.src>>>>
               ELSE IF zb THEN <<<<"adds", ins.dst, ins.dst, ins.src, shift>>>>
               ELSE <<<<"slli", Tmp, ins.src, shift>>, <<"add", ins.dst, ins.dst, Tmp>>>>
  IN added \o (IF ins.dst = RegisterNeedsDisplacement
               THEN emitImm32(RvSigned(ins.imm), ins.dst, ins.dst, Tmp) ELSE <<>>)
Rv_Memory(ins) == loadFromScratchpad(ins) \o <<<<RvName[ins.op], ins.dst, ins.dst, Tmp>>>>
Rv_ISUB_R(ins) ==
  IF ins.src # ins.dst THEN <<<<"sub", ins.dst, ins.dst, ins.src>>>>
  ELSE IF ins.imm = 2^(ImmBits - 1)
  THEN <<<<"movi", Tmp, Tmp, Narrow(2^(ImmBits - 1))>>, <<"sub", ins.dst, ins.dst, Tmp>>>>
  ELSE emitImm32(RvSigned(-ins.imm), ins.dst, ins.dst, Tmp)
Rv_Register(ins) ==   \* IMUL_R, IXOR_R
  IF ins.src # ins.dst THEN <<<<RvName[ins.op], ins.dst, ins.dst, ins.src>>>>
  ELSE emitImm32(RvSigned(ins.imm), Tmp, Zero, Zero) \o <<<<RvName[ins.op], ins.dst, ins.dst, Tmp>>>>
Rv_IMUL_RCP(ins, c) == <<<<"rcp", Tmp, Tmp, Len(c.rcp)>>, <<"mul", ins.dst, ins.dst, Tmp>>>>

\* Shifts by a register of complementary amounts, or the rotation itself.
RvTurn(ins, zb, rotate, first, second) ==
  IF zb THEN <<<<rotate, ins.dst, ins.dst, ins.src>>>>
  ELSE <<<<"neg", Tmp, ins.src>>, <<first, Tmp2, ins.dst, ins.src>>,
         <<second, ins.dst, ins.dst, Tmp>>, <<"or", ins.dst, ins.dst, Tmp2>>>>
RvTurnImm(d, zb, right) ==
  IF zb THEN <<<<"rori", d, d, right>>>>
  ELSE <<<<"srli", Tmp, d, right>>, <<"slli", d, d, (-right) % WordBits>>, <<"or", d, d, Tmp>>>>
Rv_IROR_R(ins, zb) ==
  IF ins.src # ins.dst THEN RvTurn(ins, zb, "ror", "srl", "sll")
  ELSE RvTurnImm(ins.dst, zb, ins.imm % WordBits)
Rv_IROL_R(ins, zb) ==
  IF ins.src # ins.dst THEN RvTurn(ins, zb, "rol", "sll", "srl")
  ELSE RvTurnImm(ins.dst, zb, (-ins.imm) % WordBits)
Rv_ISWAP_R(ins) ==
  IF ins.src = ins.dst THEN <<>>
  ELSE <<<<"mov", Tmp, ins.dst>>, <<"mov", ins.dst, ins.src>>, <<"mov", ins.src, Tmp>>>>

RvFloatDst(ins) == FltReg(ins.dst) + (IF ins.op \in {"FMUL_R", "FDIV_M", "FSQRT_R"} THEN 4 ELSE 0)
Rv_FloatMemory(ins) ==
  RvAddressReg(ins) \o <<<<"fcvt", FTmp, Tmp2>>>>
  \o (IF ins.op = "FDIV_M" THEN <<<<"fmask", FTmp>>>> ELSE <<>>)
  \o <<<<RvName[ins.op], RvFloatDst(ins), FTmp>>>>

Rv_CBRANCH(ins, c) ==
  LET shift == getModCond(ins) + JumpOffset
      set == (ins.imm | 2^shift)
      imm == IF JumpOffset > 0 \/ shift > 0 THEN (set & (2^ImmBits - 1 - 2^(shift - 1))) ELSE set
  IN emitImm32(ConditionMask * 2^shift, Tmp, Zero, Zero)
     \o emitImm32(RvSigned(imm), ins.dst, ins.dst, Tmp2)
     \o <<<<"and", Tmp, Tmp, ins.dst>>,
          <<"jz", c.offsets[c.usage[ins.dst] + 2], Tmp, 2^WordBits - 1>>>>
\* Two bits further right than the interpreter: the mode selects a table entry of 4 bytes.
Rv_CFROUND(ins, c, v2, zb) ==
  LET imm == (ins.imm - 2) % WordBits
      turned == IF imm = 0 THEN <<>>
                ELSE IF zb THEN <<<<"rori", Tmp, ins.src, imm>>>>
                ELSE <<<<"srli", Tmp, ins.src, imm>>,
                       <<"slli", Tmp2, ins.src, (-imm) % WordBits>>, <<"or", Tmp, Tmp, Tmp2>>>>
      from == IF imm = 0 THEN ins.src ELSE Tmp
      test == IF v2 THEN <<<<"andi", Tmp2, from, 240>>,
                           <<"jnz", Here(c) + Len(turned) + 4, Tmp2, 2^WordBits - 1>>>> ELSE <<>>
  IN turned \o test \o <<<<"andi", Tmp, from, 12>>, <<"round", 0, Tmp, 2>>>>
Rv_ISTORE(ins) == RvAddressRegDst(ins) \o <<<<"store", ins.src, Tmp2>>>>

Rv_Plain(ins) == <<<<RvName[ins.op], ins.dst, ins.dst, ins.src>>>>
Rv_AddSub(ins, zb) ==
  CASE ins.op = "IADD_RS" -> Rv_IADD_RS(ins, zb)
    [] ins.op = "ISUB_R" -> Rv_ISUB_R(ins)
    [] OTHER -> Rv_Memory(ins)
Rv_Multiply(ins) ==
  CASE ins.op = "IMUL_R" -> Rv_Register(ins)
    [] ins.op \in OpsHigh -> Rv_Plain(ins)
    [] OTHER -> Rv_Memory(ins)
Rv_Logic(ins) ==
  CASE ins.op = "INEG_R" -> <<<<"neg", ins.dst, ins.dst>>>>
    [] ins.op = "IXOR_R" -> Rv_Register(ins)
    [] OTHER -> Rv_Memory(ins)
Rv_Turn(ins, zb) ==
  CASE ins.op = "IROR_R" -> Rv_IROR_R(ins, zb)
    [] ins.op = "IROL_R" -> Rv_IROL_R(ins, zb)
    [] OTHER -> Rv_ISWAP_R(ins)
Rv_Floating(ins) ==
  CASE ins.op = "FSWAP_R" -> <<<<"fswap", ins.dst>>>>
    [] ins.op = "FSCAL_R" -> <<<<"fscale", FltReg(ins.dst)>>>>
    [] ins.op = "FSQRT_R" -> <<<<"fsqrt", RvFloatDst(ins)>>>>
    [] ins.op \in OpsFloat -> <<<<RvName[ins.op], RvFloatDst(ins), 8 + FltReg(ins.src)>>>>
    [] OTHER -> Rv_FloatMemory(ins)
RvCode(ins, c, v2, zb) ==
  CASE ins.op \in OpsAddSub -> Rv_AddSub(ins, zb)
    [] ins.op = "IMUL_RCP" -> IF isZeroOrPowerOf2(ins.imm) THEN <<>> ELSE Rv_IMUL_RCP(ins, c)
    [] ins.op \in OpsMultiply \ {"IMUL_RCP"} -> Rv_Multiply(ins)
    [] ins.op \in OpsLogic \ (OpsRotate \cup {"ISWAP_R"}) -> Rv_Logic(ins)
    [] ins.op \in OpsRotate \cup {"ISWAP_R"} -> Rv_Turn(ins, zb)
    [] ins.op \in OpsFloating -> Rv_Floating(ins)
    [] ins.op = "CFROUND" -> Rv_CFROUND(ins, c, v2, zb)
    [] ins.op = "CBRANCH" -> Rv_CBRANCH(ins, c)
    [] ins.op = "ISTORE" -> Rv_ISTORE(ins)
    [] OTHER -> <<>>

\* mutant: a swap of a register with itself marks it
RvTouchesSwap(ins) ==
  CASE ins.op = "CBRANCH" -> AllRegisters
    [] ins.op = "IMUL_RCP" -> IF isZeroOrPowerOf2(ins.imm) THEN {} ELSE {ins.dst}
    [] ins.op = "ISWAP_R" -> {ins.dst, ins.src}
    [] ins.op \in OpsMemory \cup OpsRegister \cup OpsHigh \cup OpsRotate
                  \cup {"IADD_RS", "INEG_R"} -> {ins.dst}
    [] OTHER -> {}
\* The registers a handler enters in registerUsage.
RvTouches(ins) ==
  CASE ins.op = "CBRANCH" -> AllRegisters
    [] ins.op = "IMUL_RCP" -> IF isZeroOrPowerOf2(ins.imm) THEN {} ELSE {ins.dst}
    [] ins.op = "ISWAP_R" -> IF ins.src # ins.dst THEN {ins.dst, ins.src} ELSE {}
    [] ins.op \in OpsMemory \cup OpsRegister \cup OpsHigh \cup OpsRotate
                  \cup {"IADD_RS", "INEG_R"} -> {ins.dst}
    [] OTHER -> {}
RvLiterals(ins, c) ==   \* emitRcpLiteral1
  IF ins.op = "IMUL_RCP" /\ ~isZeroOrPowerOf2(ins.imm)
  THEN Append(c.rcp, randomx_reciprocal(ins.imm)) ELSE c.rcp

RvCompile(ins, i, c, v2, zb) ==
  LET at == [c EXCEPT !.offsets = Append(@, Here(c))]
  IN [Emit(at, RvCode(ins, at, v2, zb)) EXCEPT
        !.usage = Touch(@, RvTouches(ins), i), !.rcp = RvLiterals(ins, c)]
=============================================================================
