------------------------------- MODULE RxAsm -------------------------------
(***************************************************************************)
(* The generators of assembly and C text (assembly_generator_x86.cpp), each  *)
(* line as the instruction an assembler makes of it.  The text leaves the    *)
(* encoding to the assembler, so no base register is special; branches go to *)
(* labels.  CFROUND knows nothing of RANDOMX_FLAG_V2.                        *)
(***************************************************************************)
EXTENDS RxX86

AsmAddressReg(ins, t) ==
  <<<<"addi", t, ins.src, signExtend(ins.imm)>>,
    <<"andi", t, t, IF getModMem(ins) # 0 THEN ScratchpadL1Mask ELSE ScratchpadL2Mask>>>>
AsmAddressRegDst(ins) ==
  LET level == IF getModMem(ins) # 0 THEN ScratchpadL1Mask ELSE ScratchpadL2Mask
      mask == IF getModCond(ins) < StoreL3 THEN level ELSE ScratchpadL3Mask
  IN <<<<"addi", Rax, ins.dst, signExtend(ins.imm)>>,
       <<"andi", Rax, Rax, (mask \div 2^AlignBits) * 2^AlignBits>>>>
AsmAddressImm(ins) == (ins.imm & ScratchpadL3Mask)
\* "[rsi+t]" behind its address, or "[rsi+constant]" when src is dst.
AsmOperand(ins, t) ==
  IF ins.src # ins.dst THEN AsmAddressReg(ins, t) \o <<<<"load", MemVal, t, 0>>>>
  ELSE <<<<"loadi", MemVal, 0, AsmAddressImm(ins)>>>>

AsmBinary(name, ins, operand) == <<<<name, ins.dst, ins.dst, operand>>>>
Asm_IADD_RS(ins) ==
  <<<<"adds", ins.dst, ins.dst, ins.src, getModShift(ins)>>>>
  \o (IF ins.dst = RegisterNeedsDisplacement
      THEN <<<<"addi", ins.dst, ins.dst, signExtend(ins.imm)>>>> ELSE <<>>)
Asm_IADD_M(ins) == AsmOperand(ins, Rax) \o AsmBinary("add", ins, MemVal)
Asm_ISUB_M(ins) == AsmOperand(ins, Rax) \o AsmBinary("sub", ins, MemVal)
Asm_IMUL_M(ins) == AsmOperand(ins, Rax) \o AsmBinary("mul", ins, MemVal)
Asm_IXOR_M(ins) == AsmOperand(ins, Rax) \o AsmBinary("xor", ins, MemVal)
Asm_ISUB_R(ins) ==
  IF ins.src # ins.dst THEN AsmBinary("sub", ins, ins.src) ELSE AsmBinary("subi", ins, signExtend(ins.imm))
Asm_IMUL_R(ins) ==
  IF ins.src # ins.dst THEN AsmBinary("mul", ins, ins.src) ELSE AsmBinary("muli", ins, signExtend(ins.imm))
Asm_IXOR_R(ins) ==
  IF ins.src # ins.dst THEN AsmBinary("xor", ins, ins.src) ELSE AsmBinary("xori", ins, signExtend(ins.imm))
\* rdx:rax = rax * operand.
AsmWide(name, ins, operand) ==
  <<<<"mov", Rax, ins.dst>>, <<name, Rdx, Rax, operand>>, <<"mov", ins.dst, Rdx>>>>
Asm_IMULH_R(ins) == AsmWide("mulh", ins, ins.src)
Asm_ISMULH_R(ins) == AsmWide("smulh", ins, ins.src)
Asm_IMULH_M(ins) == AsmOperand(ins, Rcx) \o AsmWide("mulh", ins, MemVal)
Asm_ISMULH_M(ins) == AsmOperand(ins, Rcx) \o AsmWide("smulh", ins, MemVal)
Asm_INEG_R(ins) == <<<<"neg", ins.dst, ins.dst>>>>
Asm_IROR_R(ins) ==
  IF ins.src # ins.dst THEN <<<<"mov", Rcx, ins.src>>>> \o AsmBinary("ror", ins, Rcx)
  ELSE AsmBinary("rori", ins, ins.imm % WordBits)
Asm_IROL_R(ins) ==
  IF ins.src # ins.dst THEN <<<<"mov", Rcx, ins.src>>>> \o AsmBinary("rol", ins, Rcx)
  ELSE AsmBinary("roli", ins, ins.imm % WordBits)
AsmReciprocal(ins, rcp) == <<<<"movi", Rax, 0, rcp>>>> \o AsmBinary("mul", ins, Rax)
Asm_IMUL_RCP(ins) ==
  IF isZeroOrPowerOf2(ins.imm) THEN <<>> ELSE AsmReciprocal(ins, randomx_reciprocal(ins.imm))
Asm_ISWAP_R(ins) == IF ins.src # ins.dst THEN <<<<"xchg", ins.dst, ins.src>>>> ELSE <<>>

Asm_FSWAP_R(ins) == <<<<"fswap", ins.dst>>>>
AsmFloat(name, dst, ins) == <<<<name, dst, AReg(ins.src)>>>>
AsmFloatMemory(name, dst, ins) == AsmAddressReg(ins, Rax) \o <<<<"fcvt", FTmp, Rax>>, <<name, dst, FTmp>>>>
Asm_FADD_R(ins) == AsmFloat("fadd", FReg(ins.dst), ins)
Asm_FSUB_R(ins) == AsmFloat("fsub", FReg(ins.dst), ins)
Asm_FMUL_R(ins) == AsmFloat("fmul", EReg(ins.dst), ins)
Asm_FADD_M(ins) == AsmFloatMemory("fadd", FReg(ins.dst), ins)
Asm_FSUB_M(ins) == AsmFloatMemory("fsub", FReg(ins.dst), ins)
Asm_FDIV_M(ins) ==
  AsmAddressReg(ins, Rax) \o <<<<"fcvt", FTmp, Rax>>, <<"fmask", FTmp>>, <<"fdiv", EReg(ins.dst), FTmp>>>>
Asm_FSCAL_R(ins) == <<<<"fscale", FReg(ins.dst)>>>>
Asm_FSQRT_R(ins) == <<<<"fsqrt", EReg(ins.dst)>>>>
Asm_CFROUND(ins) ==
  LET rotate == (RoundShift - (ins.imm % WordBits)) % WordBits
  IN <<<<"mov", Rax, ins.src>>>>
     \o (IF rotate # 0 THEN <<<<"roli", Rax, Rax, rotate>>>> ELSE <<>>)
     \o <<<<"round", 0, Rax, RoundShift>>>>
Asm_CBRANCH(ins, c) ==
  LET shift == getModCond(ins) + JumpOffset
      set == (ins.imm | 2^shift)
      imm == IF JumpOffset > 0 \/ shift > 0 THEN (set & (2^ImmBits - 1 - 2^(shift - 1))) ELSE set
      label == c.offsets[c.usage[ins.dst] + 2]
  IN <<<<"addi", ins.dst, ins.dst, signExtend(imm)>>,
       <<"jz", label, ins.dst, signExtend(ConditionMask * 2^shift)>>>>
Asm_ISTORE(ins) == AsmAddressRegDst(ins) \o <<<<"store", ins.src, Rax>>>>
Asm_NOP == <<>>

AsmInteger(ins) ==
  CASE ins.op = "IADD_RS" -> Asm_IADD_RS(ins)     [] ins.op = "IADD_M" -> Asm_IADD_M(ins)
    [] ins.op = "ISUB_R" -> Asm_ISUB_R(ins)       [] ins.op = "ISUB_M" -> Asm_ISUB_M(ins)
    [] ins.op = "IMUL_R" -> Asm_IMUL_R(ins)       [] ins.op = "IMUL_M" -> Asm_IMUL_M(ins)
    [] ins.op = "IMULH_R" -> Asm_IMULH_R(ins)     [] ins.op = "IMULH_M" -> Asm_IMULH_M(ins)
    [] ins.op = "ISMULH_R" -> Asm_ISMULH_R(ins)   [] ins.op = "ISMULH_M" -> Asm_ISMULH_M(ins)
    [] ins.op = "IMUL_RCP" -> Asm_IMUL_RCP(ins)   [] ins.op = "INEG_R" -> Asm_INEG_R(ins)
    [] ins.op = "IXOR_R" -> Asm_IXOR_R(ins)       [] ins.op = "IXOR_M" -> Asm_IXOR_M(ins)
    [] ins.op = "IROR_R" -> Asm_IROR_R(ins)       [] ins.op = "IROL_R" -> Asm_IROL_R(ins)
    [] ins.op = "ISWAP_R" -> Asm_ISWAP_R(ins)
AsmFloating(ins) ==
  CASE ins.op = "FSWAP_R" -> Asm_FSWAP_R(ins)     [] ins.op = "FADD_R" -> Asm_FADD_R(ins)
    [] ins.op = "FADD_M" -> Asm_FADD_M(ins)       [] ins.op = "FSUB_R" -> Asm_FSUB_R(ins)
    [] ins.op = "FSUB_M" -> Asm_FSUB_M(ins)       [] ins.op = "FSCAL_R" -> Asm_FSCAL_R(ins)
    [] ins.op = "FMUL_R" -> Asm_FMUL_R(ins)       [] ins.op = "FDIV_M" -> Asm_FDIV_M(ins)
    [] ins.op = "FSQRT_R" -> Asm_FSQRT_R(ins)
AsmCode(ins, c) ==
  CASE ins.op = "CFROUND" -> Asm_CFROUND(ins)
    [] ins.op = "CBRANCH" -> Asm_CBRANCH(ins, c)
    [] ins.op = "ISTORE" -> Asm_ISTORE(ins)
    [] ins.op = "NOP" -> Asm_NOP
    [] ins.op \in OpsFloating -> AsmFloating(ins)
    [] OTHER -> AsmInteger(ins)

\* What the handlers enter in registerUsage.
AsmTouches(ins) ==
  CASE ins.op = "CBRANCH" -> AllRegisters
    [] ins.op = "IMUL_RCP" -> {r \in {ins.dst} : ~isZeroOrPowerOf2(ins.imm)}
    [] ins.op = "ISWAP_R" -> {r \in {ins.dst, ins.src} : ins.src # ins.dst}
    [] ins.op \in OpsFloating \cup {"CFROUND", "ISTORE", "NOP"} -> {}
    [] OTHER -> {ins.dst}

\* generateProgram for instruction i (from 0): its label, then its lines.
AsmCompile(ins, i, c) ==
  LET at == [c EXCEPT !.offsets = Append(@, Here(c))]
  IN [Emit(at, AsmCode(ins, at)) EXCEPT !.usage = Touch(@, AsmTouches(ins), i)]

(***************************************************************************)
(* Superscalar programs, as assembly and as C; rcp is the reciprocal of an   *)
(* IMUL_RCP, computed from the divisor.                                     *)
(***************************************************************************)
generateAsm(ins, rcp) ==
  CASE ins.op = "ISUB_R" -> AsmBinary("sub", ins, ins.src)
    [] ins.op = "IXOR_R" -> AsmBinary("xor", ins, ins.src)
    [] ins.op = "IADD_RS" -> <<<<"adds", ins.dst, ins.dst, ins.src, getModShift(ins)>>>>
    [] ins.op = "IMUL_R" -> AsmBinary("mul", ins, ins.src)
    [] ins.op = "IROR_C" -> AsmBinary("rori", ins, ins.imm % WordBits)
    [] ins.op = "IADD_C" -> AsmBinary("addi", ins, signExtend(ins.imm))
    [] ins.op = "IXOR_C" -> AsmBinary("xori", ins, signExtend(ins.imm))
    [] ins.op = "IMULH_R" -> AsmWide("mulh", ins, ins.src)
    [] ins.op = "ISMULH_R" -> AsmWide("smulh", ins, ins.src)
    [] ins.op = "IMUL_RCP" -> AsmReciprocal(ins, rcp)
\* rotr without an intrinsic: (a >> b) | (a << (64 - b)).
CRotate(ins) ==
  <<<<"srli", Rax, ins.dst, ins.imm>>, <<"slli", Rcx, ins.dst, WordBits - ins.imm>>,
    <<"or", ins.dst, Rax, Rcx>>>>
generateC(ins, rcp) ==
  CASE ins.op = "ISUB_R" -> AsmBinary("sub", ins, ins.src)
    [] ins.op = "IXOR_R" -> AsmBinary("xor", ins, ins.src)
    [] ins.op = "IADD_RS" ->
         <<<<"movi", Rax, 0, 2^getModShift(ins)>>, <<"mul", Rax, ins.src, Rax>>>> \o AsmBinary("add", ins, Rax)
    [] ins.op = "IMUL_R" -> AsmBinary("mul", ins, ins.src)
    [] ins.op = "IROR_C" -> CRotate(ins)
    [] ins.op = "IADD_C" -> AsmBinary("addi", ins, signExtend(ins.imm))
    [] ins.op = "IXOR_C" -> AsmBinary("xori", ins, signExtend(ins.imm))
    [] ins.op = "IMULH_R" -> AsmBinary("mulh", ins, ins.src)
    [] ins.op = "ISMULH_R" -> AsmBinary("smulh", ins, ins.src)
    [] ins.op = "IMUL_RCP" -> AsmReciprocal(ins, rcp)
=============================================================================
