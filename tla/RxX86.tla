------------------------------- MODULE RxX86 -------------------------------
(***************************************************************************)
(* The x86-64 compiler (jit_compiler_x86.cpp): the handler of each opcode   *)
(* as the instructions it emits.  Registers r8-r15 hold r0-r7, xmm0-11 the  *)
(* floats.  An address is formed with the ModRM and SIB bytes the handlers   *)
(* choose, and read by the processor's rules: base 5 without a displacement  *)
(* byte count means no base, base 4 always takes a SIB byte.                 *)
(***************************************************************************)
EXTENDS RxCpu

Rax == 8
Rcx == 9
Rdx == 10
MemVal == 11         \* a memory operand
Garbage == 12345     \* an operand taken from bytes that are not one

\* lea d, [base + (index << scale)] (mod 0) or with a displacement (mod 2).
LeaSib(d, mod, base, index, scale, disp) ==
  IF mod = 0 /\ base = 5 THEN <<<<"movi", d, d, Garbage>>>>
  ELSE <<<<"adds", d, base, index, scale>>>>
       \o (IF mod = 2 THEN <<<<"addi", d, d, signExtend(disp)>>>> ELSE <<>>)
\* lea d, [base + disp], with or without a SIB byte.
LeaDisp(d, base, sib, disp) ==
  IF (base = 4) # sib THEN <<<<"movi", d, d, Garbage>>>>
  ELSE <<<<"addi", d, base, signExtend(disp)>>>>

X86AddressReg(ins, t) ==
  LeaDisp(t, ins.src, ins.src = RegisterNeedsSib, ins.imm)
  \o <<<<"andi", t, t, IF getModMem(ins) # 0 THEN ScratchpadL1Mask ELSE ScratchpadL2Mask>>>>
X86AddressRegDst(ins) ==
  LeaDisp(Rax, ins.dst, ins.dst = RegisterNeedsSib, ins.imm)
  \o <<<<"andi", Rax, Rax, IF getModCond(ins) >= StoreL3 THEN ScratchpadL3Mask
                           ELSE IF getModMem(ins) # 0 THEN ScratchpadL1Mask
                           ELSE ScratchpadL2Mask>>>>
X86AddressImm(ins) == (ins.imm & ScratchpadL3Mask)

\* The memory operand of an integer instruction, left in MemVal.
X86Operand(ins, t) ==
  IF ins.src # ins.dst THEN X86AddressReg(ins, t) \o <<<<"load", MemVal, t, 0>>>>
  ELSE <<<<"loadi", MemVal, 0, X86AddressImm(ins)>>>>

X86Name == [IADD_M |-> "add", ISUB_R |-> "sub", ISUB_M |-> "sub", IMUL_R |-> "mul",
            IMUL_M |-> "mul", IXOR_R |-> "xor", IXOR_M |-> "xor",
            IMULH_R |-> "mulh", IMULH_M |-> "mulh", ISMULH_R |-> "smulh", ISMULH_M |-> "smulh",
            IROR_R |-> "ror", IROL_R |-> "rol",
            FADD_R |-> "fadd", FADD_M |-> "fadd", FSUB_R |-> "fsub", FSUB_M |-> "fsub",
            FMUL_R |-> "fmul", FDIV_M |-> "fdiv"]
X86NameImm == [ISUB_R |-> "subi", IMUL_R |-> "muli", IXOR_R |-> "xori",
               IROR_R |-> "rori", IROL_R |-> "roli"]

X86_IADD_RS(ins) ==
  LeaSib(ins.dst, IF ins.dst = RegisterNeedsDisplacement THEN 2 ELSE 0, ins.dst, ins.src,
         getModShift(ins), ins.imm)
X86_Memory(ins) == X86Operand(ins, Rax) \o <<<<X86Name[ins.op], ins.dst, ins.dst, MemVal>>>>
X86_Register(ins) ==
  IF ins.src # ins.dst THEN <<<<X86Name[ins.op], ins.dst, ins.dst, ins.src>>>>
  ELSE <<<<X86NameImm[ins.op], ins.dst, ins.dst, signExtend(ins.imm)>>>>
\* mul and imul take rax and leave the high word in rdx.
X86_High(ins) ==
  <<<<"mov", Rax, ins.dst>>, <<X86Name[ins.op], Rdx, Rax, ins.src>>, <<"mov", ins.dst, Rdx>>>>
X86_HighMemory(ins) ==
  X86Operand(ins, Rcx)
  \o <<<<"mov", Rax, ins.dst>>, <<X86Name[ins.op], Rdx, Rax, MemVal>>, <<"mov", ins.dst, Rdx>>>>
X86_IMUL_RCP(ins) ==
  IF isZeroOrPowerOf2(ins.imm) THEN <<>>
  ELSE <<<<"movi", Rax, 0, 2^(WordBits - 1 + BitLength(ins.imm)) \div ins.imm>>,
         <<"mul", ins.dst, ins.dst, Rax>>>>
X86_Rotate(ins) ==
  IF ins.src # ins.dst
  THEN <<<<"mov", Rcx, ins.src>>, <<X86Name[ins.op], ins.dst, ins.dst, Rcx>>>>
  ELSE <<<<X86NameImm[ins.op], ins.dst, ins.dst, ins.imm % WordBits>>>>
X86_ISWAP_R(ins) == IF ins.src # ins.dst THEN <<<<"xchg", ins.dst, ins.src>>>> ELSE <<>>
X86FloatDst(ins) == FltReg(ins.dst) + (IF ins.op \in {"FMUL_R", "FDIV_M", "FSQRT_R"} THEN 4 ELSE 0)
X86_Float(ins) == <<<<X86Name[ins.op], X86FloatDst(ins), 8 + FltReg(ins.src)>>>>
X86_FloatMemory(ins) ==
  X86AddressReg(ins, Rax) \o <<<<"fcvt", FTmp, Rax>>>>
  \o (IF ins.op = "FDIV_M" THEN <<<<"fmask", FTmp>>>> ELSE <<>>)
  \o <<<<X86Name[ins.op], X86FloatDst(ins), FTmp>>>>

\* mxcsr has its rounding bits at RoundShift (13); with V2 the test of the four
\* bits above them reads eax, the low half of rax.
RoundShift == ImmBits \div 4
X86_CFROUND(ins, c, v2) ==
  LET rotate == (RoundShift - (ins.imm % WordBits)) % WordBits
      turned == <<<<"mov", Rax, ins.src>>>>
                \o (IF rotate # 0 THEN <<<<"roli", Rax, Rax, rotate>>>> ELSE <<>>)
      test == IF v2 THEN <<<<"jnz", Here(c) + Len(turned) + 2, Rax, 60 * 2^RoundShift>>>> ELSE <<>>
  IN turned \o test \o <<<<"round", 0, Rax, RoundShift>>>>

X86Imm(ins) ==
  LET shift == getModCond(ins) + JumpOffset   set == (ins.imm | 2^shift)
  IN IF JumpOffset > 0 \/ shift > 0 THEN (set & (2^ImmBits - 1 - 2^(shift - 1))) ELSE set
X86_CBRANCH(ins, c) ==
  LET mask == signExtend(ConditionMask * 2^(getModCond(ins) + JumpOffset))
  IN <<<<"addi", ins.dst, ins.dst, signExtend(X86Imm(ins))>>,
       <<"jz", c.offsets[c.usage[ins.dst] + 2], ins.dst, mask>>>>
X86_ISTORE(ins) == X86AddressRegDst(ins) \o <<<<"store", ins.src, Rax>>>>

X86_AddSub(ins) ==
  CASE ins.op = "IADD_RS" -> X86_IADD_RS(ins)
    [] ins.op = "ISUB_R" -> X86_Register(ins)
    [] OTHER -> X86_Memory(ins)
X86_Multiply(ins) ==
  CASE ins.op = "IMUL_R" -> X86_Register(ins)
    [] ins.op = "IMUL_M" -> X86_Memory(ins)
    [] ins.op \in OpsHigh -> X86_High(ins)
    [] ins.op = "IMUL_RCP" -> X86_IMUL_RCP(ins)
    [] OTHER -> X86_HighMemory(ins)
X86_Logic(ins) ==
  CASE ins.op = "INEG_R" -> <<<<"neg", ins.dst, ins.dst>>>>
    [] ins.op = "IXOR_R" -> X86_Register(ins)
    [] ins.op = "IXOR_M" -> X86_Memory(ins)
    [] ins.op \in OpsRotate -> X86_Rotate(ins)
    [] OTHER -> X86_ISWAP_R(ins)
X86_Floating(ins) ==
  CASE ins.op = "FSWAP_R" -> <<<<"fswap", ins.dst>>>>
    [] ins.op = "FSCAL_R" -> <<<<"fscale", FltReg(ins.dst)>>>>
    [] ins.op = "FSQRT_R" -> <<<<"fsqrt", X86FloatDst(ins)>>>>
    [] ins.op \in OpsFloat -> X86_Float(ins)
    [] OTHER -> X86_FloatMemory(ins)
X86Code(ins, c, v2) ==
  CASE ins.op \in OpsAddSub -> X86_AddSub(ins)
    [] ins.op \in OpsMultiply -> X86_Multiply(ins)
    [] ins.op \in OpsLogic -> X86_Logic(ins)
    [] ins.op \in OpsFloating -> X86_Floating(ins)
    [] ins.op = "CFROUND" -> X86_CFROUND(ins, c, v2)
    [] ins.op = "CBRANCH" -> X86_CBRANCH(ins, c)
    [] ins.op = "ISTORE" -> X86_ISTORE(ins)
    [] OTHER -> <<>>

\* The registers a handler enters in registerUsage.
X86Touches(ins) ==
  CASE ins.op = "CBRANCH" -> AllRegisters
    [] ins.op = "IMUL_RCP" -> IF isZeroOrPowerOf2(ins.imm) THEN {} ELSE {ins.dst}
    [] ins.op = "ISWAP_R" -> IF ins.src # ins.dst THEN {ins.dst, ins.src} ELSE {}
    [] ins.op \in OpsMemory \cup OpsRegister \cup OpsHigh \cup OpsRotate
                  \cup {"IADD_RS", "INEG_R"} -> {ins.dst}
    [] OTHER -> {}

\* generateCode: instruction i (from 0) of the program.
X86Compile(ins, i, c, v2) ==
  LET at == [c EXCEPT !.offsets = Append(@, Here(c))]
  IN [Emit(at, X86Code(ins, at, v2)) EXCEPT !.usage = Touch(@, X86Touches(ins), i)]
=============================================================================
