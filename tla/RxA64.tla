------------------------------- MODULE RxA64 -------------------------------
(***************************************************************************)
(* The AArch64 compiler (jit_compiler_a64.cpp).  Its usage table holds the  *)
(* position behind the last code that wrote a register.  Immediates are      *)
(* split by what an instruction can hold: MovBits (16) in a move, twice      *)
(* AddBits (12) in additions; the first MaxLit (64) that fit neither are      *)
(* literals the loop keeps in vector registers.                              *)
(***************************************************************************)
EXTENDS RxCpu

CONSTANT MaxLit

MovBits == ImmBits \div 2
AddBits == (3 * ImmBits) \div 8

A64Start(c) == [c EXCEPT !.usage = [n \in DOMAIN @ |-> Here(c)]]
A64Negative(imm) == imm >= 2^(ImmBits - 1)

emitMovImmediate(c, d, imm) ==
  LET high == imm \div 2^MovBits   low == imm % 2^MovBits
      inverted == (2^ImmBits - 1 - imm) \div 2^MovBits
  IN IF imm < 2^MovBits THEN Emit(c, <<<<"movi", d, d, imm>>>>)
     ELSE IF Len(c.lit) < MaxLit
     THEN [Emit(c, <<<<IF A64Negative(imm) THEN "lits" ELSE "lit", d, d, Len(c.lit)>>>>)
             EXCEPT !.lit = Append(@, imm)]
     ELSE Emit(c, <<<<"movi", d, d, IF A64Negative(imm) THEN Inverted(inverted * 2^MovBits)
                                    ELSE high * 2^MovBits>>,
                    <<"movk", d, d, low>>>>)

emitAddImmediate(c, d, a, imm) ==
  LET low == imm % 2^AddBits   high == imm - low IN
  IF imm >= 2^(2 * AddBits)
  THEN Emit(emitMovImmediate(c, Tmp, imm), <<<<"add", d, a, Tmp>>>>)
  ELSE IF low # 0 /\ high # 0
  THEN Emit(c, <<<<"addi", d, a, low>>, <<"addi", d, d, high>>>>)
  ELSE IF low # 0 THEN Emit(c, <<<<"addi", d, a, low>>>>)
  ELSE Emit(c, <<<<"addi", d, a, high>>>>)

A64Level(ins) == IF getModMem(ins) # 0 THEN L1Bits ELSE L2Bits
\* Tmp := the address base + imm within a level of the scratchpad.
A64Address(c, base, imm, bits) ==
  Emit(emitAddImmediate(c, Tmp, base, imm % 2^bits), <<<<"andi", Tmp, Tmp, LevelMask(bits)>>>>)

emitMemLoad(c, ins) ==
  IF ins.src # ins.dst
  THEN Emit(A64Address(c, ins.src, ins.imm, A64Level(ins)), <<<<"load", Tmp, Tmp, 0>>>>)
  ELSE Emit(emitMovImmediate(c, Tmp, (ins.imm & ScratchpadL3Mask) \div 2^AlignBits),
            <<<<"slli", Tmp, Tmp, AlignBits>>, <<"load", Tmp, Tmp, 0>>>>)
emitMemLoadFP(c, ins) ==
  Emit(A64Address(c, ins.src, ins.imm, A64Level(ins)), <<<<"fcvt", FTmp, Tmp>>>>)

A64Name == [IADD_M |-> "add", ISUB_M |-> "sub", IMUL_R |-> "mul", IMUL_M |-> "mul",
            IXOR_R |-> "xor", IXOR_M |-> "xor", IMULH_R |-> "mulh", IMULH_M |-> "mulh",
            ISMULH_R |-> "smulh", ISMULH_M |-> "smulh",
            FADD_R |-> "fadd", FADD_M |-> "fadd", FSUB_R |-> "fsub", FSUB_M |-> "fsub",
            FMUL_R |-> "fmul", FDIV_M |-> "fdiv"]

A64_IADD_RS(c, ins) ==
  LET added == Emit(c, <<<<"adds", ins.dst, ins.dst, ins.src, getModShift(ins)>>>>)
  IN IF ins.dst = RegisterNeedsDisplacement THEN emitAddImmediate(added, ins.dst, ins.dst, ins.imm)
     ELSE added
A64_Memory(c, ins) == Emit(emitMemLoad(c, ins), <<<<A64Name[ins.op], ins.dst, ins.dst, Tmp>>>>)
\* mutant: 0x80000000 is negated as any other immediate
A64_ISUB_R_Negated(c, ins) ==
  IF ins.src # ins.dst THEN Emit(c, <<<<"sub", ins.dst, ins.dst, ins.src>>>>)
  ELSE emitAddImmediate(c, ins.dst, ins.dst, (-ins.imm) % 2^ImmBits)
A64_ISUB_R(c, ins) ==
  IF ins.src # ins.dst THEN Emit(c, <<<<"sub", ins.dst, ins.dst, ins.src>>>>)
  ELSE IF ins.imm = 2^(ImmBits - 1)
  THEN Emit(c, <<<<"movi", Tmp, Tmp, 2^(ImmBits - 1)>>, <<"add", ins.dst, ins.dst, Tmp>>>>)
  ELSE emitAddImmediate(c, ins.dst, ins.dst, (-ins.imm) % 2^ImmBits)
A64_Register(c, ins) ==   \* IMUL_R, IXOR_R
  IF ins.src # ins.dst THEN Emit(c, <<<<A64Name[ins.op], ins.dst, ins.dst, ins.src>>>>)
  ELSE Emit(emitMovImmediate(c, Tmp, ins.imm), <<<<A64Name[ins.op], ins.dst, ins.dst, Tmp>>>>)
\* The reciprocal is literal Len(c.rcp), in a register of its own or loaded.
A64_IMUL_RCP(c, ins) ==
  IF isZeroOrPowerOf2(ins.imm) THEN c
  ELSE [Emit(c, <<<<"rcp", Tmp, Tmp, Len(c.rcp)>>, <<"mul", ins.dst, ins.dst, Tmp>>>>)
          EXCEPT !.rcp = Append(@, randomx_reciprocal(ins.imm))]
A64_IROR_R(ins) ==
  IF ins.src # ins.dst THEN <<<<"ror", ins.dst, ins.dst, ins.src>>>>
  ELSE <<<<"rori", ins.dst, ins.dst, ins.imm % WordBits>>>>
A64_IROL_R(ins) ==
  IF ins.src # ins.dst THEN <<<<"neg", Tmp, ins.src>>, <<"ror", ins.dst, ins.dst, Tmp>>>>
  ELSE <<<<"rori", ins.dst, ins.dst, (-ins.imm) % WordBits>>>>
A64_ISWAP_R(ins) ==
  IF ins.src = ins.dst THEN <<>>
  ELSE <<<<"mov", Tmp, ins.dst>>, <<"mov", ins.dst, ins.src>>, <<"mov", ins.src, Tmp>>>>
A64FloatDst(ins) == FltReg(ins.dst) + (IF ins.op \in {"FMUL_R", "FDIV_M", "FSQRT_R"} THEN 4 ELSE 0)
A64_FloatMemory(c, ins) ==
  Emit(emitMemLoadFP(c, ins),
       (IF ins.op = "FDIV_M" THEN <<<<"fmask", FTmp>>>> ELSE <<>>)
       \o <<<<A64Name[ins.op], A64FloatDst(ins), FTmp>>>>)
A64_CBRANCH(c, ins) ==
  LET shift == getModCond(ins) + JumpOffset
      imm == ((ins.imm | 2^shift) & (2^ImmBits - 1 - 2^(shift - 1)))
  IN Emit(emitAddImmediate(c, ins.dst, ins.dst, imm),
          <<<<"jz", c.usage[ins.dst], ins.dst, ConditionMask * 2^shift>>>>)
A64_CFROUND(c, ins, v2) ==
  Emit(c, <<<<"rori", Tmp, ins.src, ins.imm % WordBits>>>>
          \o (IF v2 THEN <<<<"jnz", Here(c) + 3, Tmp, 60>>>> ELSE <<>>)
          \o <<<<"round", 0, Tmp, 0>>>>)
A64_ISTORE(c, ins) ==
  Emit(A64Address(c, ins.dst, ins.imm, IF getModCond(ins) < StoreL3 THEN A64Level(ins) ELSE L3Bits),
       <<<<"store", ins.src, Tmp>>>>)

A64_Plain(c, ins) == Emit(c, <<<<A64Name[ins.op], ins.dst, ins.dst, ins.src>>>>)
A64_AddSub(c, ins) ==
  CASE ins.op = "IADD_RS" -> A64_IADD_RS(c, ins)
    [] ins.op = "ISUB_R" -> A64_ISUB_R(c, ins)
    [] OTHER -> A64_Memory(c, ins)
A64_Multiply(c, ins) ==
  CASE ins.op = "IMUL_R" -> A64_Register(c, ins)
    [] ins.op \in OpsHigh -> A64_Plain(c, ins)
    [] OTHER -> A64_Memory(c, ins)
A64_Logic(c, ins) ==
  CASE ins.op = "INEG_R" -> Emit(c, <<<<"neg", ins.dst, ins.dst>>>>)
    [] ins.op = "IXOR_R" -> A64_Register(c, ins)
    [] ins.op = "IXOR_M" -> A64_Memory(c, ins)
    [] ins.op = "IROR_R" -> Emit(c, A64_IROR_R(ins))
    [] ins.op = "IROL_R" -> Emit(c, A64_IROL_R(ins))
    [] OTHER -> Emit(c, A64_ISWAP_R(ins))
A64_Floating(c, ins) ==
  CASE ins.op = "FSWAP_R" -> Emit(c, <<<<"fswap", ins.dst>>>>)
    [] ins.op = "FSCAL_R" -> Emit(c, <<<<"fscale", FltReg(ins.dst)>>>>)
    [] ins.op = "FSQRT_R" -> Emit(c, <<<<"fsqrt", A64FloatDst(ins)>>>>)
    [] ins.op \in OpsFloat ->
         Emit(c, <<<<A64Name[ins.op], A64FloatDst(ins), 8 + FltReg(ins.src)>>>>)
    [] OTHER -> A64_FloatMemory(c, ins)
A64Code(c, ins, v2) ==
  CASE ins.op \in OpsAddSub -> A64_AddSub(c, ins)
    [] ins.op = "IMUL_RCP" -> A64_IMUL_RCP(c, ins)
    [] ins.op \in OpsMultiply \ {"IMUL_RCP"} -> A64_Multiply(c, ins)
    [] ins.op \in OpsLogic -> A64_Logic(c, ins)
    [] ins.op \in OpsFloating -> A64_Floating(c, ins)
    [] ins.op = "CFROUND" -> A64_CFROUND(c, ins, v2)
    [] ins.op = "CBRANCH" -> A64_CBRANCH(c, ins)
    [] ins.op = "ISTORE" -> A64_ISTORE(c, ins)
    [] OTHER -> c

\* The registers whose reg_changed_offset a handler sets.
A64Touches(ins) ==
  CASE ins.op = "CBRANCH" -> AllRegisters
    [] ins.op = "IMUL_RCP" -> IF isZeroOrPowerOf2(ins.imm) THEN {} ELSE {ins.dst}
    [] ins.op = "ISWAP_R" -> IF ins.src = ins.dst THEN {} ELSE {ins.src, ins.dst}
    [] ins.op \in OpsMemory \cup OpsRegister \cup OpsHigh \cup OpsRotate
                  \cup {"IADD_RS", "INEG_R"} -> {ins.dst}
    [] OTHER -> {}

A64Compile(ins, c, v2) ==
  LET done == A64Code([c EXCEPT !.offsets = Append(@, Here(c))], ins, v2)
  IN [done EXCEPT !.usage = Touch(@, A64Touches(ins), Here(done))]
=============================================================================
