--------------------------- MODULE RxInterpreter ---------------------------
(***************************************************************************)
(* The portable back end (bytecode_machine.cpp): an instruction becomes a   *)
(* bytecode record once per program and the record is executed each time    *)
(* the instruction is reached.  registerUsage[r] is the last instruction    *)
(* that wrote r, and the target of a branch on r.                           *)
(***************************************************************************)
EXTENDS RxIsa

NoUsage == [n \in 0 .. RegistersCount - 1 |-> -1]
Touch(usage, regs, i) == [n \in DOMAIN usage |-> IF n \in regs THEN i ELSE usage[n]]
AllRegisters == 0 .. RegistersCount - 1

OpsRegister == {"ISUB_R", "IMUL_R", "IXOR_R"}   \* src = dst: the immediate
OpsRotate == {"IROR_R", "IROL_R"}
OpsMemory == {"IADD_M", "ISUB_M", "IMUL_M", "IMULH_M", "ISMULH_M", "IXOR_M"}
OpsHigh == {"IMULH_R", "ISMULH_R"}
OpsFloat == {"FADD_R", "FSUB_R", "FMUL_R"}
OpsFloatMemory == {"FADD_M", "FSUB_M", "FDIV_M"}
\* The groups the source lists the instructions in.
OpsAddSub == {"IADD_RS", "IADD_M", "ISUB_R", "ISUB_M"}
OpsMultiply == {"IMUL_R", "IMUL_M", "IMULH_R", "IMULH_M", "ISMULH_R", "ISMULH_M", "IMUL_RCP"}
OpsLogic == {"INEG_R", "IXOR_R", "IXOR_M", "IROR_R", "IROL_R", "ISWAP_R"}
OpsFloating == OpsFloat \cup OpsFloatMemory \cup {"FSWAP_R", "FSCAL_R", "FSQRT_R"}

MemMask(ins) == IF getModMem(ins) # 0 THEN ScratchpadL1Mask ELSE ScratchpadL2Mask
\* Operand s of a bytecode: a register, an immediate or the constant 0.
Register(n) == [kind |-> "reg", of |-> n]
Literal(v) == [kind |-> "imm", of |-> v]
SourceOr(ins, imm) == IF ins.src # ins.dst THEN Register(ins.src) ELSE Literal(imm)

BranchImm(ins) ==
  LET shift == getModCond(ins) + JumpOffset
      set == (signExtend(ins.imm) | 2^shift)
  IN IF JumpOffset > 0 \/ shift > 0 THEN (set & Inverted(2^(shift - 1))) ELSE set
BranchMask(ins) == ConditionMask * 2^(getModCond(ins) + JumpOffset)

Code(type, ins, src, imm, mask, shift) ==
  [type |-> type, dst |-> ins.dst, src |-> src, imm |-> imm, mask |-> mask, shift |-> shift]
NopCode(ins) == Code("NOP", ins, Literal(0), 0, 0, 0)

CompileMemory(ins) ==
  Code(ins.op, ins, SourceOr(ins, 0), signExtend(ins.imm),
       IF ins.src # ins.dst THEN MemMask(ins) ELSE ScratchpadL3Mask, 0)
CompileRegister(ins, imm) == Code(ins.op, ins, SourceOr(ins, imm), 0, 0, 0)
CompilePlain(ins) == Code(ins.op, ins, Register(ins.src), 0, 0, 0)

CompileAddSub(ins) ==
  CASE ins.op = "IADD_RS" ->
         Code("IADD_RS", ins, Register(ins.src),
              IF ins.dst = RegisterNeedsDisplacement THEN signExtend(ins.imm) ELSE 0, 0, getModShift(ins))
    [] ins.op = "ISUB_R" -> CompileRegister(ins, signExtend(ins.imm))
    [] OTHER -> CompileMemory(ins)
CompileMultiply(ins) ==
  CASE ins.op = "IMUL_R" -> CompileRegister(ins, signExtend(ins.imm))
    [] ins.op \in OpsHigh -> CompilePlain(ins)
    [] ins.op = "IMUL_RCP" ->
         IF isZeroOrPowerOf2(ins.imm) THEN NopCode(ins)
         ELSE Code("IMUL_R", ins, Literal(randomx_reciprocal(ins.imm)), 0, 0, 0)
    [] OTHER -> CompileMemory(ins)
CompileLogic(ins) ==
  CASE ins.op = "IXOR_R" -> CompileRegister(ins, signExtend(ins.imm))
    [] ins.op \in OpsRotate -> CompileRegister(ins, ins.imm)
    [] ins.op = "ISWAP_R" -> IF ins.src = ins.dst THEN NopCode(ins) ELSE CompilePlain(ins)
    [] ins.op = "INEG_R" -> CompilePlain(ins)
    [] OTHER -> CompileMemory(ins)
CompileFloating(ins) ==
  IF ins.op \in OpsFloatMemory
  THEN Code(ins.op, ins, Register(ins.src), signExtend(ins.imm), MemMask(ins), 0)
  ELSE CompilePlain(ins)
compileInstruction(ins, usage) ==
  CASE ins.op \in OpsAddSub -> CompileAddSub(ins)
    [] ins.op \in OpsMultiply -> CompileMultiply(ins)
    [] ins.op \in OpsLogic -> CompileLogic(ins)
    [] ins.op \in OpsFloating -> CompileFloating(ins)
    [] ins.op = "CBRANCH" ->
         Code("CBRANCH", ins, Literal(0), BranchImm(ins), BranchMask(ins), usage[ins.dst])
    [] ins.op = "CFROUND" -> Code("CFROUND", ins, Register(ins.src), ins.imm % WordBits, 0, 0)
    [] ins.op = "ISTORE" ->
         Code("ISTORE", ins, Register(ins.src), signExtend(ins.imm),
              IF getModCond(ins) < StoreL3 THEN MemMask(ins) ELSE ScratchpadL3Mask, 0)
    [] OTHER -> NopCode(ins)

\* The registers an instruction marks as written.
Written(ins) ==
  CASE ins.op = "CBRANCH" -> AllRegisters
    [] ins.op = "IMUL_RCP" /\ isZeroOrPowerOf2(ins.imm) -> {}
    [] ins.op = "ISWAP_R" -> IF ins.src = ins.dst THEN {} ELSE {ins.dst, ins.src}
    [] ins.op \in OpsMemory \cup OpsRegister \cup OpsRotate \cup OpsHigh
                  \cup {"IADD_RS", "INEG_R", "IMUL_RCP"} -> {ins.dst}
    [] OTHER -> {}

Operand(s, src) == IF src.kind = "reg" THEN s.r[src.of] ELSE src.of
getScratchpadAddress(ibc, s) == (Wrap(Operand(s, ibc.src) + ibc.imm) & ibc.mask)

\* mutant: a carry is kept
SetRegWide(s, n, v) == [s EXCEPT !.r[n] = v + 2^WordBits * (v % 2)]
SetReg(s, n, v) == [s EXCEPT !.r[n] = v]
SetFloat(s, n, v) == [s EXCEPT !.f[n] = v]

Arithmetic(op, d, v) ==
  CASE op \in {"IADD_M"} -> Wrap(d + v)
    [] op \in {"ISUB_R", "ISUB_M"} -> Wrap(d - v)
    [] op \in {"IMUL_R", "IMUL_M"} -> Mul(d, v)
    [] op \in {"IMULH_R", "IMULH_M"} -> mulh(d, v)
    [] op \in {"ISMULH_R", "ISMULH_M"} -> smulh(d, v)
    [] op \in {"IXOR_R", "IXOR_M"} -> d ^^ v
    [] op = "IROR_R" -> rotr(d, v % WordBits)
    [] op = "IROL_R" -> rotl(d, v % WordBits)

FloatOps == [FADD_R |-> 1, FADD_M |-> 1, FSUB_R |-> 2, FSUB_M |-> 2, FMUL_R |-> 3, FDIV_M |-> 4]
FloatDst(op, n) == IF op \in {"FMUL_R", "FDIV_M", "FSQRT_R"} THEN EReg(n) ELSE FReg(n)
Float(op, s, n, v) == Mix(FloatOps[op], s.f[FloatDst(op, n)], v, s.rm)

ExecuteInteger(ibc, s) ==
  LET d == ibc.dst   v == Operand(s, ibc.src)   t == ibc.type IN
  CASE t = "IADD_RS" -> SetReg(s, d, Wrap(s.r[d] + Shl(v, ibc.shift) + ibc.imm))
    [] t \in OpsMemory -> SetReg(s, d, Arithmetic(t, s.r[d], Load(s.m, getScratchpadAddress(ibc, s))))
    [] t = "INEG_R" -> SetReg(s, d, Wrap(Inverted(s.r[d]) + 1))
    [] t = "ISWAP_R" -> SetReg(SetReg(s, ibc.src.of, s.r[d]), d, v)
    [] OTHER -> SetReg(s, d, Arithmetic(t, s.r[d], v))
ExecuteFloating(ibc, s) ==
  LET d == ibc.dst   t == ibc.type IN
  CASE t = "FSWAP_R" -> SetFloat(s, d, FSwap(s.f[d]))
    [] t \in OpsFloat ->
         SetFloat(s, FloatDst(t, d), Float(t, s, d, s.f[AReg(ibc.src.of)]))
    [] t \in OpsFloatMemory ->
         LET w == FConvert(Load(s.m, getScratchpadAddress(ibc, s)))
         IN SetFloat(s, FloatDst(t, d), Float(t, s, d, IF t = "FDIV_M" THEN FMaskE(w) ELSE w))
    [] t = "FSCAL_R" -> SetFloat(s, FReg(d), FScale(s.f[FReg(d)]))
    [] t = "FSQRT_R" -> SetFloat(s, EReg(d), Mix(5, s.f[EReg(d)], 0, s.rm))
exe_CFROUND(ibc, s, v2) ==
  LET x == rotr(Operand(s, ibc.src), ibc.imm)
  IN IF v2 /\ (x & 60) # 0 THEN s ELSE [s EXCEPT !.rm = x % 4]
exe_ISTORE(ibc, s) ==
  [s EXCEPT !.m = Store(@, (Wrap(s.r[ibc.dst] + ibc.imm) & ibc.mask), Operand(s, ibc.src))]

\* One bytecode executed in state s: registers r, floats f, memory m,
\* rounding mode rm; v2 is RANDOMX_FLAG_V2.
executeInstruction(ibc, s, v2) ==
  CASE ibc.type \in OpsAddSub \cup OpsMultiply \cup OpsLogic -> ExecuteInteger(ibc, s)
    [] ibc.type \in OpsFloating -> ExecuteFloating(ibc, s)
    [] ibc.type = "CBRANCH" -> SetReg(s, ibc.dst, Wrap(s.r[ibc.dst] + ibc.imm))
    [] ibc.type = "CFROUND" -> exe_CFROUND(ibc, s, v2)
    [] ibc.type = "ISTORE" -> exe_ISTORE(ibc, s)
    [] OTHER -> s

\* The instruction after ibc at pc, once it has been executed into s.
NextPc(ibc, pc, s) ==
  IF ibc.type = "CBRANCH" /\ (s.r[ibc.dst] & ibc.mask) = 0 THEN ibc.shift + 1 ELSE pc + 1
=============================================================================
