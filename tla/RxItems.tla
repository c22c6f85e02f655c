------------------------------ MODULE RxItems ------------------------------
(***************************************************************************)
(* Dataset items: the superscalar programs of a cache executed one after    *)
(* the other on eight registers (executeSuperscalar of superscalar.cpp,     *)
(* initDatasetItem of dataset.cpp) and the code the compilers emit for them. *)
(* "MIX" ends a program: the registers are mixed with a cache line and the   *)
(* address register of the program selects the next line.                   *)
(*                                                                         *)
(* Every IMUL_RCP has its reciprocal in a pool, in program order.  x86-64    *)
(* holds it in the code; AArch64 and RISC-V load it, RISC-V one instruction   *)
(* ahead through a pool pointer whose reach is ReachWords literals.          *)
(***************************************************************************)
EXTENDS RxAsm, RxA64, RxRv64Vector, FiniteSets

CONSTANT
  ReachWords    \* literals an offset of 12 signed bits reaches: 512

ASSUME PoolsFit == ReachWords \in Nat \ {0, 1} /\ ReachWords % 2 = 0

NextRcp == 12       \* the reciprocal loaded ahead (x31)
Pool == 13          \* the pool pointer (x30, x15)
PoolStart == 4 * ReachWords

OpsPlain == {"ISUB_R", "IXOR_R", "IMUL_R", "IMULH_R", "ISMULH_R"}
OpsConstant == {"IADD_C", "IXOR_C"}   \* the C7, C8 and C9 forms, which differ in length only
PlainName == [ISUB_R |-> "sub", IXOR_R |-> "xor", IMUL_R |-> "mul", IMULH_R |-> "mulh",
              ISMULH_R |-> "smulh", IADD_C |-> "add", IXOR_C |-> "xor"]

ItemConstant(n) == Wrap(n * 14057 + 9298)
\* initDatasetItem before the first program.
ItemStart(item) ==
  LET r0 == Mul(Wrap(item + 1), 32557) IN
  [n \in 0 .. 14 |->
     IF n = 0 THEN r0 ELSE IF n < RegistersCount THEN (r0 ^^ ItemConstant(n))
     ELSE IF n = Line THEN item ELSE IF n = Pool THEN PoolStart ELSE 0]

\* initCache: the immediate of an IMUL_RCP becomes its place in reciprocalCache.
Numbered(program) ==
  [i \in DOMAIN program |->
     IF program[i].op = "IMUL_RCP"
     THEN [program[i] EXCEPT !.imm = Cardinality({k \in 1 .. i - 1 : program[k].op = "IMUL_RCP"})]
     ELSE program[i]]
ReciprocalCache(program) ==
  LET rcps == SelectSeq(program, LAMBDA ins : ins.op = "IMUL_RCP")
  IN [k \in DOMAIN rcps |-> randomx_reciprocal(rcps[k].imm)]

executeSuperscalar(ins, s, rcps) ==
  LET d == s.r[ins.dst]   v == s.r[ins.src] IN
  CASE ins.op \in OpsPlain -> SetReg(s, ins.dst, Arithmetic(ins.op, d, v))
    [] ins.op = "IADD_RS" -> SetReg(s, ins.dst, Wrap(d + Shl(v, getModShift(ins))))
    [] ins.op = "IROR_C" -> SetReg(s, ins.dst, rotr(d, ins.imm))
    [] ins.op = "IADD_C" -> SetReg(s, ins.dst, Wrap(d + signExtend(ins.imm)))
    [] ins.op = "IXOR_C" -> SetReg(s, ins.dst, (d ^^ signExtend(ins.imm)))
    [] ins.op = "IMUL_RCP" -> SetReg(s, ins.dst, Mul(d, rcps[ins.imm + 1]))
    [] ins.op = "MIX" -> LET m == Mixed(s) IN SetReg(m, Line, m.r[ins.dst])

PlainCode(ins) == <<<<PlainName[ins.op], ins.dst, ins.dst, ins.src>>>>
\* The line is read and the next one selected; the last program selects none
\* on x86-64 and RISC-V.
MixCode(ins, last) == <<<<"mix">>>> \o (IF last THEN <<>> ELSE <<<<"mov", Line, ins.dst>>>>)

X86SuperscalarCode(ins, rcps, last) ==
  CASE ins.op \in {"ISUB_R", "IXOR_R", "IMUL_R"} -> PlainCode(ins)
    [] ins.op = "IADD_RS" -> LeaSib(ins.dst, 0, ins.dst, ins.src, getModShift(ins), 0)
    [] ins.op = "IROR_C" -> <<<<"rori", ins.dst, ins.dst, ins.imm % WordBits>>>>
    [] ins.op = "IADD_C" -> <<<<"addi", ins.dst, ins.dst, signExtend(ins.imm)>>>>
    [] ins.op = "IXOR_C" -> <<<<"xori", ins.dst, ins.dst, signExtend(ins.imm)>>>>
    [] ins.op \in OpsHigh -> X86_High(ins)
    [] ins.op = "IMUL_RCP" -> <<<<"movi", Rax, 0, rcps[ins.imm + 1]>>, <<"mul", ins.dst, ins.dst, Rax>>>>
    [] ins.op = "MIX" -> MixCode(ins, last)

\* No literal registers are left: num32bitLiterals = 64 makes every immediate a move.
A64SuperscalarCode(ins, c) ==
  LET none == [NewCompiler EXCEPT !.lit = [n \in 1 .. MaxLit |-> 0]]
      code == CASE ins.op \in OpsPlain -> PlainCode(ins)
                [] ins.op = "IADD_RS" -> <<<<"adds", ins.dst, ins.dst, ins.src, getModShift(ins)>>>>
                [] ins.op = "IROR_C" -> <<<<"rori", ins.dst, ins.dst, ins.imm % WordBits>>>>
                [] ins.op = "IADD_C" -> emitAddImmediate(none, ins.dst, ins.dst, ins.imm).code
                [] ins.op = "IXOR_C" ->
                     Emit(emitMovImmediate(none, Tmp, ins.imm), <<<<"xor", ins.dst, ins.dst, Tmp>>>>).code
                [] ins.op = "IMUL_RCP" -> <<<<"rcp", Tmp, Tmp, Len(c.rcp)>>, <<"mul", ins.dst, ins.dst, Tmp>>>>
                [] ins.op = "MIX" -> MixCode(ins, FALSE)
  IN code

\* mutant: the pool pointer moves before the load
emitRcpLiteral2Late(count, total) ==
  LET offset == ReachWords \div 2 - 1 - count - 1
      low == ((offset + ReachWords \div 2) % ReachWords) - ReachWords \div 2
  IN IF count + 1 >= total THEN <<>>
     ELSE (IF low = -(ReachWords \div 2) THEN <<<<"addi", Pool, Pool, -ReachWords>>>> ELSE <<>>)
          \o <<<<"litp", NextRcp, Pool, low>>>>
emitRcpLiteral2(count, total) ==
  LET offset == ReachWords \div 2 - 1 - count - 1
      low == ((offset + ReachWords \div 2) % ReachWords) - ReachWords \div 2
  IN IF count + 1 >= total THEN <<>>
     ELSE <<<<"litp", NextRcp, Pool, low>>>>
          \o (IF low = -(ReachWords \div 2) THEN <<<<"addi", Pool, Pool, -ReachWords>>>> ELSE <<>>)
RvSuperscalarCode(ins, c, total, zb, last) ==
  CASE ins.op \in OpsPlain -> PlainCode(ins)
    [] ins.op = "IADD_RS" -> Rv_IADD_RS([ins EXCEPT !.imm = 0], zb)
    [] ins.op = "IROR_C" -> RvTurnImm(ins.dst, zb, ins.imm % WordBits)
    [] ins.op = "IADD_C" -> emitImm32(RvSigned(ins.imm), ins.dst, ins.dst, Tmp)
    [] ins.op = "IXOR_C" -> emitImm32(RvSigned(ins.imm), Tmp, Zero, Zero) \o <<<<"xor", ins.dst, ins.dst, Tmp>>>>
    [] ins.op = "IMUL_RCP" ->
         <<<<"mul", ins.dst, ins.dst, NextRcp>>>> \o emitRcpLiteral2(Len(c.rcp), total)
    [] ins.op = "MIX" -> MixCode(ins, last)

\* generateDatasetInitVectorRV64, one of its lanes; the pool pointer moves once
\* ReachWords - 1 literals (2040 bytes) are behind it.
RvvSuperscalarCode(ins, c, zb, last) ==
  LET reach == ReachWords - 1
      moves == Len(c.rcp) > 0 /\ Len(c.rcp) % reach = 0
      wide == <<<<"movi", Tmp, Tmp, Narrow(High(ins.imm))>>, <<"addw", Tmp, Tmp, SignedLow(ins.imm, LowBits)>>>>
  IN CASE ins.op \in OpsPlain -> PlainCode(ins)
       [] ins.op = "IADD_RS" /\ getModShift(ins) = 0 -> <<<<"add", ins.dst, ins.dst, ins.src>>>>
       [] ins.op = "IADD_RS" -> <<<<"slli", Tmp, ins.src, getModShift(ins)>>, <<"add", ins.dst, ins.dst, Tmp>>>>
       [] ins.op = "IROR_C" /\ zb -> <<<<"rori", ins.dst, ins.dst, ins.imm % WordBits>>>>
       [] ins.op = "IROR_C" ->
            <<<<"srli", Tmp, ins.dst, ins.imm % WordBits>>,
              <<"slli", ins.dst, ins.dst, (WordBits - (ins.imm % WordBits)) % WordBits>>,
              <<"or", ins.dst, Tmp, ins.dst>>>>
       [] ins.op \in OpsConstant -> wide \o <<<<PlainName[ins.op], ins.dst, ins.dst, Tmp>>>>
       [] ins.op = "IMUL_RCP" ->
            (IF moves THEN <<<<"addi", Pool, Pool, reach>>>> ELSE <<>>)
            \o <<<<"litp", Tmp, Pool, Len(c.rcp) % reach>>, <<"mul", ins.dst, ins.dst, Tmp>>>>
       [] ins.op = "MIX" -> MixCode(ins, last)

SuperscalarCode(k, ins, c, rcps, last) ==
  CASE k = "x86" -> X86SuperscalarCode(ins, rcps, last)
    [] k = "a64" -> A64SuperscalarCode(ins, c)
    [] k = "rv64" -> RvSuperscalarCode(ins, c, Len(rcps), FALSE, last)
    [] k = "rv64b" -> RvSuperscalarCode(ins, c, Len(rcps), TRUE, last)
    [] k = "rv64v" -> RvvSuperscalarCode(ins, c, FALSE, last)
    [] k = "rv64vb" -> RvvSuperscalarCode(ins, c, TRUE, last)
    [] ins.op = "MIX" -> MixCode(ins, last)   \* behind generated text
    [] k = "asm" -> generateAsm(ins, IF ins.op = "IMUL_RCP" THEN rcps[ins.imm + 1] ELSE 0)
    [] k = "c" -> generateC(ins, IF ins.op = "IMUL_RCP" THEN rcps[ins.imm + 1] ELSE 0)

\* The literals as they lie in memory, by address: RISC-V goes down from the
\* middle of its last pool, the vectors go up.
Placed(k, rcps) ==
  IF k \in {"rv64", "rv64b"}
  THEN [a \in {PoolStart + ReachWords \div 2 - 1 - n : n \in 0 .. Len(rcps) - 1} |->
          rcps[PoolStart + ReachWords \div 2 - a]]
  ELSE [a \in {PoolStart + n : n \in 0 .. Len(rcps) - 1} |-> rcps[a - PoolStart + 1]]

\* generateSuperscalarHash over the whole list of programs.
CompileItem(k, program, rcps) ==
  LET one(c, i) ==
        LET at == [c EXCEPT !.offsets = Append(@, Here(c))]
            ins == program[i]
        IN [Emit(at, SuperscalarCode(k, ins, at, rcps, i = Len(program)))
              EXCEPT !.rcp = IF ins.op = "IMUL_RCP" THEN Append(@, rcps[ins.imm + 1]) ELSE @]
  IN [FoldLeftDomain(LAMBDA c, i : one(c, i), NewCompiler, program) EXCEPT !.lit = Placed(k, rcps)]

\* RISC-V enters the code with the first literal loaded.
ItemRegisters(k, item, rcps) ==
  [ItemStart(item) EXCEPT ![NextRcp] = IF k \in {"rv64", "rv64b"} /\ rcps # <<>> THEN rcps[1] ELSE 0]
=============================================================================
