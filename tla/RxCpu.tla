------------------------------- MODULE RxCpu -------------------------------
(***************************************************************************)
(* The processors the compilers emit code for, as far as that code    *)
(* uses them.  An emitted instruction is a tuple <<op, d, a, b>>: d a        *)
(* destination register, a and b registers or, in the forms ending in "i",   *)
(* a word.  Integer registers 0-7 hold the program's registers, the others   *)
(* are scratch registers of the compilers; float registers 0-11 hold f, e   *)
(* and a, 12 is scratch.  A processor state is an interpreter state with     *)
(* the larger register file, the position pos in the code and the literals   *)
(* lit and rcp the code can load from.                                       *)
(***************************************************************************)
EXTENDS RxInterpreter

CONSTANT CacheLines   \* CacheSize / CacheLineSize
ASSUME CacheNotEmpty == CacheLines \in Nat \ {0}

Tmp == 8        \* scratch integer register
Tmp2 == 9
FTmp == 12      \* scratch float register
Line == 14      \* registerValue: selects the cache line a dataset item is mixed with

\* getMixBlock and the xor with the line.
MixBlock(value, n) == Fresh((value % CacheLines) * RegistersCount + n)
Mixed(s) ==
  [s EXCEPT !.r = [n \in DOMAIN @ |-> IF n \in AllRegisters THEN (@[n] ^^ MixBlock(@[Line], n)) ELSE @[n]]]

\* Exact products, as hardware multiplies.
CpuMulh(a, b) == (a * Hi(b) + (a * Lo(b)) \div 2^HalfBits) \div 2^HalfBits
CpuSmulh(a, b) ==
  LET s == Signed(a)   h == Signed(b) \div 2^HalfBits
  IN Wrap((s * h + (s * Lo(b)) \div 2^HalfBits) \div 2^HalfBits)
CpuRor(x, n) == LET k == n % WordBits IN Wrap(Shr(x, k) + (IF k = 0 THEN 0 ELSE Shl(x, WordBits - k)))

\* A 32 bit operation leaves the sign extended low half.
Narrow(x) == signExtend(x % 2^ImmBits)

Value(ins, r, lit, rcp) ==
  LET a == r[ins[3]]   b == r[ins[4]] IN
  CASE ins[1] = "add" -> Wrap(a + b)
    [] ins[1] = "addi" -> Wrap(a + ins[4])
    [] ins[1] = "addw" -> Narrow(a + ins[4])
    [] ins[1] = "adds" -> Wrap(a + Shl(r[ins[4]], ins[5]))
    [] ins[1] = "sub" -> Wrap(a - b)
    [] ins[1] = "subi" -> Wrap(a - ins[4])
    [] ins[1] = "neg" -> Wrap(-a)
    [] ins[1] = "mul" -> Mul(a, b)
    [] ins[1] = "muli" -> Mul(a, ins[4])
    [] ins[1] = "mulh" -> CpuMulh(a, b)
    [] ins[1] = "smulh" -> CpuSmulh(a, b)
    [] ins[1] = "xor" -> a ^^ b
    [] ins[1] = "xori" -> a ^^ ins[4]
    [] ins[1] = "or" -> (a | b)
    [] ins[1] = "and" -> (a & b)
    [] ins[1] = "andi" -> (a & ins[4])
    [] ins[1] = "ror" -> CpuRor(a, b)
    [] ins[1] = "rori" -> CpuRor(a, ins[4])
    [] ins[1] = "rol" -> CpuRor(a, -b)
    [] ins[1] = "roli" -> CpuRor(a, -ins[4])
    [] ins[1] = "sll" -> Shl(a, b % WordBits)
    [] ins[1] = "srl" -> Shr(a, b % WordBits)
    [] ins[1] = "slli" -> Shl(a, ins[4])
    [] ins[1] = "srli" -> Shr(a, ins[4])
    [] ins[1] = "mov" -> a
    [] ins[1] = "movi" -> ins[4]
    [] ins[1] = "movk" -> (a - (a % 2^(ImmBits \div 2))) + ins[4]   \* the low half of an immediate
    [] ins[1] = "lit" -> lit[ins[4] + 1]                        \* literal loaded zero extended
    [] ins[1] = "lits" -> signExtend(lit[ins[4] + 1])           \* literal loaded sign extended
    [] ins[1] = "rcp" -> rcp[ins[4] + 1]
    [] ins[1] = "litp" ->                                       \* literal at an address
         LET at == Wrap(a + ins[4]) IN IF at \in DOMAIN lit THEN lit[at] ELSE 0

FloatValue(ins, s) ==
  CASE ins[1] = "fadd" -> Mix(1, s.f[ins[2]], s.f[ins[3]], s.rm)
    [] ins[1] = "fsub" -> Mix(2, s.f[ins[2]], s.f[ins[3]], s.rm)
    [] ins[1] = "fmul" -> Mix(3, s.f[ins[2]], s.f[ins[3]], s.rm)
    [] ins[1] = "fdiv" -> Mix(4, s.f[ins[2]], s.f[ins[3]], s.rm)
    [] ins[1] = "fsqrt" -> Mix(5, s.f[ins[2]], 0, s.rm)
    [] ins[1] = "fswap" -> FSwap(s.f[ins[2]])
    [] ins[1] = "fscale" -> FScale(s.f[ins[2]])
    [] ins[1] = "fmask" -> FMaskE(s.f[ins[2]])
    [] ins[1] = "fcvt" -> FConvert(Load(s.m, s.r[ins[3]]))

FloatCode == {"fadd", "fsub", "fmul", "fdiv", "fsqrt", "fswap", "fscale", "fmask", "fcvt"}

\* One emitted instruction; every form but a branch goes on to the next.
Execute(ins, s, lit, rcp) ==
  LET n == [s EXCEPT !.pos = @ + 1] IN
  CASE ins[1] \in FloatCode -> [n EXCEPT !.f[ins[2]] = FloatValue(ins, s)]
    [] ins[1] = "load" -> [n EXCEPT !.r[ins[2]] = Load(s.m, Wrap(s.r[ins[3]] + ins[4]))]
    [] ins[1] = "loadi" -> [n EXCEPT !.r[ins[2]] = Load(s.m, ins[4])]
    [] ins[1] = "store" -> [n EXCEPT !.m = Store(@, s.r[ins[3]], s.r[ins[2]])]
    [] ins[1] = "xchg" -> [n EXCEPT !.r[ins[2]] = s.r[ins[3]], !.r[ins[3]] = s.r[ins[2]]]
    [] ins[1] = "jz" -> IF (s.r[ins[3]] & ins[4]) = 0 THEN [s EXCEPT !.pos = ins[2]] ELSE n
    [] ins[1] = "jnz" -> IF (s.r[ins[3]] & ins[4]) # 0 THEN [s EXCEPT !.pos = ins[2]] ELSE n
    [] ins[1] = "mix" -> Mixed(n)
    [] ins[1] = "jump" -> [s EXCEPT !.pos = ins[2]]
    [] ins[1] = "round" -> [n EXCEPT !.rm = Shr(s.r[ins[3]], ins[4]) % 4]
    [] OTHER -> [n EXCEPT !.r[ins[2]] = Value(ins, s.r, lit, rcp)]

\* The code from s.pos on, until it leaves the positions of one instruction or
\* branches back.
RECURSIVE RunWhile(_, _, _)
RunWhile(c, s, bounds) ==
  IF s.pos \notin bounds THEN s
  ELSE LET n == Execute(c.code[s.pos], s, c.lit, c.rcp)
       IN IF n.pos <= s.pos THEN n ELSE RunWhile(c, n, bounds)

(***************************************************************************)
(* What a compiler keeps while it goes through a program: the code so far,   *)
(* the position where each instruction starts, the register usage table and  *)
(* the literals it placed.                                                  *)
(***************************************************************************)
NewCompiler == [code |-> <<>>, offsets |-> <<>>, usage |-> NoUsage, lit |-> <<>>, rcp |-> <<>>]
Here(c) == Len(c.code) + 1
Emit(c, code) == [c EXCEPT !.code = @ \o code]
=============================================================================
