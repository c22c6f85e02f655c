----------------------------- MODULE RxPrograms -----------------------------
(***************************************************************************)
(* One RandomX program on every back end at once: the portable interpreter   *)
(* (bytecode_machine.cpp), the compilers for x86-64, AArch64 and RISC-V and   *)
(* the generators of text go through it instruction by instruction, then run  *)
(* it in step.  An item is a list of superscalar programs, each ended by      *)
(* "MIX"; it is compiled when the list is complete, because its reciprocals   *)
(* are numbered first.                                                       *)
(***************************************************************************)
EXTENDS RxItems

CONSTANTS
  Alphabet,     \* without and with RANDOMX_FLAG_V2, the instructions of programs of one instruction
  LoopAlphabet, \* the instructions of longer programs
  MaxLength,    \* bound: instructions of a program
  ItemAlphabet, \* the superscalar instructions of items of one instruction
  ItemLoop,     \* the superscalar instructions of longer items
  MaxItem,      \* bound: instructions of an item
  Items,        \* the dataset items computed
  Seeds         \* register values a program starts from

ASSUME AlphabetsFit == /\ LoopAlphabet \subseteq Alphabet[FALSE] /\ ItemLoop \subseteq ItemAlphabet
                       /\ MaxLength \in Nat \ {0} /\ MaxItem \in Nat \ {0}
                       /\ DOMAIN Alphabet \subseteq BOOLEAN

VARIABLES
  kind,      \* "program" or "item"
  v2,        \* the flag the program is compiled and run with
  program,   \* the instructions so far
  bytecode,  \* the interpreter's records
  usage,     \* the interpreter's registerUsage
  comp,      \* per compiler, its state and code
  phase,     \* "compile", "run" or "done"
  pc,        \* the interpreter's next instruction, from 0
  ref,       \* the interpreter's registers, memory and rounding mode
  machine,   \* per compiler, the processor running its code
  taken      \* ghost: how often each branch has jumped

vars == <<kind, v2, program, bytecode, usage, comp, phase, pc, ref, machine, taken>>
compiled == <<kind, v2, program, bytecode, usage, comp>>

\* The text generators have no V2 form of CFROUND; C exists for items only.
Compilers ==
  {"x86", "a64", "rv64", "rv64b", "rv64v", "rv64vb"}
  \cup (IF kind = "item" THEN {"asm", "c"} ELSE IF v2 THEN {} ELSE {"asm"})

Compile(k, ins, i, c) ==
  CASE k = "x86" -> X86Compile(ins, i, c, v2)
    [] k = "asm" -> AsmCompile(ins, i, c)
    [] k = "a64" -> A64Compile(ins, c, v2)
    [] k = "rv64" -> RvCompile(ins, i, c, v2, FALSE)
    [] k = "rv64b" -> RvCompile(ins, i, c, v2, TRUE)
    [] k = "rv64v" -> RvvCompile(ins, c, v2, FALSE)
    [] k = "rv64vb" -> RvvCompile(ins, c, v2, TRUE)
\* A branch target is a position where it is entered behind the code that wrote.
Opened(k) ==
  CASE k = "a64" -> A64Start(NewCompiler)
    [] k \in {"rv64v", "rv64vb"} -> RvvStart(NewCompiler)
    [] OTHER -> NewCompiler

FirstFloat(n) == (n * 37 + 11) % FloatRange
\* The registers are replaced for an item.
Loaded(seed) ==
  [r |-> [n \in 0 .. 14 |-> IF kind = "program" /\ n < RegistersCount THEN seed[n] ELSE 0],
   f |-> [n \in 0 .. 12 |-> FirstFloat(n)], m |-> << >>, rm |-> 0, pos |-> 1]

Init ==
  /\ kind \in {"program", "item"}
  /\ v2 \in DOMAIN Alphabet /\ (kind = "item" => ~v2)
  /\ program = <<>> /\ bytecode = <<>> /\ usage = NoUsage
  /\ comp = [k \in Compilers |-> Opened(k)]
  /\ phase = "compile" /\ pc = 0 /\ taken = <<>>
  /\ ref = << >> /\ machine = << >>

\* generateCode and compileInstruction for the next instruction.
Generate(ins) ==
  /\ kind = "program" /\ phase = "compile" /\ Len(program) < MaxLength
  /\ program # <<>> => ToSet(Append(program, ins)) \subseteq LoopAlphabet
  /\ LET i == Len(program) IN
     /\ program' = Append(program, ins)
     /\ bytecode' = Append(bytecode, compileInstruction(ins, usage))
     /\ usage' = Touch(usage, Written(ins), i)
     /\ comp' = [k \in Compilers |-> Compile(k, ins, i, comp[k])]
  /\ UNCHANGED <<kind, v2, phase, pc, ref, machine, taken>>

Start(seed) ==
  /\ kind = "program" /\ phase = "compile" /\ program # <<>>
  /\ phase' = "run" /\ pc' = 0
  /\ ref' = Loaded(seed)
  /\ machine' = [k \in Compilers |-> Loaded(seed)]
  /\ taken' = [i \in DOMAIN program |-> 0]
  /\ UNCHANGED compiled

\* generateSuperscalar adds an instruction; r5 is no destination of IADD_RS there.
GenerateItem(ins) ==
  /\ kind = "item" /\ phase = "compile" /\ Len(program) < MaxItem
  /\ program # <<>> => ToSet(Append(program, ins)) \subseteq ItemLoop
  /\ ~(ins.op = "IADD_RS" /\ ins.dst = RegisterNeedsDisplacement)
  /\ program' = Append(program, ins)
  /\ UNCHANGED <<kind, v2, bytecode, usage, comp, phase, pc, ref, machine, taken>>

\* initCache and generateSuperscalarHash, then the start of initDatasetItem.
StartItem(item) ==
  /\ kind = "item" /\ phase = "compile" /\ program # <<>>
  /\ phase' = "run" /\ pc' = 0
  /\ bytecode' = Numbered(program)
  /\ LET rcps == ReciprocalCache(program) IN
     /\ comp' = [k \in Compilers |-> CompileItem(k, Numbered(program), rcps)]
     /\ machine' = [k \in Compilers |-> [Loaded(item) EXCEPT !.r = ItemRegisters(k, item, rcps)]]
  /\ ref' = [Loaded(item) EXCEPT !.r = ItemStart(item)]
  /\ taken' = [i \in DOMAIN program |-> 0]
  /\ UNCHANGED <<kind, v2, program, usage>>

\* Where the code of instruction i (from 0) starts; behind the last, the end.
Offset(k, i) == IF i < Len(program) THEN comp[k].offsets[i + 1] ELSE Here(comp[k])

\* executeBytecode or executeSuperscalar, and the code of the same instruction
\* on each processor.
Step ==
  /\ phase = "run" /\ pc < Len(program)
  /\ IF kind = "program"
     THEN /\ ref' = executeInstruction(bytecode[pc + 1], ref, v2)
          /\ pc' = NextPc(bytecode[pc + 1], pc, ref')
     ELSE /\ ref' = executeSuperscalar(bytecode[pc + 1], ref, ReciprocalCache(program))
          /\ pc' = pc + 1
  /\ machine' = [k \in Compilers |->
       RunWhile(comp[k], machine[k], Offset(k, pc) .. Offset(k, pc + 1) - 1)]
  /\ taken' = [taken EXCEPT ![pc + 1] = @ + (IF pc' <= pc THEN 1 ELSE 0)]
  /\ UNCHANGED <<compiled, phase>>

Finish ==
  /\ phase = "run" /\ pc = Len(program)
  /\ phase' = "done"
  /\ UNCHANGED <<compiled, pc, ref, machine, taken>>

Next ==
  \/ \E ins \in Alphabet[v2] : Generate(ins)
  \/ \E seed \in Seeds : Start(seed)
  \/ \E ins \in ItemAlphabet : GenerateItem(ins)
  \/ \E item \in Items : StartItem(item)
  \/ Step
  \/ Finish

Spec == Init /\ [][Next]_vars

---------------------------------------------------------------------------
Running == phase # "compile"

\* The interpreter stays within its types: words in the registers, a rounding
\* mode of two bits, a position inside the program.
TypeOK ==
  /\ phase \in {"compile", "run", "done"} /\ v2 \in BOOLEAN
  /\ pc \in 0 .. Len(program)
  /\ kind = "program" \/ Running => Len(bytecode) = Len(program)
  /\ usage \in [AllRegisters -> -1 .. MaxLength - 1]
  /\ Running => /\ \A n \in AllRegisters : ref.r[n] \in Word
                /\ ref.rm \in 0 .. 3
                /\ \A a \in DOMAIN ref.m : ref.m[a] \in Word

AsInterpreter(k) ==
  /\ \A n \in AllRegisters : machine[k].r[n] = ref.r[n]
  /\ \A n \in 0 .. 11 : machine[k].f[n] = ref.f[n]
  /\ machine[k].m = ref.m /\ machine[k].rm = ref.rm

\* Every compiler's code leaves the registers, the floats, the memory and the
\* rounding mode the interpreter leaves, after every instruction of a program: a
\* hash does not depend on the processor it is computed on.
SameResult == Running /\ kind = "program" => \A k \in Compilers : AsInterpreter(k)

\* The same for the superscalar programs of a dataset item, whose reciprocals each
\* compiler keeps in a pool of its own and finds again by counting: a dataset does
\* not depend on the processor that builds it, and light mode agrees with it.
SameItem == Running /\ kind = "item" => \A k \in Compilers : AsInterpreter(k)

\* Every compiler's code stands at the instruction the interpreter stands at:
\* the usage tables of the compilers give a branch the same target,
\* whatever they skip (a swap with itself, a reciprocal of a power of 2).
SameTarget == Running => \A k \in Compilers : machine[k].pos = Offset(k, pc)

\* A hash depends on the program and the dataset alone, wherever it is computed.
SameEverywhere == TypeOK /\ SameResult /\ SameItem /\ SameTarget

\* A branch jumps at most twice in a row ("this limits the number of successive
\* jumps to 2", bytecode_machine.cpp:437), so a program ends within three times
\* its length.
JumpsBounded == Running => \A i \in DOMAIN program : taken[i] <= 2
=============================================================================
