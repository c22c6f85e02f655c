--------------------------- MODULE RxSuperscalar ---------------------------
(***************************************************************************)
(* The generator of superscalar programs (superscalar.cpp), the code every   *)
(* dataset item is computed with.  It simulates an x86 processor: a decoder   *)
(* that takes 16 bytes a cycle in slots of fixed sizes, three execution       *)
(* ports, and registers that become ready some cycles after they were         *)
(* written.  What the generator draws from Blake2Generator is left open, so   *)
(* the model ranges over every seed.                                          *)
(***************************************************************************)
EXTENDS Integers, Sequences, FiniteSets

CONSTANTS
  Registers,      \* bound: 8 in the code
  R5,             \* RegisterNeedsDisplacement
  Latency,        \* RANDOMX_SUPERSCALAR_LATENCY, 170 in the code
  LookForward,    \* LOOK_FORWARD_CYCLES
  MaxThrowaway,   \* MAX_THROWAWAY_COUNT, 256 in the code
  Draws           \* bound: the values of getUInt32 told apart as opGroupPar_

ASSUME GeneratorAssumption ==
  /\ R5 \in Registers /\ Draws \cap Registers = {}
  /\ Latency \in Nat \ {0} /\ LookForward \in Nat \ {0} /\ MaxThrowaway \in Nat

VARIABLES
  phase,        \* "fetch", "slot" or "done"
  decodeCycle, cycle, depCycle,
  buffer,       \* the slots of the decode buffer, <<>> before the first fetch
  bufferIndex,  \* the slot to fill, from 1
  current,      \* the instruction being issued
  macroOpIndex, \* its next macro-op, from 0
  portBusy,     \* per cycle, the ports taken
  registers,    \* per register, when it is ready and what wrote it last
  programSize, mulCount, throwAwayCount, portsSaturated,
  decoded,      \* ghost: the uops decoded from this buffer
  issued        \* ghost: the macro-op issued last, and when its operands were ready

generatorVars == <<phase, decodeCycle, cycle, depCycle, buffer, bufferIndex, current, macroOpIndex,
          portBusy, registers, programSize, mulCount, throwAwayCount, portsSaturated,
          decoded, issued>>

---------------------------------------------------------------------------
(* Macro-ops: the bytes they take, the cycles to their result and the ports   *)
(* of each of their uops.  A move has no uop to execute.                      *)
P01 == {"P0", "P1"}
P05 == {"P0", "P5"}
P015 == {"P0", "P1", "P5"}
MacroOp(size, latency, uops) == [size |-> size, latency |-> latency, uops |-> uops, dependent |-> FALSE]
Dependent(mop) == [mop EXCEPT !.dependent = TRUE]
Mov_rr == MacroOp(3, 0, <<>>)
Mul_r == MacroOp(3, 4, <<{"P1"}, {"P5"}>>)
Imul_rr == MacroOp(4, 3, <<{"P1"}>>)
Mov_ri64 == MacroOp(10, 1, <<P015>>)

\* SuperscalarInstructionInfo: macro-ops, and which of them (from 0) gives the
\* result, selects the destination and selects the source (-1: none does).
Info(ops, resultOp, dstOp, srcOp) ==
  [ops |-> ops, resultOp |-> resultOp, dstOp |-> dstOp, srcOp |-> srcOp]
InfoOf ==
  [ISUB_R   |-> Info(<<MacroOp(3, 1, <<P015>>)>>, 0, 0, 0),
   IXOR_R   |-> Info(<<MacroOp(3, 1, <<P015>>)>>, 0, 0, 0),
   IADD_RS  |-> Info(<<MacroOp(4, 1, <<P01>>)>>, 0, 0, 0),
   IMUL_R   |-> Info(<<Imul_rr>>, 0, 0, 0),
   IROR_C   |-> Info(<<MacroOp(4, 1, <<P05>>)>>, 0, 0, -1),
   IADD_C   |-> Info(<<MacroOp(7, 1, <<P015>>)>>, 0, 0, -1),
   IXOR_C   |-> Info(<<MacroOp(7, 1, <<P015>>)>>, 0, 0, -1),
   IMULH_R  |-> Info(<<Mov_rr, Mul_r, Mov_rr>>, 1, 0, 1),
   ISMULH_R |-> Info(<<Mov_rr, Mul_r, Mov_rr>>, 1, 0, 1),
   IMUL_RCP |-> Info(<<Mov_ri64, Dependent(Imul_rr)>>, 1, 1, -1),
   INVALID  |-> Info(<<>>, 0, 0, -1)]
Multiplications == {"IMUL_R", "IMULH_R", "ISMULH_R", "IMUL_RCP"}
High == {"IMULH_R", "ISMULH_R"}
WithSource == {"ISUB_R", "IXOR_R", "IADD_RS", "IMUL_R"}
OpGroup(type) == IF type = "ISUB_R" THEN "IADD_RS" ELSE type
SuperscalarMaxSize == 3 * Latency + 2

NoRegister == "none"
Instr(type, par) == [type |-> type, src |-> NoRegister, dst |-> NoRegister, par |-> par]
NullInstruction == Instr("INVALID", NoRegister)

(* The decoder.                                                              *)
Buffer484 == <<4, 8, 4>>
Buffer7333 == <<7, 3, 3, 3>>
Buffer3733 == <<3, 7, 3, 3>>
Buffer493 == <<4, 9, 3>>
Buffer4444 == <<4, 4, 4, 4>>
Buffer3310 == <<3, 3, 10>>

\* mutant: the multiplications are looked at first
fetchNextSaturating(type) ==
  IF mulCount < decodeCycle + 1 THEN {Buffer4444}
  ELSE IF type \in High THEN {Buffer3310}
  ELSE IF type = "IMUL_RCP" THEN {Buffer484, Buffer493}
  ELSE {Buffer484, Buffer7333, Buffer3733, Buffer493}
fetchNext(type) ==
  IF type \in High THEN {Buffer3310}
  ELSE IF mulCount < decodeCycle + 1 THEN {Buffer4444}
  ELSE IF type = "IMUL_RCP" THEN {Buffer484, Buffer493}
  ELSE {Buffer484, Buffer7333, Buffer3733, Buffer493}

SlotTypes(size, isLast) ==
  CASE size = 3 -> {"ISUB_R", "IXOR_R"} \cup (IF isLast THEN High ELSE {})
    [] size = 4 -> IF buffer = Buffer4444 /\ ~isLast THEN {"IMUL_R"} ELSE {"IROR_C", "IADD_RS"}
    [] size \in 7 .. 9 -> {"IXOR_C", "IADD_C"}
    [] size = 10 -> {"IMUL_RCP"}
createForSlot(size, isLast) ==
  UNION {IF type \in High THEN {Instr(type, d) : d \in Draws} ELSE {Instr(type, NoRegister)} :
           type \in SlotTypes(size, isLast)}

(* The ports.                                                                *)
CycleMapSize == Latency + 4
LeastCycle(S) == IF S = {} THEN -1 ELSE CHOOSE c \in S : \A d \in S : c <= d
FreePorts(uop, c) == uop \ portBusy[c]
\* scheduleMop<false>: the first cycle in which every uop has a port.
Scheduled(mop, from, dep) ==
  LET start == IF mop.dependent /\ dep > from THEN dep ELSE from IN
  IF mop.uops = <<>> THEN start
  ELSE LeastCycle({c \in start .. CycleMapSize - 1 :
                     \A u \in DOMAIN mop.uops : FreePorts(mop.uops[u], c) # {}})
\* The port scheduleUop takes: P5, else P0, else P1.
PortOf(uop, c) ==
  LET free == FreePorts(uop, c)
  IN IF "P5" \in free THEN "P5" ELSE IF "P0" \in free THEN "P0" ELSE "P1"
Commit(mop, c) ==
  IF mop.uops = <<>> THEN portBusy
  ELSE [portBusy EXCEPT ![c] = @ \cup {PortOf(mop.uops[u], c) : u \in DOMAIN mop.uops}]

(* The registers.                                                            *)
\* mutant: one cycle early
ReadyEarly(at) == {r \in Registers : registers[r].latency <= at + 1}
Ready(at) == {r \in Registers : registers[r].latency <= at}
\* selectSource: with two ready registers IADD_RS takes r5, its last chance.
Sources(i, at) ==
  LET ready == Ready(at)
  IN IF Cardinality(ready) = 2 /\ i.type = "IADD_RS" /\ R5 \in ready THEN {R5} ELSE ready
\* mutant: the last operation is not looked at
DestinationsAny(i, at) ==
  {r \in Ready(at) :
     /\ i.type \in High \/ r # i.src
     /\ i.type # "IADD_RS" \/ r # R5}
selectDestination(i, at) ==
  {r \in Ready(at) :
     /\ i.type \in High \/ r # i.src
     /\ throwAwayCount > 0 \/ i.type # "IMUL_R" \/ registers[r].group # "IMUL_R"
     /\ registers[r].group # OpGroup(i.type) \/ registers[r].par # i.par
     /\ i.type # "IADD_RS" \/ r # R5}
\* Cycles waited for an operand; LookForward when none became ready.
SourceStall(i, at) ==
  LeastCycle({f \in 0 .. LookForward - 1 : Sources(i, at + f) # {}} \cup {LookForward})
DestinationStall(i, at) ==
  LeastCycle({f \in 0 .. LookForward - 1 : selectDestination(i, at + f) # {}} \cup {LookForward})

---------------------------------------------------------------------------
NoIssue == [size |-> 0, slot |-> 0, at |-> 0, src |-> 0, dst |-> 0, repeats |-> FALSE]

GeneratorInit ==
  /\ phase = "fetch" /\ decodeCycle = 0 /\ cycle = 0 /\ depCycle = 0
  /\ buffer = <<>> /\ bufferIndex = 1 /\ current = NullInstruction /\ macroOpIndex = 0
  /\ portBusy = [c \in 0 .. CycleMapSize - 1 |-> {}]
  /\ registers = [r \in Registers |-> [latency |-> 0, group |-> "INVALID", par |-> NoRegister]]
  /\ programSize = 0 /\ mulCount = 0 /\ throwAwayCount = 0 /\ portsSaturated = FALSE
  /\ decoded = 0 /\ issued = NoIssue

Fetch ==
  /\ phase = "fetch"
  /\ decodeCycle < Latency /\ ~portsSaturated /\ programSize < SuperscalarMaxSize
  /\ buffer' \in fetchNext(current.type)
  /\ bufferIndex' = 1 /\ phase' = "slot" /\ decoded' = 0
  /\ UNCHANGED <<decodeCycle, cycle, depCycle, current, macroOpIndex, portBusy, registers,
                 programSize, mulCount, throwAwayCount, portsSaturated, issued>>

Finish ==
  /\ phase = "fetch"
  /\ decodeCycle >= Latency \/ portsSaturated \/ programSize >= SuperscalarMaxSize
  /\ phase' = "done" /\ issued' = NoIssue
  /\ UNCHANGED <<decodeCycle, cycle, depCycle, buffer, bufferIndex, current, macroOpIndex,
                 portBusy, registers, programSize, mulCount, throwAwayCount, portsSaturated, decoded>>

OpsOf(i) == InfoOf[i.type].ops
Issuing == macroOpIndex < Len(OpsOf(current))
\* The instruction whose macro-op goes to the slot: the current one, or a new one.
Candidates ==
  IF Issuing THEN {current}
  ELSE createForSlot(buffer[bufferIndex], bufferIndex = Len(buffer))
OpIndex == IF Issuing THEN macroOpIndex ELSE 0
Filling ==
  /\ phase = "slot" /\ bufferIndex <= Len(buffer)
  /\ Issuing \/ (~portsSaturated /\ programSize < SuperscalarMaxSize)

\* The buffer is used up, or no instruction may start any more.
EndBuffer ==
  /\ phase = "slot" /\ ~Filling
  /\ phase' = "fetch" /\ cycle' = cycle + 1 /\ decodeCycle' = decodeCycle + 1
  /\ issued' = NoIssue
  /\ UNCHANGED <<depCycle, buffer, bufferIndex, current, macroOpIndex, portBusy, registers,
                 programSize, mulCount, throwAwayCount, portsSaturated, decoded>>

\* No port is free for the macro-op before the end of the map: the program ends here.
Saturate(i) ==
  /\ Filling
  /\ Scheduled(OpsOf(i)[OpIndex + 1], cycle, depCycle) < 0
  /\ portsSaturated' = TRUE /\ phase' = "fetch"
  /\ current' = i /\ macroOpIndex' = OpIndex /\ issued' = NoIssue
  /\ cycle' = cycle + 1 /\ decodeCycle' = decodeCycle + 1
  /\ UNCHANGED <<depCycle, buffer, bufferIndex, portBusy, registers, programSize, mulCount,
                 throwAwayCount, decoded>>

\* mutant: no limit
DiscardAlways(i, stalled) ==
  /\ issued' = NoIssue /\ throwAwayCount' = throwAwayCount + 1
  /\ current' = i /\ macroOpIndex' = Len(OpsOf(i)) /\ cycle' = cycle + stalled
  /\ UNCHANGED <<phase, decodeCycle, depCycle, buffer, bufferIndex, portBusy, registers,
                 programSize, mulCount, portsSaturated, decoded>>
\* No register became ready in stalled cycles: throw the instruction away or,
\* after MaxThrowaway of them, give up the buffer.
Discard(i, stalled) ==
  /\ issued' = NoIssue
  /\ IF throwAwayCount < MaxThrowaway
     THEN /\ throwAwayCount' = throwAwayCount + 1
          /\ current' = i /\ macroOpIndex' = Len(OpsOf(i)) /\ cycle' = cycle + stalled
          /\ UNCHANGED <<phase, decodeCycle>>
     ELSE /\ current' = NullInstruction /\ phase' = "fetch" /\ decodeCycle' = decodeCycle + 1
          /\ macroOpIndex' = OpIndex /\ cycle' = cycle + stalled + 1
          /\ UNCHANGED throwAwayCount
  /\ UNCHANGED <<depCycle, buffer, bufferIndex, portBusy, registers, programSize, mulCount,
                 portsSaturated, decoded>>

ReadyAt(r) == IF r = NoRegister THEN 0 ELSE registers[r].latency
\* What the result of i is to the register it is written to.
Written(i, at) == [latency |-> at, group |-> OpGroup(i.type), par |-> i.par]

\* The macro-op goes to its ports at cycle at, the first that fits from then on.
Place(i, from) ==
  LET info == InfoOf[i.type]
      mop == info.ops[OpIndex + 1]
      at == Scheduled(mop, from, from)
      results == OpIndex = info.resultOp
      completes == OpIndex + 1 >= Len(info.ops)
  IN
  /\ throwAwayCount' = 0
  /\ current' = i
  /\ IF at < 0
     THEN /\ portsSaturated' = TRUE /\ phase' = "fetch" /\ macroOpIndex' = OpIndex
          /\ cycle' = cycle + 1 /\ decodeCycle' = decodeCycle + 1 /\ issued' = NoIssue
          /\ UNCHANGED <<depCycle, bufferIndex, portBusy, registers, programSize, mulCount, decoded>>
     ELSE /\ portBusy' = Commit(mop, at)
          /\ depCycle' = at + mop.latency
          /\ registers' = IF results THEN [registers EXCEPT ![i.dst] = Written(i, at + mop.latency)]
                          ELSE registers
          /\ bufferIndex' = bufferIndex + 1 /\ macroOpIndex' = OpIndex + 1
          /\ portsSaturated' = (portsSaturated \/ at >= Latency)
          /\ programSize' = programSize + (IF completes THEN 1 ELSE 0)
          /\ mulCount' = mulCount + (IF completes /\ i.type \in Multiplications THEN 1 ELSE 0)
          /\ decoded' = decoded + (IF mop.uops = <<>> THEN 1 ELSE Len(mop.uops))
          /\ issued' = [size |-> mop.size, slot |-> buffer[bufferIndex], at |-> at,
                        src |-> IF OpIndex = info.srcOp THEN ReadyAt(i.src) ELSE 0,
                        dst |-> IF OpIndex \in {info.dstOp, info.resultOp} THEN ReadyAt(i.dst) ELSE 0,
                        repeats |-> results /\ i.type \notin High
                                    /\ registers[i.dst].group = OpGroup(i.type)
                                    /\ registers[i.dst].par = i.src]
          /\ UNCHANGED <<phase, decodeCycle, cycle>>
  /\ UNCHANGED buffer

\* A macro-op that selects no register.
IssueOp(i) ==
  /\ Filling /\ Scheduled(OpsOf(i)[OpIndex + 1], cycle, depCycle) >= 0
  /\ OpIndex \notin {InfoOf[i.type].srcOp, InfoOf[i.type].dstOp}
  /\ Place(i, Scheduled(OpsOf(i)[OpIndex + 1], cycle, depCycle))

\* A macro-op that selects the destination at cycle at, after waits cycles
\* spent on the source.
SelectDestination(i, at, waits) ==
  LET stall == DestinationStall(i, at) IN
  IF stall = LookForward THEN Discard(i, waits + stall)
  ELSE \E dst \in selectDestination(i, at + stall) : Place([i EXCEPT !.dst = dst], at + stall)

WithSrc(i, src) == [i EXCEPT !.src = src, !.par = IF i.type \in WithSource THEN src ELSE @]
IssueSelecting(i) ==
  LET info == InfoOf[i.type]
      at == Scheduled(OpsOf(i)[OpIndex + 1], cycle, depCycle)
      stall == SourceStall(i, at)
  IN
  /\ Filling /\ at >= 0
  /\ OpIndex \in {info.srcOp, info.dstOp}
  /\ IF OpIndex # info.srcOp THEN SelectDestination(i, at, 0)
     ELSE IF stall = LookForward THEN Discard(i, stall)
     ELSE \E src \in Sources(i, at + stall) :
            IF OpIndex = info.dstOp THEN SelectDestination(WithSrc(i, src), at + stall, stall)
            ELSE Place(WithSrc(i, src), at + stall)

GeneratorNext ==
  \/ Fetch
  \/ Finish
  \/ EndBuffer
  \/ phase = "slot" /\ bufferIndex <= Len(buffer) /\ \E i \in Candidates :
       Saturate(i) \/ IssueOp(i) \/ IssueSelecting(i)

---------------------------------------------------------------------------
\* The scheduler keeps within its tables and the program within its buffer
\* of SuperscalarMaxSize instructions.
GeneratorTypeOK ==
  /\ phase \in {"fetch", "slot", "done"}
  /\ decodeCycle \in 0 .. Latency /\ cycle \in Nat /\ depCycle \in Nat
  /\ current.type \in DOMAIN InfoOf /\ macroOpIndex \in 0 .. 3
  /\ portBusy \in [0 .. CycleMapSize - 1 -> SUBSET P015]
  /\ \A r \in Registers : registers[r].latency \in Nat
  /\ programSize \in 0 .. SuperscalarMaxSize
  /\ throwAwayCount \in 0 .. MaxThrowaway

\* A macro-op fits the slot it is given, also the later ones of an instruction
\* that goes on into the next buffer, and no cycle decodes more than 4 uops
\* ("Intel CPUs can decode at most 4 uOPs per cycle", superscalar.cpp:246).
DecoderHolds == issued.size <= issued.slot /\ decoded <= 4

\* An operand is ready in the cycle its macro-op executes in: also the
\* destination of a high multiplication, which is selected for the move before
\* it, with a wait of its own, while the multiplication is scheduled from the
\* next decode cycle on.
OperandsReady == issued.src <= issued.at /\ issued.dst <= issued.at

\* No operation is applied to a register twice in a row with the same operand
\* ("this avoids optimizable instruction sequences", superscalar.cpp:497).
NeverRepeated == ~issued.repeats

\* A program is one that the processor it is meant for executes at the latency it
\* was generated for.
ScheduleSound == GeneratorTypeOK /\ DecoderHolds /\ OperandsReady /\ NeverRepeated
=============================================================================
