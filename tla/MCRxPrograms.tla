---------------------------- MODULE MCRxPrograms ----------------------------
\* Instances of RxPrograms for TLC: 16 bit words, 8 bit immediates.
EXTENDS RxPrograms

Ins(op, d, s, imm, mem, shift, cond) ==
  [op |-> op, dst |-> d, src |-> s, imm |-> imm, mem |-> mem, shift |-> shift, cond |-> cond]
Edges == {0, 1, 2, 5, 7, 8, 9, 31, 32, 56, 63, 64, 65, 100, 127, 128, 129, 131, 200, 248, 252, 255}
Pairs == {<<1, 2>>, <<1, 1>>, <<1, 4>>, <<4, 1>>, <<4, 4>>, <<5, 1>>, <<5, 5>>, <<1, 5>>}

FullAlphabet ==
  {Ins("IADD_RS", p[1], p[2], imm, 0, sh, 0) : p \in Pairs, imm \in {0, 3, 100, 128, 255}, sh \in 0 .. 3}
  \cup {Ins(op, 1, 1, imm, 0, 0, 0) : op \in OpsRegister, imm \in Imm}
  \cup {Ins(op, 1, 2, imm, 0, 0, 0) : op \in OpsRegister, imm \in {0, 131}}
  \cup {Ins(op, 1, s, imm, 0, 0, 0) : op \in OpsRotate, s \in {1, 2}, imm \in 0 .. 17}
  \cup {Ins(op, p[1], p[2], imm, mem, 0, 0) : op \in OpsMemory, p \in Pairs, imm \in Edges, mem \in 0 .. 1}
  \cup {Ins(op, 1, s, 0, 0, 0, 0) : op \in OpsHigh \cup {"ISWAP_R", "INEG_R"}, s \in {1, 2}}
  \cup {Ins("IMUL_RCP", 1, 1, imm, 0, 0, 0) : imm \in Imm}
  \cup {Ins(op, d, s, 0, 0, 0, 0) : op \in OpsFloat \cup {"FSWAP_R", "FSCAL_R", "FSQRT_R"},
                                     d \in 0 .. 7, s \in {0, 3, 6}}
  \cup {Ins(op, d, s, imm, mem, 0, 0) : op \in OpsFloatMemory, d \in {1, 6}, s \in {1, 4, 6},
                                        imm \in Edges, mem \in 0 .. 1}
  \cup {Ins("CBRANCH", d, d, imm, 0, 0, cond) : d \in {1, 5}, imm \in Edges, cond \in 0 .. 2}
  \cup {Ins("CFROUND", s, s, imm, 0, 0, 0) : s \in {1, 2}, imm \in 0 .. 17}
  \cup {Ins("ISTORE", p[1], p[2], imm, mem, 0, cond) : p \in Pairs, imm \in Edges, mem \in 0 .. 1, cond \in {1, 3}}
  \cup {Ins("NOP", 0, 0, 0, 0, 0, 0)}

\* V2 differs in CFROUND.
MCAlphabet ==
  [flag \in BOOLEAN |->
     IF flag THEN {ins \in FullAlphabet : ins.op \in {"CFROUND", "CBRANCH"}} ELSE FullAlphabet]

MCLoopAlphabet ==
  {Ins("ISUB_R", 1, 1, 128, 0, 0, 0), Ins("ISWAP_R", 1, 1, 0, 0, 0, 0),
   Ins("ISWAP_R", 1, 2, 0, 0, 0, 0), Ins("IMUL_RCP", 1, 1, 8, 0, 0, 0), Ins("IMUL_RCP", 1, 1, 9, 0, 0, 0),
   Ins("CBRANCH", 1, 1, 0, 0, 0, 0), Ins("CBRANCH", 1, 1, 255, 0, 0, 2), Ins("CBRANCH", 5, 5, 128, 0, 0, 2),
   Ins("IADD_M", 5, 1, 5, 0, 0, 0)}

\* Superscalar instructions; five literals move a pool pointer twice.
MCItemAlphabet ==
  {Ins(op, 1, s, 0, 0, 0, 0) : op \in OpsPlain, s \in {2, 4}}
  \cup {Ins("IADD_RS", d, s, 0, 0, sh, 0) : d \in {1, 4, 5}, s \in {2, 4}, sh \in 0 .. 3}
  \cup {Ins(op, d, 0, imm, 0, 0, 0) : op \in OpsConstant, d \in {1, 5}, imm \in Imm}
  \cup {Ins("IROR_C", 1, 0, imm, 0, 0, 0) : imm \in 1 .. 15}
  \cup {Ins("IMUL_RCP", 1, 0, imm, 0, 0, 0) : imm \in {i \in Imm : ~isZeroOrPowerOf2(i)}}
  \cup {Ins("MIX", d, 0, 0, 0, 0, 0) : d \in {0, 1, 7}}
MCItemLoop ==
  {Ins("IMUL_RCP", 1, 0, 3, 0, 0, 0), Ins("IMUL_RCP", 1, 0, 200, 0, 0, 0),
   Ins("ISUB_R", 1, 2, 0, 0, 0, 0), Ins("MIX", 1, 0, 0, 0, 0, 0)}

MCSeeds == {[n \in 0 .. 7 |-> (n * 40503) % 65536], [n \in 0 .. 7 |-> 65535 - n],
            [n \in 0 .. 7 |-> (n * 252) % 65536]}
=============================================================================
